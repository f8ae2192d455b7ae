----------------------------- MODULE TextProofs -----------------------------
(***************************************************************************)
(* Lemmas about texts: what the operators of Request.tla find, take and    *)
(* read of a text, and of one that is cut.                                 *)
(*                                                                         *)
(* What a recursive function or a concatenation of many texts is rests on  *)
(* Induction, a rule about sets of numbers: the functions that compute it  *)
(* are shown to exist and to agree.                                        *)
(*                                                                         *)
(* A text that is cut is a \o w, of which a has come and w is still to     *)
(* come.                                                                   *)
(***************************************************************************)
EXTENDS RequestInvariant, SequenceTheorems, WellFoundedInduction, TLAPS

-----------------------------------------------------------------------------
(* Numbers.                                                                *)

(* The order of the numbers, as the rules of well-founded induction need   *)
(* it.                                                                     *)
Less == {p \in Nat \X Nat : p[1] < p[2]}

\* The order of the numbers is well founded.
LEMMA LessWellFounded == IsWellFoundedOn(Less, Nat)
<1>1. Less = OpToRel(<, Nat)
  BY DEF Less, OpToRel
<1> QED
  BY <1>1, NatLessThanWellFounded

\* A set of numbers has a least one, and Min is it.
LEMMA Least ==
    ASSUME NEW T \in SUBSET Nat, T # {}
    PROVE  /\ Min(T) \in T
           /\ \A m \in T : Min(T) =< m
<1>1. PICK n \in T : \A m \in T : ~(<<m, n>> \in Less)
  BY LessWellFounded, WFMin
<1>2. \A x, y \in Nat : x < y => <<x, y>> \in Less
  BY DEF Less
<1>3. n \in Nat
  OBVIOUS
<1>4. ASSUME NEW m \in T PROVE n =< m
  <2>1. m \in Nat /\ ~(m < n)
    BY <1>1, <1>2, <1>3
  <2> QED
    BY <2>1, <1>3
<1>5. \E x \in T : \A m \in T : x =< m
  BY <1>4
<1> QED
  BY <1>5 DEF Min

\* A set of numbers up to n has a greatest one, and Max is it.
LEMMA Greatest ==
    ASSUME NEW n \in Nat, NEW T \in SUBSET (1..n), T # {}
    PROVE  /\ Max(T) \in T
           /\ \A m \in T : m =< Max(T)
<1> DEFINE U == {n - x : x \in T}
<1>0. \A x \in T : x \in Nat /\ n - x \in Nat
  OBVIOUS
<1>1. U \in SUBSET Nat /\ U # {}
  BY <1>0
<1>2. Min(U) \in U /\ \A m \in U : Min(U) =< m
  BY <1>1, Least
<1>3. PICK x \in T : Min(U) = n - x
  BY <1>2
<1>4. ASSUME NEW m \in T PROVE m =< x
  <2>1. n - m \in U
    OBVIOUS
  <2>2. n - x =< n - m /\ m \in Nat /\ x \in Nat
    BY <2>1, <1>0, <1>2, <1>3
  <2> QED
    BY <2>2
<1>5. \E y \in T : \A m \in T : y >= m
  BY <1>4
<1> QED
  BY <1>5 DEF Max

\* Induction, as a rule about sets: it names no operator.
LEMMA Induction ==
    ASSUME NEW T \in SUBSET Nat, 0 \in T, \A n \in T : n + 1 \in T
    PROVE  T = Nat
<1>1. SUFFICES ASSUME Nat \ T # {} PROVE FALSE
  OBVIOUS
<1>2. PICK n \in Nat \ T : \A m \in Nat \ T : n =< m
  BY <1>1, Least
<1>3. n # 0 /\ n - 1 \in Nat /\ ~(n =< n - 1)
  BY <1>2
<1>4. n - 1 \in T
  BY <1>2, <1>3
<1>5. n - 1 + 1 \in T /\ n - 1 + 1 = n
  BY <1>3, <1>4
<1> QED
  BY <1>2, <1>5

-----------------------------------------------------------------------------
(* Search.                                                                 *)

\* Find is the first place of the character, or zero without it.
LEMMA FindFirst ==
    ASSUME NEW s \in Text, NEW ch
    PROVE  /\ Find(s, ch) \in 0..Len(s)
           /\ Find(s, ch) = 0 => Free(s, {ch})
           /\ Find(s, ch) # 0 => s[Find(s, ch)] = ch /\ \A i \in 1..(Find(s, ch) - 1) : s[i] # ch
<1> DEFINE I == {i \in 1..Len(s) : s[i] = ch}
<1>0. Len(s) \in Nat /\ DOMAIN s = 1..Len(s)
  BY DEF Text
<1>1. Find(s, ch) = IF I # {} THEN Min(I) ELSE 0
  BY DEF Find, SelectInSeq
<1>2. I \in SUBSET Nat
  BY <1>0
<1>3. CASE I = {}
  BY <1>0, <1>1, <1>3 DEF Free
<1>4. CASE I # {}
  <2>1. Min(I) \in I /\ \A m \in I : Min(I) =< m
    BY <1>2, <1>4, Least
  <2>2. ASSUME NEW i \in 1..(Min(I) - 1) PROVE s[i] # ch
    <3>1. i \in 1..Len(s) /\ ~(Min(I) =< i)
      BY <2>1, <1>0
    <3> QED
      BY <2>1, <3>1
  <2>3. Min(I) \in 1..Len(s) /\ s[Min(I)] = ch
    BY <2>1
  <2> HIDE DEF I
  <2> QED
    BY <2>2, <2>3, <1>0, <1>1, <1>4
<1> QED
  BY <1>3, <1>4

\* FindOther is the first place of a character that is not in the set.
LEMMA FindOtherFirst ==
    ASSUME NEW s \in Text, NEW S
    PROVE  /\ FindOther(s, S) \in 0..Len(s)
           /\ FindOther(s, S) = 0 => \A i \in 1..Len(s) : s[i] \in S
           /\ FindOther(s, S) # 0 => /\ s[FindOther(s, S)] \notin S
                                     /\ \A i \in 1..(FindOther(s, S) - 1) : s[i] \in S
<1> DEFINE I == {i \in 1..Len(s) : s[i] \notin S}
<1>0. Len(s) \in Nat /\ DOMAIN s = 1..Len(s)
  BY DEF Text
<1>1. FindOther(s, S) = IF I # {} THEN Min(I) ELSE 0
  BY DEF FindOther, SelectInSeq
<1>2. I \in SUBSET Nat
  BY <1>0
<1>3. CASE I = {}
  BY <1>0, <1>1, <1>3
<1>4. CASE I # {}
  <2>1. Min(I) \in I /\ \A m \in I : Min(I) =< m
    BY <1>2, <1>4, Least
  <2>2. ASSUME NEW i \in 1..(Min(I) - 1) PROVE s[i] \in S
    <3>1. i \in 1..Len(s) /\ ~(Min(I) =< i)
      BY <2>1, <1>0
    <3> QED
      BY <2>1, <3>1
  <2>3. Min(I) \in 1..Len(s) /\ s[Min(I)] \notin S
    BY <2>1
  <2> HIDE DEF I
  <2> QED
    BY <2>2, <2>3, <1>0, <1>1, <1>4
<1> QED
  BY <1>3, <1>4

\* FindLast is the last place of the character, or zero without it.
LEMMA FindLastLast ==
    ASSUME NEW s \in Text, NEW ch
    PROVE  /\ FindLast(s, ch) \in 0..Len(s)
           /\ FindLast(s, ch) = 0 => Free(s, {ch})
           /\ FindLast(s, ch) # 0 => /\ s[FindLast(s, ch)] = ch
                                     /\ \A i \in (FindLast(s, ch) + 1)..Len(s) : s[i] # ch
<1> DEFINE I == {i \in 1..Len(s) : s[i] = ch}
<1>0. Len(s) \in Nat /\ DOMAIN s = 1..Len(s)
  BY DEF Text
<1>1. FindLast(s, ch) = IF I # {} THEN Max(I) ELSE 0
  BY DEF FindLast, SelectLastInSeq
<1>2. I \in SUBSET (1..Len(s))
  BY <1>0
<1>3. CASE I = {}
  BY <1>0, <1>1, <1>3 DEF Free
<1>4. CASE I # {}
  <2>1. Max(I) \in I /\ \A m \in I : m =< Max(I)
    BY <1>0, <1>2, <1>4, Greatest
  <2>2. ASSUME NEW i \in (Max(I) + 1)..Len(s) PROVE s[i] # ch
    <3>1. i \in 1..Len(s) /\ ~(i =< Max(I))
      BY <2>1, <1>0
    <3> QED
      BY <2>1, <3>1
  <2>3. Max(I) \in 1..Len(s) /\ s[Max(I)] = ch
    BY <2>1
  <2> HIDE DEF I
  <2> QED
    BY <2>2, <2>3, <1>0, <1>1, <1>4
<1> QED
  BY <1>3, <1>4

-----------------------------------------------------------------------------
(* The concatenation of many texts.                                        *)

\* Concatenation is associative.
LEMMA Assoc ==
    ASSUME NEW s \in Text, NEW t \in Text, NEW u \in Text
    PROVE  (s \o t) \o u = s \o (t \o u)
  BY ConcatAssociative DEF Text

(* The same, kept folded.                                                  *)
LEMMA AssocSame ==
    ASSUME NEW s \in Text, NEW t \in Text, NEW u \in Text
    PROVE  Same((s \o t) \o u, s \o (t \o u))
<1>1. (s \o t) \o u = s \o (t \o u)
  BY Assoc
<1> QED
  BY <1>1, Zenon DEF Same

(* The first n partial concatenations of s, of which FlattenSeq is the     *)
(* last.                                                                   *)
Sums(f, s, n) == f = [i \in 1..n |-> IF i = 1 THEN s[i] ELSE f[i - 1] \o s[i]]

\* There are partial concatenations of every length.
LEMMA SumsExist ==
    ASSUME NEW s, NEW n \in Nat
    PROVE  \E f : Sums(f, s, n)
<1> DEFINE T == {k \in Nat : \E f : Sums(f, s, k)}
<1>1. 0 \in T
  <2> DEFINE f == [i \in 1..0 |-> s]
  <2>1. Sums(f, s, 0)
    BY DEF Sums
  <2> QED
    BY <2>1
<1>2. ASSUME NEW k \in T PROVE k + 1 \in T
  <2>1. PICK f : Sums(f, s, k)
    OBVIOUS
  <2> DEFINE g == [i \in 1..(k + 1) |->
                      IF i =< k THEN f[i] ELSE IF i = 1 THEN s[i] ELSE f[i - 1] \o s[i]]
  <2>2. \A i \in 1..k : f[i] = IF i = 1 THEN s[i] ELSE f[i - 1] \o s[i]
    BY <2>1 DEF Sums
  <2>3. ASSUME NEW i \in 1..(k + 1)
        PROVE  g[i] = IF i = 1 THEN s[i] ELSE g[i - 1] \o s[i]
    <3>1. i # 1 => i - 1 \in 1..(k + 1) /\ i - 1 =< k
      OBVIOUS
    <3>2. i =< k => i \in 1..k
      OBVIOUS
    <3>3. g[i] = IF i =< k THEN f[i] ELSE IF i = 1 THEN s[i] ELSE f[i - 1] \o s[i]
      OBVIOUS
    <3>4. i # 1 => g[i - 1] = f[i - 1]
      BY <3>1
    <3> HIDE DEF g
    <3> QED
      BY <3>1, <3>2, <3>3, <3>4, <2>2
  <2>4. g = [i \in 1..(k + 1) |-> g[i]]
    OBVIOUS
  <2> HIDE DEF g
  <2>5. Sums(g, s, k + 1)
    BY <2>3, <2>4 DEF Sums
  <2> QED
    BY <2>5
<1>3. T = Nat
  <2>1. T \in SUBSET Nat
    OBVIOUS
  <2> HIDE DEF T
  <2> QED
    BY <1>1, <1>2, <2>1, Induction
<1> QED
  BY <1>3

\* Partial concatenations are the same where the texts are.
LEMMA SumsAgree ==
    ASSUME NEW s, NEW t, NEW f, NEW g, NEW m \in Nat, NEW n \in Nat, n =< m,
           Sums(f, s, m), Sums(g, t, n), \A i \in 1..n : s[i] = t[i]
    PROVE  \A i \in 1..n : f[i] = g[i]
<1> DEFINE T == {i \in Nat : i \in 1..n => f[i] = g[i]}
<1>1. /\ \A i \in 1..m : f[i] = IF i = 1 THEN s[i] ELSE f[i - 1] \o s[i]
      /\ \A i \in 1..n : g[i] = IF i = 1 THEN t[i] ELSE g[i - 1] \o t[i]
  BY DEF Sums
<1>2. 0 \in T
  OBVIOUS
<1>3. ASSUME NEW i \in T PROVE i + 1 \in T
  <2>1. CASE i + 1 \in 1..n
    <3>1. i # 0 => i \in 1..n
      BY <2>1
    <3>2. i + 1 \in 1..m /\ i + 1 - 1 = i /\ (i + 1 = 1 <=> i = 0)
      BY <2>1
    <3>3. i # 0 => f[i] = g[i]
      BY <3>1
    <3> QED
      BY <1>1, <2>1, <3>2, <3>3
  <2> QED
    BY <2>1
<1>4. T = Nat
  <2>1. T \in SUBSET Nat
    OBVIOUS
  <2> HIDE DEF T
  <2> QED
    BY <1>2, <1>3, <2>1, Induction
<1> QED
  BY <1>4

\* FlattenSeq is the last of the partial concatenations.
LEMMA FlattenSums ==
    ASSUME NEW s \in Seq(Text), s # <<>>
    PROVE  \E f : Sums(f, s, Len(s)) /\ FlattenSeq(s) = f[Len(s)]
<1> DEFINE f == CHOOSE g : Sums(g, s, Len(s))
<1>1. Len(s) \in Nat /\ Len(s) # 0
  OBVIOUS
<1>2. Sums(f, s, Len(s))
  BY <1>1, SumsExist
<1>3. FlattenSeq(s) = f[Len(s)]
  BY <1>1 DEF FlattenSeq, Sums
<1> QED
  BY <1>2, <1>3

\* Nothing concatenated is nothing.
LEMMA FlattenEmpty == FlattenSeq(<<>>) = <<>>
  BY DEF FlattenSeq

\* A text behind the others is concatenated last.
LEMMA FlattenAppend ==
    ASSUME NEW s \in Seq(Text), NEW x \in Text
    PROVE  FlattenSeq(Append(s, x)) = FlattenSeq(s) \o x
<1> DEFINE t == Append(s, x)
<1>1. /\ t \in Seq(Text) /\ t # <<>> /\ Len(t) = Len(s) + 1
      /\ \A i \in 1..Len(s) : t[i] = s[i]
      /\ t[Len(s) + 1] = x
      /\ Len(s) \in Nat
  BY AppendProperties, LenProperties
<1> HIDE DEF t
<1>2. PICK f : Sums(f, t, Len(t)) /\ FlattenSeq(t) = f[Len(t)]
  BY <1>1, FlattenSums
<1>3. \A i \in 1..Len(t) : f[i] = IF i = 1 THEN t[i] ELSE f[i - 1] \o t[i]
  BY <1>2 DEF Sums
<1>4. CASE s = <<>>
  <2>1. FlattenSeq(t) = x
    BY <1>1, <1>2, <1>3, <1>4
  <2>2. <<>> \o x = x
    BY ConcatEmptySeq DEF Text
  <2> QED
    BY <2>1, <2>2, <1>4, FlattenEmpty DEF t
<1>5. CASE s # <<>>
  <2>1. PICK g : Sums(g, s, Len(s)) /\ FlattenSeq(s) = g[Len(s)]
    BY <1>5, FlattenSums
  <2>2. Len(s) \in 1..Len(s) /\ Len(s) # 0
    BY <1>5, <1>1
  <2>3. f[Len(s)] = g[Len(s)]
    BY <1>1, <1>2, <2>1, <2>2, SumsAgree
  <2>4. f[Len(s) + 1] = f[Len(s)] \o x
    <3>1. /\ Len(s) + 1 \in 1..Len(t) /\ Len(s) + 1 - 1 = Len(s) /\ Len(s) + 1 # 1
          /\ t[Len(s) + 1] = x
      BY <1>1, <2>2
    <3>2. \A k \in 1..Len(t) : k # 1 => f[k] = f[k - 1] \o t[k]
      BY <1>3
    <3>3. PICK k \in 1..Len(t) : k = Len(s) + 1 /\ k # 1 /\ k - 1 = Len(s)
      BY <3>1
    <3>4. f[k] = f[k - 1] \o t[k]
      BY <3>2, <3>3
    <3> QED
      BY <3>1, <3>3, <3>4, Zenon
  <2> QED
    BY <1>1, <1>2, <2>1, <2>3, <2>4 DEF t
<1> QED
  BY <1>4, <1>5

\* The concatenation of texts is a text.
LEMMA FlattenTyped ==
    ASSUME NEW s \in Seq(Text)
    PROVE  FlattenSeq(s) \in Text
<1> DEFINE T == {n \in Nat : \A r \in Seq(Text) : Len(r) = n => FlattenSeq(r) \in Text}
<1>1. 0 \in T
  <2>1. <<>> \in Text
    BY DEF Text
  <2> QED
    BY <2>1, FlattenEmpty
<1>2. ASSUME NEW n \in T PROVE n + 1 \in T
  <2>1. SUFFICES ASSUME NEW r \in Seq(Text), Len(r) = n + 1 PROVE FlattenSeq(r) \in Text
    OBVIOUS
  <2>2. r # <<>>
    BY <2>1
  <2>3. PICK q \in Seq(Text), x \in Text : r = Append(q, x)
    BY <2>2, SequenceEmptyOrAppend
  <2>4. Len(q) = n
    BY <2>1, <2>3
  <2>5. FlattenSeq(q) \in Text
    BY <2>4
  <2>6. FlattenSeq(q) \o x \in Text
    BY <2>5, ConcatProperties DEF Text
  <2> QED
    BY <2>3, <2>6, FlattenAppend
<1>3. T = Nat
  <2>1. T \in SUBSET Nat
    OBVIOUS
  <2> HIDE DEF T
  <2> QED
    BY <1>1, <1>2, <2>1, Induction
<1> QED
  BY <1>3

\* A text before the others is concatenated first.
LEMMA FlattenFirst ==
    ASSUME NEW x \in Text, NEW s \in Seq(Text)
    PROVE  FlattenSeq(<<x>> \o s) = x \o FlattenSeq(s)
<1> DEFINE T == {n \in Nat : \A r \in Seq(Text) :
                    Len(r) = n => FlattenSeq(<<x>> \o r) = x \o FlattenSeq(r)}
<1>1. 0 \in T
  <2>0. \A r \in Seq(Text) : Len(r) = 0 => r = <<>>
    OBVIOUS
  <2>1. SUFFICES FlattenSeq(<<x>> \o <<>>) = x \o FlattenSeq(<<>>)
    BY <2>0
  <2>2. <<x>> \o <<>> = Append(<<>>, x)
    OBVIOUS
  <2>3. <<>> \o x = x /\ x \o <<>> = x
    BY ConcatEmptySeq DEF Text
  <2>4. FlattenSeq(Append(<<>>, x)) = FlattenSeq(<<>>) \o x
    <3>1. <<>> \in Seq(Text)
      OBVIOUS
    <3> QED
      BY <3>1, FlattenAppend
  <2> QED
    BY <2>2, <2>3, <2>4, FlattenEmpty
<1>2. ASSUME NEW n \in T PROVE n + 1 \in T
  <2>1. SUFFICES ASSUME NEW r \in Seq(Text), Len(r) = n + 1
                 PROVE  FlattenSeq(<<x>> \o r) = x \o FlattenSeq(r)
    <3>1. n + 1 \in Nat
      OBVIOUS
    <3> QED
      BY <3>1, Zenon
  <2>2. r # <<>>
    BY <2>1
  <2>3. PICK q \in Seq(Text), y \in Text : r = Append(q, y)
    BY <2>2, SequenceEmptyOrAppend
  <2>4. Len(q) = n
    BY <2>1, <2>3
  <2>5. FlattenSeq(<<x>> \o q) = x \o FlattenSeq(q)
    BY <2>4
  <2>6. <<x>> \o q \in Seq(Text) /\ <<x>> \o Append(q, y) = Append(<<x>> \o q, y)
    OBVIOUS
  <2>7. FlattenSeq(q) \in Text
    BY FlattenTyped
  <2>8. (x \o FlattenSeq(q)) \o y = x \o (FlattenSeq(q) \o y)
    <3>1. Same((x \o FlattenSeq(q)) \o y, x \o (FlattenSeq(q) \o y))
      BY <2>7, AssocSame, Zenon
    <3> QED
      BY <3>1, Zenon DEF Same
  <2>9. FlattenSeq(<<x>> \o r) = FlattenSeq(<<x>> \o q) \o y
    BY <2>3, <2>6, FlattenAppend
  <2>10. FlattenSeq(r) = FlattenSeq(q) \o y
    BY <2>3, FlattenAppend
  <2> QED
    BY <2>5, <2>8, <2>9, <2>10
<1>3. T = Nat
  <2>1. T \in SUBSET Nat
    OBVIOUS
  <2> HIDE DEF T
  <2> QED
    BY <1>1, <1>2, <2>1, Induction
<1> QED
  BY <1>3

(* The texts from n on are text n and those after it; the texts up to n    *)
(* are those before it and text n.                                         *)
LEMMA FlattenFrom ==
    ASSUME NEW s \in Seq(Text), NEW n \in 1..Len(s)
    PROVE  /\ FlattenSeq(SubSeq(s, n, Len(s))) = s[n] \o FlattenSeq(SubSeq(s, n + 1, Len(s)))
           /\ FlattenSeq(SubSeq(s, 1, n)) = FlattenSeq(SubSeq(s, 1, n - 1)) \o s[n]
           /\ SubSeq(s, n, Len(s)) \in Seq(Text) /\ SubSeq(s, n + 1, Len(s)) \in Seq(Text)
           /\ SubSeq(s, 1, n) \in Seq(Text) /\ SubSeq(s, 1, n - 1) \in Seq(Text)
<1>1. Len(s) \in Nat /\ Len(s) \in n..Len(s) /\ n \in 1..n /\ 1 \in 1..Len(s)
  OBVIOUS
<1>2. SubSeq(s, n, Len(s)) = <<s[n]>> \o SubSeq(s, n + 1, Len(s))
  BY <1>1, SubSeqRecursiveFirst
<1>3. SubSeq(s, 1, n) = SubSeq(s, 1, n - 1) \o <<s[n]>>
  BY <1>1, SubSeqRecursiveSecond
<1>4. /\ SubSeq(s, n, Len(s)) \in Seq(Text) /\ SubSeq(s, n + 1, Len(s)) \in Seq(Text)
      /\ SubSeq(s, 1, n) \in Seq(Text) /\ SubSeq(s, 1, n - 1) \in Seq(Text)
  OBVIOUS
<1>5. s[n] \in Text
  OBVIOUS
<1>6. SubSeq(s, 1, n - 1) \o <<s[n]>> = Append(SubSeq(s, 1, n - 1), s[n])
  BY <1>4, <1>5
<1>7. FlattenSeq(<<s[n]>> \o SubSeq(s, n + 1, Len(s)))
         = s[n] \o FlattenSeq(SubSeq(s, n + 1, Len(s)))
  BY <1>4, <1>5, FlattenFirst
<1>8. FlattenSeq(Append(SubSeq(s, 1, n - 1), s[n])) = FlattenSeq(SubSeq(s, 1, n - 1)) \o s[n]
  BY <1>4, <1>5, FlattenAppend
<1> QED
  BY <1>2, <1>3, <1>4, <1>6, <1>7, <1>8

-----------------------------------------------------------------------------
(* Numbers in digits.                                                      *)

\* The digits are sixteen characters.
LEMMA DigitsTyped ==
    /\ Digits \in Text /\ Digits[1] = "0" /\ Len(Digits) = 16
    /\ ToSet(Digits) = {Digits[i] : i \in 1..16}
<1>1. Digits \in Text /\ Digits[1] = "0" /\ Len(Digits) = 16
  <2>1. Len(Digits) = 16 /\ DOMAIN Digits = 1..16 /\ Digits[1] = "0"
    BY DEF Digits
  <2>2. ToSet(Digits) = {Digits[i] : i \in 1..16}
    BY <2>1 DEF ToSet
  <2>3. \A i \in 1..16 : Digits[i] \in Char
    BY <2>2, CharAssumption
  <2>4. Digits \in Seq({Digits[i] : i \in 1..16})
    BY DEF Digits
  <2>5. {Digits[i] : i \in 1..16} \subseteq Char
    BY <2>3
  <2> QED
    BY <2>1, <2>4, <2>5, SeqMonotonic DEF Text
<1>2. DOMAIN Digits = 1..16
  BY <1>1 DEF Text
<1> QED
  BY <1>1, <1>2 DEF ToSet

\* A digit has a place among the digits, the first if it is zero.
LEMMA DigitFound ==
    ASSUME NEW d \in ToSet(Digits)
    PROVE  /\ Find(Digits, d) \in 1..16
           /\ d # "0" => Find(Digits, d) > 1
           /\ d = "0" => Find(Digits, d) = 1
<1>1. /\ Find(Digits, d) \in 0..16
      /\ Find(Digits, d) = 0 => Free(Digits, {d})
      /\ Find(Digits, d) # 0 => /\ Digits[Find(Digits, d)] = d
                                /\ \A i \in 1..(Find(Digits, d) - 1) : Digits[i] # d
  BY DigitsTyped, FindFirst
<1>2. ~Free(Digits, {d})
  <2>1. PICK i \in DOMAIN Digits : Digits[i] = d
    BY DEF ToSet
  <2> QED
    BY <2>1 DEF Free
<1>3. Find(Digits, d) # 0
  BY <1>1, <1>2
<1>4. Digits[1] = "0"
  BY DigitsTyped
<1>5. ASSUME Find(Digits, d) = 1 PROVE d = "0"
  BY <1>1, <1>4, <1>5
<1>6. ASSUME d = "0", Find(Digits, d) > 1 PROVE FALSE
  <2>1. 1 \in 1..(Find(Digits, d) - 1)
    BY <1>1, <1>6
  <2> QED
    BY <2>1, <1>1, <1>3, <1>4, <1>6
<1> QED
  BY <1>1, <1>3, <1>5, <1>6

\* The values of the first digits of s.
Values(f, s, n) ==
    f = [i \in 0..n |-> IF i = 0 THEN 0 ELSE 16 * f[i - 1] + Find(Digits, s[i]) - 1]

\* Digits have values.
LEMMA ValuesExist ==
    ASSUME NEW s, NEW n \in Nat
    PROVE  \E f : Values(f, s, n)
<1> DEFINE T == {k \in Nat : \E f : Values(f, s, k)}
           v(f, i) == IF i = 0 THEN 0 ELSE 16 * f[i - 1] + Find(Digits, s[i]) - 1
<1>1. 0 \in T
  <2> DEFINE f == [i \in 0..0 |-> 0]
  <2>1. Values(f, s, 0)
    BY DEF Values
  <2> QED
    BY <2>1
<1>2. ASSUME NEW k \in T PROVE k + 1 \in T
  <2>1. PICK f : Values(f, s, k)
    OBVIOUS
  <2> DEFINE g == [i \in 0..(k + 1) |-> IF i =< k THEN f[i] ELSE v(f, i)]
  <2>2. \A i \in 0..k : f[i] = v(f, i)
    BY <2>1 DEF Values
  <2>3. ASSUME NEW i \in 0..(k + 1) PROVE g[i] = v(g, i)
    <3>1. i # 0 => i - 1 \in 0..(k + 1) /\ i - 1 =< k
      OBVIOUS
    <3>2. i =< k => i \in 0..k
      OBVIOUS
    <3>3. g[i] = IF i =< k THEN f[i] ELSE v(f, i)
      OBVIOUS
    <3>4. i # 0 => g[i - 1] = f[i - 1]
      BY <3>1
    <3> HIDE DEF g
    <3>5. v(g, i) = v(f, i)
      BY <3>4
    <3> HIDE DEF v
    <3> QED
      BY <3>2, <3>3, <3>5, <2>2
  <2>4. g = [i \in 0..(k + 1) |-> g[i]]
    OBVIOUS
  <2> HIDE DEF g
  <2>5. Values(g, s, k + 1)
    BY <2>3, <2>4 DEF Values
  <2> QED
    BY <2>5
<1>3. T = Nat
  <2>1. T \in SUBSET Nat
    OBVIOUS
  <2> HIDE DEF T
  <2> QED
    BY <1>1, <1>2, <2>1, Induction
<1> QED
  BY <1>3

(* The values of the first digits of a number: they grow with every digit  *)
(* if it does not begin with a zero.                                       *)
LEMMA ValuesGrow ==
    ASSUME NEW s \in Text, \A k \in 1..Len(s) : s[k] \in ToSet(Digits),
           NEW f, Values(f, s, Len(s))
    PROVE  \A i \in 0..Len(s) : f[i] \in Nat /\ (s[1] # "0" => f[i] >= i)
<1> DEFINE T == {i \in Nat : i =< Len(s) => f[i] \in Nat /\ (s[1] # "0" => f[i] >= i)}
<1>0. Len(s) \in Nat
  BY DEF Text
<1>00. \A i \in T : i \in Nat
  OBVIOUS
<1>1. \A i \in 0..Len(s) : f[i] = IF i = 0 THEN 0 ELSE 16 * f[i - 1] + Find(Digits, s[i]) - 1
  BY DEF Values
<1>2. 0 \in T
  BY <1>0, <1>1
<1>3. ASSUME NEW i \in T PROVE i + 1 \in T
  <2>1. SUFFICES ASSUME i + 1 =< Len(s)
                 PROVE  f[i + 1] \in Nat /\ (s[1] # "0" => f[i + 1] >= i + 1)
    OBVIOUS
  <2>2. PICK j \in 1..Len(s) : j = i + 1 /\ j - 1 = i /\ j # 0 /\ j \in 0..Len(s)
    BY <2>1, <1>0
  <2>3. f[j] = 16 * f[j - 1] + Find(Digits, s[j]) - 1
    BY <1>1, <2>2
  <2>4. f[i] \in Nat /\ (s[1] # "0" => f[i] >= i)
    BY <2>1, <1>0
  <2>5. Find(Digits, s[j]) \in 1..16 /\ (s[j] # "0" => Find(Digits, s[j]) > 1)
    BY <2>2, DigitFound
  <2>6. PICK v \in Nat, d \in 1..16 : v = f[i] /\ d = Find(Digits, s[j]) /\ f[j] = 16 * v + d - 1
    BY <2>2, <2>3, <2>4, <2>5
  <2>7. i = 0 => j = 1
    BY <2>2
  <2>8. f[j] \in Nat /\ (s[1] # "0" => f[j] >= j)
    <3>1. CASE i = 0
      <4>1. f[0] = 0
        BY <1>0, <1>1
      <4>2. j = 1 /\ v = 0 /\ f[j] = d - 1 /\ (s[1] # "0" => d > 1)
        BY <4>1, <3>1, <2>2, <2>5, <2>6
      <4> QED
        BY <4>2
    <3>2. CASE i # 0
      <4>1. s[1] # "0" => v >= i
        BY <2>4, <2>6
      <4>2. 16 * v + d - 1 \in Nat /\ (v >= i => 16 * v + d - 1 >= i + 1)
        <5>1. \A a \in Nat, b \in 1..16, c \in Nat :
                  c # 0 => 16 * a + b - 1 \in Nat /\ (a >= c => 16 * a + b - 1 >= c + 1)
          OBVIOUS
        <5>2. v \in Nat /\ d \in 1..16
          BY <2>6
        <5> QED
          BY <5>1, <5>2, <3>2, <1>00
      <4> QED
        BY <2>2, <2>6, <4>1, <4>2
    <3> QED
      BY <3>1, <3>2
  <2> QED
    BY <2>2, <2>8, Zenon
<1>4. T = Nat
  <2>1. T \in SUBSET Nat
    OBVIOUS
  <2> HIDE DEF T
  <2> QED
    BY <1>2, <1>3, <2>1, Induction
<1> QED
  BY <1>0, <1>4

\* HexNumber is the value of the digits that a text begins with.
LEMMA NumberOf ==
    ASSUME NEW t \in Text
    PROVE  \E s, f :
              /\ s \in Text
              /\ \A k \in 1..Len(s) : s[k] \in ToSet(Digits)
              /\ (\A k \in DOMAIN t : t[k] \in ToSet(Digits)) => s = t
              /\ Values(f, s, Len(s)) /\ HexNumber(t) = f[Len(s)]
<1> DEFINE other == FindOther(t, ToSet(Digits))
           s == SubSeq(t, 1, IF other = 0 THEN Len(t) ELSE other - 1)
           f == CHOOSE g : Values(g, s, Len(s))
<1>0. Len(t) \in Nat /\ DOMAIN t = 1..Len(t) /\ \A i \in 1..Len(t) : t[i] \in Char
  BY DEF Text
<1>1. /\ other \in 0..Len(t)
      /\ other = 0 => \A i \in 1..Len(t) : t[i] \in ToSet(Digits)
      /\ other # 0 => /\ t[other] \notin ToSet(Digits)
                      /\ \A i \in 1..(other - 1) : t[i] \in ToSet(Digits)
  BY FindOtherFirst
<1>2. PICK n \in 0..Len(t) : /\ n = IF other = 0 THEN Len(t) ELSE other - 1
                             /\ \A i \in 1..n : t[i] \in ToSet(Digits)
  <2> HIDE DEF other
  <2>1. CASE other = 0
    <3>1. \A i \in 1..Len(t) : t[i] \in ToSet(Digits)
      BY <2>1, <1>1
    <3>2. Len(t) \in 0..Len(t) /\ Len(t) = IF other = 0 THEN Len(t) ELSE other - 1
      BY <2>1, <1>0
    <3> QED
      BY <3>1, <3>2
  <2>2. CASE other # 0
    <3>1. other - 1 \in 0..Len(t)
      BY <2>2, <1>0, <1>1
    <3> QED
      BY <2>2, <3>1, <1>1
  <2> QED
    BY <2>1, <2>2
<1>3. s = SubSeq(t, 1, n)
  BY <1>2
<1>4. s \in Text /\ Len(s) = n /\ \A i \in 1..n : s[i] = t[i]
  <2>1. \A i \in 1..n : t[i] \in Char
    BY <1>0
  <2> HIDE DEF s
  <2> QED
    BY <1>0, <1>3, <2>1, SubSeqProperties DEF Text
<1>5. (\A k \in DOMAIN t : t[k] \in ToSet(Digits)) => s = t
  <2>1. SUFFICES ASSUME \A k \in DOMAIN t : t[k] \in ToSet(Digits) PROVE s = t
    OBVIOUS
  <2>2. n = Len(t)
    <3> HIDE DEF other
    <3>1. other \in 1..Len(t) => t[other] \in ToSet(Digits)
      BY <2>1, <1>0
    <3>2. other = 0
      BY <3>1, <1>0, <1>1
    <3> QED
      BY <3>2, <1>2
  <2>3. SubSeq(t, 1, Len(t)) = t
    BY SubSeqFull DEF Text
  <2> QED
    BY <1>3, <2>2, <2>3, Zenon
<1>6. HexNumber(t) = f[Len(s)]
  BY DEF HexNumber, Values
<1>7. Values(f, s, Len(s))
  <2> HIDE DEF s
  <2>1. Len(s) \in Nat
    BY <1>4, <1>0
  <2> QED
    BY <2>1, ValuesExist
<1> HIDE DEF s, f
<1>8. \A k \in 1..Len(s) : s[k] \in ToSet(Digits)
  BY <1>2, <1>4
<1> QED
  BY <1>4, <1>5, <1>6, <1>7, <1>8, Zenon

\* What a size is read as is no negative number.
LEMMA HexTyped ==
    ASSUME NEW t \in Text
    PROVE  HexNumber(t) \in Nat
<1>1. PICK s, f : /\ s \in Text
                  /\ \A k \in 1..Len(s) : s[k] \in ToSet(Digits)
                  /\ Values(f, s, Len(s)) /\ HexNumber(t) = f[Len(s)]
  BY NumberOf
<1>2. Len(s) \in 0..Len(s)
  BY DEF Text
<1> QED
  BY <1>1, <1>2, ValuesGrow

(* A number without a leading zero is no less than its length.             *)
LEMMA HexGrows ==
    ASSUME NEW t \in Text, t # <<>>, \A k \in DOMAIN t : t[k] \in ToSet(Digits), t[1] # "0"
    PROVE  HexNumber(t) >= Len(t)
<1>1. PICK s, f : /\ s \in Text
                  /\ \A k \in 1..Len(s) : s[k] \in ToSet(Digits)
                  /\ s = t
                  /\ Values(f, s, Len(s)) /\ HexNumber(t) = f[Len(s)]
  BY NumberOf
<1>2. Len(s) \in 0..Len(s)
  BY DEF Text
<1>3. \A i \in 0..Len(s) : f[i] \in Nat /\ (s[1] # "0" => f[i] >= i)
  BY <1>1, ValuesGrow
<1> QED
  BY <1>1, <1>2, <1>3

\* The size of the last chunk is zero.
LEMMA HexZero == HexNumber(<<"0">>) = 0
<1> DEFINE t == <<"0">>
<1> HIDE DEF t
<1>1. "0" \in ToSet(Digits)
  <2>1. 1 \in 1..16
    OBVIOUS
  <2> QED
    BY <2>1, DigitsTyped
<1>0. t \in Text /\ Len(t) = 1 /\ t[1] = "0" /\ DOMAIN t = {1}
  <2>1. t \in Text /\ Len(t) = 1 /\ t[1] = "0"
    <3>1. "0" \in Char
      BY <1>1, CharAssumption
    <3> QED
      BY <3>1 DEF t, Text
  <2>2. DOMAIN t = 1..Len(t)
    BY <2>1 DEF Text
  <2> QED
    BY <2>1, <2>2
<1>2. PICK s, f : s \in Text /\ s = t /\ Values(f, s, Len(s)) /\ HexNumber(t) = f[Len(s)]
  BY <1>0, <1>1, NumberOf
<1>3. Find(Digits, "0") = 1
  BY <1>1, DigitFound
<1>4. \A i \in 0..1 : f[i] = IF i = 0 THEN 0 ELSE 16 * f[i - 1] + Find(Digits, t[i]) - 1
  BY <1>0, <1>2 DEF Values
<1>5. f[0] = 0 /\ f[1] = 16 * f[0] + Find(Digits, t[1]) - 1
  BY <1>4
<1> QED
  BY <1>0, <1>2, <1>3, <1>5 DEF t

-----------------------------------------------------------------------------
(* The parts of a text.                                                    *)

\* The characters that end the parts of a request are characters.
LEMMA CharTyped == SP \in Char /\ CR \in Char /\ LF \in Char /\ ":" \in Char /\ "?" \in Char
                   /\ "/" \in Char /\ "0" \in Char
<1>1. 1 \in 1..16 /\ Digits[1] = "0"
  BY DigitsTyped
<1>2. "0" \in ToSet(Digits)
  BY <1>1, DigitsTyped
<1> QED
  BY <1>2, CharAssumption

(* A text is its characters.                                               *)
LEMMA TextFacts ==
    ASSUME NEW s \in Text
    PROVE  Len(s) \in Nat /\ DOMAIN s = 1..Len(s) /\ \A i \in 1..Len(s) : s[i] \in Char
  BY DEF Text

\* A concatenation of texts is a text, and has the characters of both.
LEMMA ConcatText ==
    ASSUME NEW s \in Text, NEW t \in Text
    PROVE  /\ s \o t \in Text /\ Len(s \o t) = Len(s) + Len(t)
           /\ \A i \in 1..Len(s) : (s \o t)[i] = s[i]
           /\ \A i \in 1..Len(t) : (s \o t)[Len(s) + i] = t[i]
<1>1. /\ s \o t \in Text /\ Len(s \o t) = Len(s) + Len(t)
      /\ \A i \in 1..(Len(s) + Len(t)) :
            (s \o t)[i] = IF i <= Len(s) THEN s[i] ELSE t[i - Len(s)]
      /\ Len(s) \in Nat /\ Len(t) \in Nat
  BY ConcatProperties, TextFacts DEF Text
<1>2. ASSUME NEW i \in 1..Len(t) PROVE (s \o t)[Len(s) + i] = t[i]
  <2>1. PICK j \in 1..(Len(s) + Len(t)) : j = Len(s) + i /\ ~(j <= Len(s)) /\ j - Len(s) = i
    BY <1>1
  <2> QED
    BY <1>1, <2>1
<1> QED
  BY <1>1, <1>2

\* The empty text, and what it adds to another.
LEMMA EmptyText ==
    /\ <<>> \in Text
    /\ \A s \in Text : s \o <<>> = s /\ <<>> \o s = s /\ (Len(s) = 0 <=> s = <<>>)
  BY ConcatEmptySeq DEF Text

\* A text of one character.
LEMMA OneText ==
    ASSUME NEW ch \in Char
    PROVE  <<ch>> \in Text /\ Len(<<ch>>) = 1 /\ <<ch>>[1] = ch
  BY DEF Text

(* Erase and Take on the parts of a text.                                  *)
LEMMA EraseTyped ==
    ASSUME NEW s \in Text, NEW n \in Nat
    PROVE  /\ Erase(s, n) \in Text
           /\ n =< Len(s) => Len(Erase(s, n)) = Len(s) - n
           /\ n >= Len(s) => Erase(s, n) = <<>>
           /\ \A i \in 1..Len(Erase(s, n)) : n + i \in 1..Len(s) /\ Erase(s, n)[i] = s[n + i]
<1>1. Len(s) \in Nat /\ \A i \in (n + 1)..Len(s) : s[i] \in Char
  BY TextFacts
<1>2. /\ Erase(s, n) \in Seq(Char)
      /\ Len(Erase(s, n)) = IF n + 1 <= Len(s) THEN Len(s) - (n + 1) + 1 ELSE 0
      /\ \A i \in 1..(Len(s) - (n + 1) + 1) : Erase(s, n)[i] = s[n + 1 + i - 1]
  BY <1>1, SubSeqProperties DEF Erase
<1> QED
  BY <1>1, <1>2 DEF Text

\* Erase takes away the first of two texts.
LEMMA EraseConcat ==
    ASSUME NEW s \in Text, NEW t \in Text
    PROVE  Erase(s \o t, Len(s)) = t
<1> DEFINE u == Erase(s \o t, Len(s))
<1>1. Len(s) \in Nat /\ Len(t) \in Nat
  BY TextFacts
<1>2. s \o t \in Text /\ Len(s \o t) = Len(s) + Len(t)
  BY ConcatText
<1>3. u \in Text /\ Len(u) = Len(t)
  <2>1. Len(s) =< Len(s \o t) /\ Len(s \o t) - Len(s) = Len(t)
    BY <1>1, <1>2
  <2> QED
    BY <1>1, <1>2, <2>1, EraseTyped
<1>4. ASSUME NEW i \in 1..Len(u) PROVE u[i] = t[i]
  <2>1. u[i] = (s \o t)[Len(s) + i]
    BY <1>1, <1>2, EraseTyped
  <2> QED
    BY <2>1, <1>3, <1>4, ConcatText
<1> HIDE DEF u
<1> QED
  BY <1>3, <1>4, SeqEqual DEF Text, u

\* Erase of nothing keeps the text.
LEMMA EraseZero ==
    ASSUME NEW s \in Text
    PROVE  Erase(s, 0) = s
  BY SubSeqFull DEF Erase, Text

\* Take on a text.
LEMMA TakeTyped ==
    ASSUME NEW s \in Text, NEW n \in Nat
    PROVE  /\ Take(s, n) \in Text
           /\ Len(Take(s, n)) = IF n < Len(s) THEN n ELSE Len(s)
           /\ \A i \in 1..Len(Take(s, n)) : Take(s, n)[i] = s[i]
           /\ n >= Len(s) => Take(s, n) = s
<1>1. PICK m \in 0..Len(s) : m = IF n < Len(s) THEN n ELSE Len(s)
  BY TextFacts
<1>2. Take(s, n) = SubSeq(s, 1, m)
  BY <1>1 DEF Take
<1>3. Len(s) \in Nat /\ \A i \in 1..m : s[i] \in Char
  BY TextFacts
<1>4. /\ SubSeq(s, 1, m) \in Seq(Char)
      /\ Len(SubSeq(s, 1, m)) = IF 1 <= m THEN m - 1 + 1 ELSE 0
      /\ \A i \in 1..(m - 1 + 1) : SubSeq(s, 1, m)[i] = s[1 + i - 1]
  BY <1>3, SubSeqProperties
<1>5. n >= Len(s) => m = Len(s)
  BY <1>1, <1>3
<1>6. SubSeq(s, 1, Len(s)) = s
  BY SubSeqFull DEF Text
<1>7. /\ SubSeq(s, 1, m) \in Text /\ Len(SubSeq(s, 1, m)) = m
      /\ \A i \in 1..m : SubSeq(s, 1, m)[i] = s[i]
  BY <1>4 DEF Text
<1>8. n >= Len(s) => SubSeq(s, 1, m) = s
  BY <1>5, <1>6
<1> QED
  BY <1>1, <1>2, <1>7, <1>8

\* Take keeps the first of two texts.
LEMMA TakeConcat ==
    ASSUME NEW s \in Text, NEW t \in Text
    PROVE  Take(s \o t, Len(s)) = s
<1> DEFINE u == Take(s \o t, Len(s))
<1>1. Len(s) \in Nat /\ Len(t) \in Nat
  BY TextFacts
<1>2. s \o t \in Text /\ Len(s \o t) = Len(s) + Len(t)
  BY ConcatText
<1>3. u \in Text /\ Len(u) = Len(s)
  <2>1. Len(s) = IF Len(s) < Len(s \o t) THEN Len(s) ELSE Len(s \o t)
    BY <1>1, <1>2
  <2> QED
    BY <1>1, <1>2, <2>1, TakeTyped
<1>4. ASSUME NEW i \in 1..Len(u) PROVE u[i] = s[i]
  <2>1. u[i] = (s \o t)[i]
    BY <1>1, <1>2, TakeTyped
  <2> QED
    BY <2>1, <1>3, <1>4, ConcatText
<1> HIDE DEF u
<1> QED
  BY <1>3, <1>4, SeqEqual DEF Text, u

(* A text is cut in two: where the first ends, or in it.                   *)
LEMMA TakeErase ==
    ASSUME NEW s \in Text, NEW n \in 0..Len(s)
    PROVE  s = Take(s, n) \o Erase(s, n)
<1>1. Len(s) \in Nat /\ 1 \in 1..(Len(s) + 1) /\ n \in 0..Len(s) /\ Len(s) \in n..Len(s)
  BY TextFacts
<1>2. SubSeq(s, 1, n) \o SubSeq(s, n + 1, Len(s)) = SubSeq(s, 1, Len(s))
  <2>1. n \in (1 - 1)..Len(s)
    BY <1>1
  <2>2. s \in Seq(Char)
    BY DEF Text
  <2> QED
    BY <1>1, <2>1, <2>2, ConcatAdjacentSubSeq
<1>3. SubSeq(s, 1, Len(s)) = s
  BY SubSeqFull DEF Text
<1>4. Take(s, n) = SubSeq(s, 1, n)
  BY <1>1 DEF Take
<1> QED
  BY <1>2, <1>3, <1>4 DEF Erase

(* A text is cut behind its beginning s.                                   *)
LEMMA CutAfter ==
    ASSUME NEW a \in Text, NEW w \in Text, NEW s \in Text, NEW t \in Text,
           Same(a \o w, s \o t), Len(s) =< Len(a)
    PROVE  Same(a, s \o Erase(a, Len(s))) /\ Same(t, Erase(a, Len(s)) \o w)
<1> DEFINE u == Erase(a, Len(s))
           b == Take(a, Len(s))
<1>1. Len(s) \in Nat /\ Len(a) \in Nat /\ Len(s) \in 0..Len(a)
  BY TextFacts
<1>2. u \in Text
  BY <1>1, EraseTyped
<1>3. a = b \o u
  BY <1>1, TakeErase
<1>4. b \in Text /\ Len(b) = Len(s)
  BY <1>1, TakeTyped
<1>5. ASSUME NEW i \in 1..Len(s) PROVE b[i] = s[i]
  <2>1. i \in 1..Len(a) /\ i \in 1..Len(b)
    BY <1>1, <1>4
  <2>2. b[i] = a[i]
    BY <1>1, <2>1, TakeTyped
  <2>3. (a \o w)[i] = a[i] /\ (s \o t)[i] = s[i]
    BY <2>1, ConcatText
  <2>4. (a \o w)[i] = (s \o t)[i]
    BY Zenon DEF Same
  <2> QED
    BY <2>2, <2>3, <2>4, Zenon
<1> HIDE DEF u, b
<1>6. b = s
  BY <1>4, <1>5, SeqEqual DEF Text
<1>7. a = s \o u
  BY <1>3, <1>6
<1>8. s \o (u \o w) = a \o w
  <2>1. Same((s \o u) \o w, s \o (u \o w))
    BY <1>2, AssocSame, Zenon
  <2> QED
    BY <1>7, <2>1, Zenon DEF Same
<1>9. u \o w \in Text
  BY <1>2, ConcatText
<1>10. s \o (u \o w) = s \o t
  BY <1>8, Zenon DEF Same
<1>11. u \o w = t
  BY <1>9, <1>10, ConcatSimplifications DEF Text
<1> QED
  BY <1>7, <1>11, Zenon DEF u, Same

-----------------------------------------------------------------------------
(* What ends in a character.                                               *)

\* The parts of a text are texts.
LEMMA PartsTyped ==
    ASSUME NEW s \in Text, NEW ch
    PROVE  Before(s, ch) \in Text /\ After(s, ch) \in Text /\ SkipSpaces(s) \in Text
<1>1. Find(s, ch) \in 0..Len(s) /\ FindOther(s, {SP}) \in 0..Len(s) /\ Len(s) \in Nat
  BY FindFirst, FindOtherFirst, TextFacts
<1>2. After(s, ch) \in Text
  BY <1>1, EraseTyped DEF After
<1>3. Before(s, ch) \in Text
  <2>1. CASE Find(s, ch) = 0
    BY <2>1 DEF Before
  <2>2. CASE Find(s, ch) # 0
    <3>1. PICK n \in 0..Len(s) : n = Find(s, ch) - 1
      BY <1>1, <2>2
    <3>2. Before(s, ch) = SubSeq(s, 1, n)
      BY <2>2, <3>1 DEF Before
    <3>3. \A i \in 1..n : s[i] \in Char
      BY <1>1, TextFacts
    <3> QED
      BY <1>1, <3>2, <3>3, SubSeqProperties DEF Text
  <2> QED
    BY <2>1, <2>2
<1>4. SkipSpaces(s) \in Text
  <2>1. CASE FindOther(s, {SP}) = 0
    BY <2>1, EmptyText DEF SkipSpaces
  <2>2. CASE FindOther(s, {SP}) # 0
    <3>1. FindOther(s, {SP}) - 1 \in Nat
      BY <1>1, <2>2
    <3> QED
      BY <2>2, <3>1, EraseTyped DEF SkipSpaces
  <2> QED
    BY <2>1, <2>2
<1> QED
  BY <1>2, <1>3, <1>4

(* A text without the character is taken as a whole.                       *)
LEMMA NotFound ==
    ASSUME NEW s \in Text, NEW ch, Free(s, {ch})
    PROVE  Find(s, ch) = 0 /\ Before(s, ch) = s /\ After(s, ch) = s
<1>1. Find(s, ch) = 0
  <2>1. Find(s, ch) \in 0..Len(s) /\ (Find(s, ch) # 0 => s[Find(s, ch)] = ch)
    BY FindFirst
  <2>2. \A i \in 1..Len(s) : s[i] # ch
    BY TextFacts DEF Free
  <2> QED
    BY <2>1, <2>2, TextFacts
<1> QED
  BY <1>1, EraseZero DEF Before, After

\* A text is taken up to the first of a character, and after it.
LEMMA Found ==
    ASSUME NEW s \in Text, NEW ch \in Char, NEW t \in Text, Free(s, {ch})
    PROVE  /\ Find(s \o (<<ch>> \o t), ch) = Len(s) + 1
           /\ Before(s \o (<<ch>> \o t), ch) = s
           /\ After(s \o (<<ch>> \o t), ch) = t
<1> DEFINE x == s \o (<<ch>> \o t)
<1>0. Len(s) \in Nat /\ \A i \in 1..Len(s) : s[i] # ch
  BY TextFacts DEF Free
<1>1. <<ch>> \in Text /\ <<ch>> \o t \in Text /\ Len(<<ch>>) = 1 /\ <<ch>>[1] = ch
  BY OneText, ConcatText
<1>2. x \in Text /\ Len(x) = Len(s) + (1 + Len(t)) /\ Len(t) \in Nat
  BY <1>1, ConcatText, TextFacts
<1>3. \A i \in 1..Len(s) : x[i] = s[i]
  BY <1>1, ConcatText
<1>4. x[Len(s) + 1] = ch
  <2>1. 1 \in 1..Len(<<ch>> \o t) /\ 1 \in 1..Len(<<ch>>)
    BY <1>1, <1>2, ConcatText
  <2>2. x[Len(s) + 1] = (<<ch>> \o t)[1]
    BY <1>1, <2>1, ConcatText
  <2>3. (<<ch>> \o t)[1] = <<ch>>[1]
    BY <1>1, <2>1, ConcatText
  <2> QED
    BY <1>1, <2>2, <2>3
<1>5. /\ Find(x, ch) \in 0..Len(x)
      /\ Find(x, ch) = 0 => Free(x, {ch})
      /\ Find(x, ch) # 0 => x[Find(x, ch)] = ch /\ \A i \in 1..(Find(x, ch) - 1) : x[i] # ch
  BY <1>2, FindFirst
<1> HIDE DEF x
<1>6. Find(x, ch) = Len(s) + 1
  <2>1. Len(s) + 1 \in DOMAIN x
    BY <1>0, <1>2, TextFacts
  <2>2. Find(x, ch) # 0
    BY <1>4, <1>5, <2>1 DEF Free
  <2>3. ~(Find(x, ch) =< Len(s))
    BY <1>0, <1>3, <1>5, <2>2
  <2>4. ~(Find(x, ch) > Len(s) + 1)
    BY <1>0, <1>4, <1>5, <2>2
  <2> QED
    BY <1>0, <1>2, <1>5, <2>3, <2>4
<1>7. x = (s \o <<ch>>) \o t
  BY <1>1, Assoc DEF x
<1>8. s \o <<ch>> \in Text /\ Len(s \o <<ch>>) = Len(s) + 1
  BY <1>1, ConcatText
<1>9. After(x, ch) = t
  BY <1>6, <1>7, <1>8, EraseConcat DEF After
<1>10. Before(x, ch) = s
  <2>1. Find(x, ch) # 0 /\ Find(x, ch) - 1 = Len(s)
    BY <1>0, <1>6
  <2>2. Before(x, ch) = SubSeq(x, 1, Len(s))
    BY <2>1 DEF Before
  <2>3. Take(x, Len(s)) = SubSeq(x, 1, Len(s))
    BY <1>0, <1>2 DEF Take
  <2>4. Take(x, Len(s)) = s
    BY <1>1, TakeConcat DEF x
  <2> QED
    BY <2>2, <2>3, <2>4
<1> QED
  BY <1>6, <1>9, <1>10 DEF x

(* Spaces are skipped, and nothing else.                                   *)
Spaces(s) == \A i \in DOMAIN s : s[i] = SP

\* Spaces are skipped, and nothing else.
LEMMA Skipped ==
    ASSUME NEW s \in Text, NEW t \in Text, Spaces(s), t # <<>> => t[1] # SP
    PROVE  SkipSpaces(s \o t) = t
<1> DEFINE x == s \o t
           o == FindOther(x, {SP})
<1>1. Len(s) \in Nat /\ Len(t) \in Nat /\ \A i \in 1..Len(s) : s[i] = SP
  BY TextFacts DEF Spaces
<1>2. /\ x \in Text /\ Len(x) = Len(s) + Len(t)
      /\ \A i \in 1..Len(s) : x[i] = SP
  BY <1>1, ConcatText
<1>3. /\ o \in 0..Len(x)
      /\ o = 0 => \A i \in 1..Len(x) : x[i] \in {SP}
      /\ o # 0 => x[o] \notin {SP} /\ \A i \in 1..(o - 1) : x[i] \in {SP}
  BY <1>2, FindOtherFirst
<1>4. CASE t = <<>>
  <2>1. Len(x) = Len(s)
    BY <1>1, <1>2, <1>4, EmptyText
  <2> HIDE DEF x, o
  <2>2. o = 0
    BY <1>1, <1>2, <1>3, <2>1
  <2> QED
    BY <2>2, <1>4 DEF SkipSpaces, x, o
<1>5. CASE t # <<>>
  <2>1. Len(t) # 0 /\ 1 \in 1..Len(t)
    BY <1>1, <1>5, EmptyText
  <2>2. x[Len(s) + 1] = t[1] /\ t[1] # SP
    BY <1>5, <2>1, ConcatText
  <2> HIDE DEF x, o
  <2>3. o = Len(s) + 1
    <3>1. Len(s) + 1 \in 1..Len(x)
      BY <1>1, <1>2, <2>1
    <3>2. o # 0
      BY <1>3, <2>2, <3>1
    <3>3. ~(o =< Len(s))
      BY <1>1, <1>2, <1>3, <3>2
    <3>4. ~(o > Len(s) + 1)
      BY <1>1, <1>3, <2>2, <3>2
    <3> QED
      BY <1>1, <1>2, <1>3, <3>3, <3>4
  <2>4. o # 0 /\ o - 1 = Len(s)
    BY <1>1, <2>3
  <2>5. SkipSpaces(x) = Erase(x, Len(s))
    BY <2>4 DEF SkipSpaces, o
  <2> QED
    BY <2>5, EraseConcat DEF x
<1> QED
  BY <1>4, <1>5

(* What is left of a text that is cut.                                     *)
LEMMA CutFree ==
    ASSUME NEW a \in Text, NEW u \in Text, NEW S, Free(a \o u, S)
    PROVE  Free(a, S) /\ Free(u, S)
<1>1. /\ a \o u \in Text /\ Len(a \o u) = Len(a) + Len(u) /\ Len(a) \in Nat /\ Len(u) \in Nat
      /\ \A i \in 1..Len(a) : (a \o u)[i] = a[i]
      /\ \A i \in 1..Len(u) : (a \o u)[Len(a) + i] = u[i]
  BY ConcatText, TextFacts
<1> DEFINE x == a \o u
<1> HIDE DEF x
<1>2. \A i \in 1..Len(x) : x[i] \notin S
  BY <1>1, TextFacts DEF Free, x
<1>3. ASSUME NEW i \in 1..Len(a) PROVE a[i] \notin S
  <2>1. i \in 1..Len(x)
    BY <1>1 DEF x
  <2> QED
    BY <1>1, <1>2, <2>1 DEF x
<1>4. ASSUME NEW i \in 1..Len(u) PROVE u[i] \notin S
  <2>1. PICK j \in 1..Len(x) : j = Len(a) + i
    BY <1>1 DEF x
  <2> QED
    BY <1>1, <1>2, <2>1 DEF x
<1> QED
  BY <1>3, <1>4, TextFacts DEF Free

\* Two texts without a character together are without it.
LEMMA FreeConcat ==
    ASSUME NEW s \in Text, NEW t \in Text, NEW S, Free(s, S), Free(t, S)
    PROVE  Free(s \o t, S)
<1> DEFINE x == s \o t
<1>1. /\ x \in Text /\ Len(x) = Len(s) + Len(t) /\ Len(s) \in Nat /\ Len(t) \in Nat
      /\ \A i \in 1..Len(s) : x[i] = s[i]
      /\ \A i \in 1..Len(t) : x[Len(s) + i] = t[i]
  BY ConcatText, TextFacts
<1>2. /\ \A i \in 1..Len(s) : s[i] \notin S
      /\ \A i \in 1..Len(t) : t[i] \notin S
  BY TextFacts DEF Free
<1> HIDE DEF x
<1>3. ASSUME NEW i \in 1..Len(x) PROVE x[i] \notin S
  <2>1. CASE i =< Len(s)
    BY <2>1, <1>1, <1>2
  <2>2. CASE ~(i =< Len(s))
    <3>1. PICK j \in 1..Len(t) : i = Len(s) + j
      <4>1. i - Len(s) \in 1..Len(t) /\ i = Len(s) + (i - Len(s))
        BY <1>1, <2>2
      <4> QED
        BY <4>1
    <3> QED
      BY <3>1, <1>1, <1>2
  <2> QED
    BY <2>1, <2>2
<1> QED
  BY <1>1, <1>3, TextFacts DEF Free, x

\* A text is a prefix of itself and what follows.
LEMMA PrefixOf ==
    ASSUME NEW s \in Text, NEW u \in Text
    PROVE  IsPrefix(s, s \o u)
<1>1. Len(s) \in Nat /\ Len(u) \in Nat /\ s \o u \in Text /\ Len(s \o u) = Len(s) + Len(u)
  BY TextFacts, ConcatText
<1>2. Take(s \o u, Len(s)) = SubSeq(s \o u, 1, Len(s))
  BY <1>1 DEF Take
<1>3. Take(s \o u, Len(s)) = s /\ SubSeq(s, 1, Len(s)) = s
  BY TakeConcat, SubSeqFull DEF Text
<1> QED
  BY <1>1, <1>2, <1>3 DEF IsPrefix

(* Of a text that is cut, a part that ends in a character is read whole if *)
(* the character has come, and else to where the text is cut.              *)
LEMMA SplitCut ==
    ASSUME NEW a \in Text, NEW w \in Text, NEW s \in Text, NEW ch \in Char, NEW t \in Text,
           Free(s, {ch}), Same(a \o w, s \o (<<ch>> \o t))
    PROVE  \/ /\ Find(a, ch) = Len(s) + 1 /\ Before(a, ch) = s
              /\ Same(a, s \o (<<ch>> \o After(a, ch)))
              /\ Same(After(a, ch) \o w, t) /\ Len(w) =< Len(t)
           \/ /\ Free(a, {ch}) /\ Len(w) > Len(t)
              /\ \E u \in Text : Same(s, a \o u) /\ Same(w, u \o (<<ch>> \o t))
<1> DEFINE ct == <<ch>> \o t
           sc == s \o <<ch>>
<1>0. /\ <<ch>> \in Text /\ Len(<<ch>>) = 1 /\ ct \in Text /\ Len(ct) = 1 + Len(t)
      /\ Len(a) \in Nat /\ Len(w) \in Nat /\ Len(s) \in Nat /\ Len(t) \in Nat
  BY OneText, ConcatText, TextFacts
<1>1. sc \in Text /\ Len(sc) = Len(s) + 1
  BY <1>0, ConcatText
<1>2. Same(a \o w, sc \o t)
  <2>1. <<ch>> \in Text
    BY <1>0, Zenon
  <2>2. Same(sc \o t, s \o ct)
    BY <2>1, AssocSame, Zenon
  <2> QED
    BY <2>2, Zenon DEF Same
<1>3. Same(s \o ct, a \o w)
  BY Zenon DEF Same
<1>4. CASE Len(sc) =< Len(a)
  <2> DEFINE u == Erase(a, Len(sc))
  <2>1. u \in Text
    BY <1>0, <1>1, EraseTyped
  <2>2. Same(a, sc \o u) /\ Same(t, u \o w)
    <3> HIDE DEF sc
    <3> QED
      BY <1>1, <1>2, <1>4, CutAfter
  <2> HIDE DEF u
  <2>3. sc \o u = s \o (<<ch>> \o u)
    <3>1. <<ch>> \in Text
      BY <1>0, Zenon
    <3>2. Same(sc \o u, s \o (<<ch>> \o u))
      BY <2>1, <3>1, AssocSame, Zenon
    <3> QED
      BY <3>2, Zenon DEF Same
  <2>4. /\ Find(s \o (<<ch>> \o u), ch) = Len(s) + 1
        /\ Before(s \o (<<ch>> \o u), ch) = s
        /\ After(s \o (<<ch>> \o u), ch) = u
    BY <2>1, Found
  <2>5. a = s \o (<<ch>> \o u)
    BY <2>2, <2>3, Zenon DEF Same
  <2>6. Find(a, ch) = Len(s) + 1 /\ Before(a, ch) = s /\ After(a, ch) = u
    BY <2>4, <2>5, Zenon
  <2>7. Len(u \o w) = Len(u) + Len(w) /\ Len(u) \in Nat
    BY <2>1, ConcatText, TextFacts
  <2>8. t = u \o w
    BY <2>2 DEF Same
  <2>9. Len(w) =< Len(t)
    BY <2>7, <2>8, <1>0
  <2>10. Same(u \o w, t)
    BY <2>2, Zenon DEF Same
  <2>11. Same(a, s \o (<<ch>> \o u))
    BY <2>5, Zenon DEF Same
  <2> QED
    BY <2>6, <2>9, <2>10, <2>11, Zenon
<1>5. CASE Len(a) < Len(sc)
  <2> HIDE DEF ct, sc
  <2>1. Len(a) =< Len(s)
    BY <1>0, <1>1, <1>5
  <2>2. PICK u \in Text : Same(s, a \o u) /\ Same(w, u \o ct)
    <3>1. Erase(s, Len(a)) \in Text
      BY <1>0, EraseTyped
    <3> QED
      BY <2>1, <3>1, <1>0, <1>3, CutAfter
  <2>3. s = a \o u /\ w = u \o ct
    BY <2>2 DEF Same
  <2>4. Free(a \o u, {ch})
    BY <2>3, Zenon
  <2>5. Free(a, {ch})
    BY <2>4, CutFree
  <2>6. Len(w) > Len(t)
    <3>1. Len(u \o ct) = Len(u) + (1 + Len(t)) /\ Len(u) \in Nat
      <4>1. Len(u \o ct) = Len(u) + Len(ct) /\ Len(u) \in Nat
        BY <1>0, ConcatText, TextFacts
      <4>2. Len(ct) = 1 + Len(t)
        BY <1>0 DEF ct
      <4> QED
        BY <4>1, <4>2
    <3> QED
      BY <3>1, <2>3, <1>0
  <2> QED
    BY <2>2, <2>5, <2>6 DEF ct
<1> QED
  BY <1>0, <1>1, <1>4, <1>5

-----------------------------------------------------------------------------
(* Short texts.                                                            *)

\* A text of two characters.
LEMMA TwoText ==
    ASSUME NEW c \in Char, NEW d \in Char
    PROVE  /\ <<c, d>> = <<c>> \o <<d>> /\ <<c, d>> \in Text /\ Len(<<c, d>>) = 2
           /\ <<c>> \in Text /\ <<d>> \in Text
<1>1. <<c>> \in Text /\ <<d>> \in Text
  BY OneText
<1>2. <<c, d>> \in Text
  BY DEF Text
<1>3. <<c>> \o <<d>> = Append(<<c>>, d)
  BY <1>1, AppendIsConcat DEF Text
<1>5. Len(<<c, d>>) = 2 /\ <<c, d>>[1] = c /\ <<c, d>>[2] = d
  OBVIOUS
<1>4. Append(<<c>>, d) = <<c, d>>
  <2> DEFINE x == Append(<<c>>, d)
             y == <<c, d>>
  <2>1. <<c>> \in Seq(Char) /\ Len(<<c>>) = 1 /\ <<c>>[1] = c
    OBVIOUS
  <2>2. x \in Seq(Char) /\ Len(x) = 2 /\ x[1] = c /\ x[2] = d
    BY <2>1, AppendProperties
  <2>3. y \in Seq(Char) /\ Len(y) = 2 /\ y[1] = c /\ y[2] = d
    BY <1>2, <1>5 DEF Text
  <2> HIDE DEF x, y
  <2>4. \A i \in 1..2 : i = 1 \/ i = 2
    OBVIOUS
  <2>5. \A i \in 1..Len(x) : x[i] = y[i]
    BY <2>2, <2>3, <2>4
  <2>6. x = y
    BY <2>2, <2>3, <2>5, SeqEqual
  <2> QED
    BY <2>6 DEF x, y
<1> QED
  BY <1>1, <1>2, <1>3, <1>4, <1>5, Zenon

\* <<c, d>> \o t, one character after the other.
LEMMA TwoConcat ==
    ASSUME NEW c \in Char, NEW d \in Char, NEW t \in Text
    PROVE  <<c, d>> \o t = <<c>> \o (<<d>> \o t)
<1>1. <<c, d>> = <<c>> \o <<d>> /\ <<c>> \in Text /\ <<d>> \in Text
  BY TwoText
<1>2. (<<c>> \o <<d>>) \o t = <<c>> \o (<<d>> \o t)
  BY <1>1, Assoc
<1> QED
  BY <1>1, <1>2, Zenon

\* A character between two texts belongs to either.
LEMMA OneConcat ==
    ASSUME NEW s \in Text, NEW c \in Char, NEW t \in Text
    PROVE  (s \o <<c>>) \o t = s \o (<<c>> \o t)
<1>1. <<c>> \in Text
  BY OneText
<1> QED
  BY <1>1, Assoc

\* Two texts begin with the first, if it is not empty.
LEMMA FirstOf ==
    ASSUME NEW s \in Text, NEW t \in Text, s # <<>>
    PROVE  (s \o t)[1] = s[1] /\ s \o t # <<>>
<1>1. Len(s) \in Nat /\ Len(s) # 0 /\ Len(t) \in Nat
  BY TextFacts, EmptyText
<1>2. s \o t \in Text /\ Len(s \o t) = Len(s) + Len(t)
  BY ConcatText
<1>3. Len(s \o t) # 0
  BY <1>1, <1>2
<1>4. s \o t # <<>>
  BY <1>2, <1>3, EmptyText
<1>5. 1 \in 1..Len(s)
  BY <1>1
<1> QED
  BY <1>4, <1>5, ConcatText

(* The spaces of a text that is cut: what follows them is left, or nothing.*)
LEMMA SkipCut ==
    ASSUME NEW a \in Text, NEW w \in Text, NEW g \in Text, NEW t \in Text,
           Spaces(g), t # <<>>, t[1] # SP, Same(a \o w, g \o t)
    PROVE  \/ Same(SkipSpaces(a) \o w, t)
           \/ SkipSpaces(a) = <<>> /\ Len(w) > Len(t)
<1>0. Len(a) \in Nat /\ Len(g) \in Nat /\ Len(t) \in Nat
  BY TextFacts
<1>1. CASE Len(g) =< Len(a)
  <2> DEFINE u == Erase(a, Len(g))
  <2>1. u \in Text
    BY <1>0, EraseTyped
  <2>2. Same(a, g \o u) /\ Same(t, u \o w)
    BY <1>1, CutAfter
  <2> HIDE DEF u
  <2>3. u # <<>> => u[1] # SP
    <3>1. SUFFICES ASSUME u # <<>> PROVE u[1] # SP
      OBVIOUS
    <3>2. (u \o w)[1] = u[1]
      BY <2>1, <3>1, FirstOf
    <3>3. t = u \o w
      BY <2>2 DEF Same
    <3> QED
      BY <3>2, <3>3, Zenon
  <2>4. SkipSpaces(g \o u) = u
    BY <2>1, <2>3, Skipped
  <2>5. SkipSpaces(a) = u
    BY <2>2, <2>4, Zenon DEF Same
  <2>6. Same(u \o w, t)
    BY <2>2, Zenon DEF Same
  <2> QED
    BY <2>5, <2>6, Zenon
<1>2. CASE Len(a) < Len(g)
  <2> DEFINE u == Erase(g, Len(a))
  <2>1. u \in Text /\ Len(a) =< Len(g) /\ Len(u) = Len(g) - Len(a)
    BY <1>0, <1>2, EraseTyped
  <2>2. Same(g \o t, a \o w)
    BY Zenon DEF Same
  <2>3. Same(g, a \o u) /\ Same(w, u \o t)
    BY <2>1, <2>2, CutAfter
  <2> HIDE DEF u
  <2>4. Spaces(a)
    <3>1. Len(a) =< Len(g) /\ \A i \in 1..Len(a) : (a \o u)[i] = a[i]
      BY <2>1, ConcatText
    <3>2. g = a \o u
      BY <2>3 DEF Same
    <3>3. \A i \in 1..Len(a) : g[i] = a[i]
      BY <3>1, <3>2, Zenon
    <3>4. \A i \in 1..Len(a) : i \in DOMAIN g
      BY <3>1, <1>0, TextFacts
    <3> QED
      BY <3>3, <3>4, TextFacts DEF Spaces
  <2>5. SkipSpaces(a \o <<>>) = <<>>
    BY <2>4, EmptyText, Skipped
  <2>6. a \o <<>> = a
    BY EmptyText
  <2>7. Len(w) = Len(u) + Len(t)
    <3>1. Len(u \o t) = Len(u) + Len(t)
      BY <2>1, ConcatText
    <3>2. w = u \o t
      BY <2>3, Zenon DEF Same
    <3> QED
      BY <3>1, <3>2, Zenon
  <2>8. Len(w) > Len(t)
    BY <1>0, <1>2, <2>1, <2>7
  <2> QED
    BY <2>5, <2>6, <2>8, Zenon
<1> QED
  BY <1>0, <1>1, <1>2

-----------------------------------------------------------------------------
(* Many texts.                                                             *)

\* Kept folded as well: of many texts the provers try every three.
Texts(S) == S \subseteq Text

\* The parts of a request, grouped as the parser takes them apart.
LEMMA Regroup ==
    ASSUME NEW m, NEW g, NEW u, NEW v, NEW n, NEW f, NEW b, Texts({m, g, u, v, n, f, b})
    PROVE  Same(m \o g \o u \o g \o v \o n \o f \o n \o b,
                m \o (g \o (u \o (g \o (v \o (n \o (f \o n \o b)))))))
<1> DEFINE z == f \o n \o b
           p1 == m \o g
           p2 == p1 \o u
           p3 == p2 \o g
           p4 == p3 \o v
           p5 == p4 \o n
           z1 == n \o z
           z2 == v \o z1
           z3 == g \o z2
           z4 == u \o z3
<1>0. m \in Text /\ g \in Text /\ u \in Text /\ v \in Text /\ n \in Text /\ f \in Text
      /\ b \in Text
  BY DEF Texts
<1>g. g \in Text
  BY <1>0
<1>u. u \in Text
  BY <1>0
<1>v. v \in Text
  BY <1>0
<1>n. n \in Text
  BY <1>0
<1>f. f \in Text
  BY <1>0
<1>b. b \in Text
  BY <1>0
<1>1. p1 \in Text
  BY <1>0, ConcatText
<1> HIDE DEF p1
<1>2. p2 \in Text
  BY <1>1, <1>u, ConcatText
<1> HIDE DEF p2
<1>3. p3 \in Text
  BY <1>2, <1>g, ConcatText
<1> HIDE DEF p3
<1>4. p4 \in Text
  BY <1>3, <1>v, ConcatText
<1> HIDE DEF p4
<1>5. p5 \in Text /\ f \o n \in Text
  BY <1>4, <1>n, <1>f, ConcatText
<1> HIDE DEF p5
<1>6. z \in Text
  BY <1>5, <1>b, ConcatText
<1>7. ((p5 \o f) \o n) \o b = p5 \o z
  <2>1. Same((p5 \o f) \o n, p5 \o (f \o n))
    BY <1>5, <1>f, <1>n, AssocSame, Zenon
  <2>2. Same((p5 \o (f \o n)) \o b, p5 \o ((f \o n) \o b))
    BY <1>5, <1>b, AssocSame, Zenon
  <2> QED
    BY <2>1, <2>2, Zenon DEF Same
<1> HIDE DEF z
<1>8. z1 \in Text
  BY <1>6, <1>n, ConcatText
<1>9. (p4 \o n) \o z = p4 \o z1
  BY <1>4, <1>6, <1>n, Assoc
<1> HIDE DEF z1
<1>10. z2 \in Text
  BY <1>8, <1>v, ConcatText
<1>11. (p3 \o v) \o z1 = p3 \o z2
  BY <1>3, <1>8, <1>v, Assoc
<1> HIDE DEF z2
<1>12. z3 \in Text
  BY <1>10, <1>g, ConcatText
<1>13. (p2 \o g) \o z2 = p2 \o z3
  BY <1>2, <1>10, <1>g, Assoc
<1> HIDE DEF z3
<1>14. z4 \in Text
  BY <1>12, <1>u, ConcatText
<1>15. (p1 \o u) \o z3 = p1 \o z4
  BY <1>1, <1>12, <1>u, Assoc
<1> HIDE DEF z4
<1>16. (m \o g) \o z4 = m \o (g \o z4)
  <2>1. m \in Text
    BY <1>0
  <2> QED
    BY <1>14, <1>g, <2>1, Assoc
<1>17. ((p5 \o f) \o n) \o b = m \o (g \o z4)
  BY <1>7, <1>9, <1>11, <1>13, <1>15, <1>16, Zenon DEF p1, p2, p3, p4, p5
<1>18. m \o g \o u \o g \o v \o n \o f \o n \o b = m \o (g \o z4)
  BY <1>17, Zenon DEF p1, p2, p3, p4, p5
<1> QED
  BY <1>18, Zenon DEF Same, z4, z3, z2, z1, z

-----------------------------------------------------------------------------
(* The words of a start line that is cut.                                  *)

\* Something is left on the wire when it is longer than a text.
LEMMA WireLeft ==
    ASSUME NEW w \in Text, NEW t \in Text, Len(w) > Len(t)
    PROVE  w # <<>>
<1>1. Len(w) \in Nat /\ Len(t) \in Nat
  BY TextFacts
<1>2. Len(w) # 0
  BY <1>1
<1> QED
  BY <1>2, EmptyText

\* A text without these characters is without each of them.
LEMMA Free1 ==
    ASSUME NEW s, NEW S, NEW c \in S, Free(s, S)
    PROVE  Free(s, {c})
  BY DEF Free

\* A text without a character does not begin with it.
LEMMA FirstFree ==
    ASSUME NEW s \in Text, NEW S, s # <<>>, Free(s, S)
    PROVE  s[1] \notin S
<1>1. 1 \in DOMAIN s
  BY TextFacts, EmptyText
<1> QED
  BY <1>1 DEF Free

\* What does not begin with a space is kept.
LEMMA NothingSkipped ==
    ASSUME NEW s \in Text, s # <<>> => s[1] # SP
    PROVE  SkipSpaces(s) = s
<1>1. <<>> \in Text /\ <<>> \o s = s
  BY EmptyText
<1>2. Spaces(<<>>)
  BY DEF Spaces
<1>3. SkipSpaces(<<>> \o s) = s
  BY <1>1, <1>2, Skipped
<1> QED
  BY <1>1, <1>3, Zenon

(* The method of a text that is cut: the whole of it, or all that has      *)
(* come, of which also the version is made.                                *)
LEMMA MethodCut ==
    ASSUME NEW a \in Text, NEW w \in Text, NEW m \in Text, NEW t \in Text,
           Free(m, {SP, CR, LF}), a # <<>>, Same(a \o w, m \o (<<SP>> \o t))
    PROVE  \/ Before(a, SP) = m /\ Same(After(a, SP) \o w, t)
           \/ /\ w # <<>> /\ Before(a, SP) = a /\ After(a, SP) = a /\ SkipSpaces(a) = a
              /\ Before(a, CR) = a /\ a[1] # SP
<1>1. Free(m, {SP})
  BY Free1
<1>2. CASE Before(a, SP) = m /\ Same(After(a, SP) \o w, t)
  BY <1>2
<1>3. CASE /\ Free(a, {SP}) /\ Len(w) > Len(t)
           /\ \E u \in Text : Same(m, a \o u) /\ Same(w, u \o (<<SP>> \o t))
  <2>1. PICK u \in Text : Same(m, a \o u)
    BY <1>3
  <2>2. Free(a \o u, {SP, CR, LF})
    BY <2>1, Zenon DEF Same
  <2>3. Free(a, {SP, CR, LF})
    BY <2>2, CutFree
  <2>4. Free(a, {CR}) /\ Free(a, {SP})
    BY <2>3, Free1
  <2>5. a[1] # SP
    BY <2>4, FirstFree
  <2>6. SkipSpaces(a) = a
    BY <2>5, NothingSkipped
  <2>7. Before(a, CR) = a /\ Before(a, SP) = a /\ After(a, SP) = a
    BY <2>4, NotFound
  <2>8. w # <<>>
    BY <1>3, WireLeft
  <2> QED
    BY <2>5, <2>6, <2>7, <2>8
<1> QED
  BY <1>1, <1>2, <1>3, SplitCut, CharTyped

(* The URL of a text that is cut: the whole of it, or all that has come,   *)
(* of which also the version is made.                                      *)
LEMMA URLCut ==
    ASSUME NEW a \in Text, NEW w \in Text, NEW m \in Text, NEW t \in Text,
           Free(m, {SP}), Free(m, {CR}), m # <<>>, m[1] = "/",
           a # <<>>, Same(a \o w, m \o (<<SP>> \o t))
    PROVE  \/ Before(a, SP) = m /\ Same(After(a, SP) \o w, t)
           \/ /\ w # <<>> /\ Before(a, SP) = a /\ SkipSpaces(After(a, SP)) = a
              /\ Before(a, CR) = a /\ a[1] = "/"
<1>1. CASE Before(a, SP) = m /\ Same(After(a, SP) \o w, t)
  BY <1>1
<1>2. CASE /\ Free(a, {SP}) /\ Len(w) > Len(t)
           /\ \E u \in Text : Same(m, a \o u) /\ Same(w, u \o (<<SP>> \o t))
  <2>1. PICK u \in Text : Same(m, a \o u)
    BY <1>2
  <2>2. Free(a \o u, {CR})
    BY <2>1, Zenon DEF Same
  <2>3. Free(a, {CR}) /\ Free(a, {SP})
    BY <1>2, <2>2, CutFree
  <2>4. (a \o u)[1] = a[1]
    BY FirstOf
  <2>5. a[1] = "/"
    BY <2>1, <2>4, Zenon DEF Same
  <2>6. a[1] # SP
    BY <2>5 DEF SP
  <2>7. SkipSpaces(a) = a
    BY <2>6, NothingSkipped
  <2>8. Before(a, CR) = a /\ Before(a, SP) = a /\ After(a, SP) = a
    BY <2>3, NotFound
  <2>9. w # <<>>
    BY <1>2, WireLeft
  <2> QED
    BY <2>5, <2>7, <2>8, <2>9
<1> QED
  BY <1>1, <1>2, SplitCut, CharTyped

(* The version of a text that is cut: the whole of it; or what has come,   *)
(* which is not the version supported, or is left for the first header.    *)
LEMMA VersionCut ==
    ASSUME NEW a \in Text, NEW w \in Text, NEW m \in Text, NEW t \in Text,
           Free(m, {SP, CR, LF}), Same(a \o w, m \o (<<CR>> \o (<<LF>> \o t)))
    PROVE  \/ Before(a, CR) = m /\ Same(After(a, LF) \o w, t)
           \/ /\ w # <<>> /\ After(a, LF) = a
              /\ Before(a, CR) # HTTPVersion \/ a \in VersionOnly
<1> DEFINE lt == <<LF>> \o t
           mc == m \o <<CR>>
<1>1. /\ Free(m, {CR}) /\ Free(m, {LF}) /\ <<CR>> \in Text /\ <<LF>> \in Text
      /\ lt \in Text /\ CR \in Char /\ LF \in Char /\ Len(<<CR>>) = 1 /\ <<CR>>[1] = CR
  BY Free1, OneText, ConcatText, CharTyped
<1>2. mc \in Text /\ Len(mc) = Len(m) + 1
  BY <1>1, ConcatText
<1>3. Free(mc, {LF})
  <2>1. Free(<<CR>>, {LF})
    <3>1. \A i \in DOMAIN <<CR>> : i = 1
      BY <1>1, TextFacts
    <3>2. CR # LF
      BY DEF CR, LF
    <3> QED
      BY <1>1, <3>1, <3>2, Zenon DEF Free
  <2> QED
    BY <1>1, <2>1, FreeConcat
<1>4. Same(a \o w, mc \o (<<LF>> \o t))
  <2>1. <<CR>> \in Text /\ lt \in Text
    BY <1>1
  <2>2. Same(mc \o lt, m \o (<<CR>> \o lt))
    BY <2>1, AssocSame, Zenon
  <2> QED
    BY <2>2, Zenon DEF Same
<1>5. \/ Before(a, CR) = m /\ Same(a, m \o (<<CR>> \o After(a, CR)))
      \/ Free(a, {CR}) /\ \E u \in Text : Same(m, a \o u)
  <2> HIDE DEF lt, mc
  <2>1. Same(a \o w, m \o (<<CR>> \o lt))
    BY Zenon DEF lt
  <2> QED
    BY <1>1, <2>1, SplitCut
<1>6. \/ Same(After(a, LF) \o w, t) /\ Len(a) >= Len(m) + 2
      \/ Free(a, {LF}) /\ Len(w) > Len(t) /\ \E u \in Text : Same(mc, a \o u)
  <2> HIDE DEF lt, mc
  <2>0. mc \in Text /\ LF \in Char
    BY <1>1, <1>2
  <2>1. \/ Same(After(a, LF) \o w, t) /\ Find(a, LF) = Len(mc) + 1
        \/ Free(a, {LF}) /\ Len(w) > Len(t) /\ \E u \in Text : Same(mc, a \o u)
    BY <2>0, <1>3, <1>4, SplitCut
  <2>2. Find(a, LF) \in 0..Len(a) /\ Len(a) \in Nat /\ Len(m) \in Nat
    BY FindFirst, TextFacts
  <2> QED
    BY <1>2, <2>1, <2>2
<1>7. CASE Same(After(a, LF) \o w, t) /\ Len(a) >= Len(m) + 2
  <2>1. ~(Free(a, {CR}) /\ \E u \in Text : Same(m, a \o u))
    <3>1. SUFFICES ASSUME NEW u \in Text, Same(m, a \o u) PROVE FALSE
      OBVIOUS
    <3>2. Len(a \o u) = Len(a) + Len(u) /\ Len(a) \in Nat /\ Len(u) \in Nat /\ Len(m) \in Nat
      BY ConcatText, TextFacts
    <3>3. m = a \o u
      BY <3>1 DEF Same
    <3>4. Len(m) = Len(a) + Len(u)
      BY <3>2, <3>3, Zenon
    <3> QED
      BY <1>7, <3>2, <3>4
  <2> QED
    BY <1>5, <1>7, <2>1
<1>8. CASE Free(a, {LF}) /\ Len(w) > Len(t) /\ \E u \in Text : Same(mc, a \o u)
  <2>1. w # <<>> /\ After(a, LF) = a
    BY <1>8, WireLeft, NotFound
  <2>2. ASSUME Free(a, {CR}), Before(a, CR) = HTTPVersion PROVE a \in VersionOnly
    <3>1. Before(a, CR) = a
      BY <2>2, NotFound
    <3> QED
      BY <3>1, <2>2 DEF VersionOnly
  <2>3. ASSUME Before(a, CR) = m, Same(a, m \o (<<CR>> \o After(a, CR))), Before(a, CR) = HTTPVersion
        PROVE  a \in VersionOnly
    <3> DEFINE x == After(a, CR)
    <3>1. x \in Text
      BY PartsTyped
    <3> HIDE DEF x
    <3>2. m \o (<<CR>> \o x) = mc \o x
      BY <3>1, CharTyped, OneConcat
    <3>3. a = mc \o x
      BY <2>3, <3>2, Zenon DEF Same, x
    <3>4. PICK u \in Text : Same(mc, a \o u)
      BY <1>8
    <3>5. mc = a \o u
      BY <3>4 DEF Same
    <3> HIDE DEF mc
    <3>6. /\ Len(mc \o x) = Len(mc) + Len(x) /\ Len(a \o u) = Len(a) + Len(u)
          /\ Len(a) \in Nat /\ Len(u) \in Nat /\ Len(mc) \in Nat /\ Len(x) \in Nat
      BY <1>2, <3>1, ConcatText, TextFacts
    <3>7. Len(a) = Len(mc) + Len(x) /\ Len(mc) = Len(a) + Len(u)
      BY <3>3, <3>5, <3>6, Zenon
    <3>8. Len(x) = 0
      BY <3>6, <3>7
    <3>9. x = <<>>
      BY <3>1, <3>8, EmptyText
    <3>10. mc \o <<>> = mc
      BY <1>2, EmptyText
    <3>11. a = m \o <<CR>>
      BY <3>3, <3>9, <3>10, Zenon DEF mc
    <3>12. a = HTTPVersion \o <<CR>>
      BY <2>3, <3>11, Zenon
    <3> QED
      BY <3>12, Zenon DEF VersionOnly
  <2> QED
    BY <1>5, <2>1, <2>2, <2>3
<1> QED
  BY <1>6, <1>7, <1>8

-----------------------------------------------------------------------------
(* The target.                                                             *)

(* A text that has the character is what is before it, the character and   *)
(* what is after it.                                                       *)
LEMMA SplitFirst ==
    ASSUME NEW s \in Text, NEW ch, ~Free(s, {ch})
    PROVE  /\ ch \in Char /\ Find(s, ch) # 0
           /\ Before(s, ch) \in Text /\ Free(Before(s, ch), {ch}) /\ After(s, ch) \in Text
           /\ Same(s, Before(s, ch) \o (<<ch>> \o After(s, ch)))
           /\ Len(s) = Len(Before(s, ch)) + 1 + Len(After(s, ch))
<1> DEFINE f == Find(s, ch)
<1>1. /\ f \in 0..Len(s) /\ f # 0 /\ s[f] = ch /\ \A i \in 1..(f - 1) : s[i] # ch
      /\ Len(s) \in Nat /\ \A i \in 1..Len(s) : s[i] \in Char
  BY FindFirst, TextFacts
<1>2. Before(s, ch) = SubSeq(s, 1, f - 1) /\ After(s, ch) = SubSeq(s, f + 1, Len(s))
  BY <1>1 DEF Before, After, Erase
<1>3. Before(s, ch) \in Text /\ After(s, ch) \in Text
  BY PartsTyped
<1> HIDE DEF f
<1>4. ch \in Char
  BY <1>1
<1>5. SubSeq(s, 1, f - 1) \o SubSeq(s, f - 1 + 1, Len(s)) = SubSeq(s, 1, Len(s))
  <2>1. /\ s \in Seq(Char) /\ 1 \in 1..(Len(s) + 1) /\ f - 1 \in (1 - 1)..Len(s)
        /\ Len(s) \in (f - 1)..Len(s)
    BY <1>1 DEF Text
  <2> QED
    BY <2>1, ConcatAdjacentSubSeq
<1>6. SubSeq(s, f, Len(s)) = <<s[f]>> \o SubSeq(s, f + 1, Len(s))
  <2>1. s \in Seq(Char) /\ f \in 1..Len(s) /\ Len(s) \in f..Len(s)
    BY <1>1 DEF Text
  <2> QED
    BY <2>1, SubSeqRecursiveFirst
<1>7. SubSeq(s, 1, Len(s)) = s /\ f - 1 + 1 = f
  BY <1>1, SubSeqFull DEF Text
<1>8. s = Before(s, ch) \o (<<ch>> \o After(s, ch))
  BY <1>1, <1>2, <1>5, <1>6, <1>7, Zenon
<1>9. /\ Len(Before(s, ch)) = f - 1
      /\ \A i \in 1..(f - 1) : Before(s, ch)[i] = s[i]
  <2>1. \A i \in 1..(f - 1) : s[i] \in Char
    BY <1>1
  <2>2. /\ Len(SubSeq(s, 1, f - 1)) = IF 1 <= f - 1 THEN f - 1 - 1 + 1 ELSE 0
        /\ \A i \in 1..(f - 1 - 1 + 1) : SubSeq(s, 1, f - 1)[i] = s[1 + i - 1]
    BY <1>1, <2>1, SubSeqProperties
  <2> QED
    BY <1>1, <1>2, <2>2
<1>10. Len(After(s, ch)) = Len(s) - f
  <2>1. After(s, ch) = Erase(s, f)
    BY DEF After, f
  <2>2. f \in Nat /\ f =< Len(s)
    BY <1>1
  <2> QED
    BY <2>1, <2>2, EraseTyped
<1>11. Free(Before(s, ch), {ch})
  <2>1. \A i \in 1..Len(Before(s, ch)) : Before(s, ch)[i] # ch
    BY <1>1, <1>9
  <2> QED
    BY <1>3, <2>1, TextFacts DEF Free
<1>12. Len(s) = Len(Before(s, ch)) + 1 + Len(After(s, ch))
  BY <1>1, <1>9, <1>10
<1>13. Same(s, Before(s, ch) \o (<<ch>> \o After(s, ch)))
  BY <1>8, Zenon DEF Same
<1> QED
  BY <1>1, <1>3, <1>4, <1>11, <1>12, <1>13 DEF f

\* The last two of three texts are one, z.
LEMMA MiddleMoved ==
    ASSUME NEW n, NEW x, NEW i, NEW z, Texts({n, x, i, z}), Same(x \o i, z)
    PROVE  Same((n \o x) \o i, n \o z)
<1>1. n \in Text /\ x \in Text /\ i \in Text
  BY DEF Texts
<1>2. Same((n \o x) \o i, n \o (x \o i))
  BY <1>1, AssocSame, Zenon
<1> QED
  BY <1>2, Zenon DEF Same

(* Concatenation is associative, of texts that are given as a set.         *)
LEMMA Moved ==
    ASSUME NEW s, NEW t, NEW u, Texts({s, t, u})
    PROVE  Same((s \o t) \o u, s \o (t \o u))
<1>1. s \in Text /\ t \in Text /\ u \in Text
  BY DEF Texts
<1> QED
  BY <1>1, AssocSame, Zenon

\* The same for a character before two texts.
LEMMA OneMoved ==
    ASSUME NEW c \in Char, NEW s \in Text, NEW t \in Text
    PROVE  Same((<<c>> \o s) \o t, <<c>> \o (s \o t))
<1>1. <<c>> \in Text
  BY OneText
<1> DEFINE x == <<c>>
<1> HIDE DEF x
<1>2. x \in Text
  BY <1>1 DEF x
<1>3. (x \o s) \o t = x \o (s \o t)
  BY <1>2, Assoc
<1> QED
  BY <1>3, Zenon DEF Same, x

(* A file of a path: d leads to it, and i follows it.                      *)
FileFound(p, d, n, i) ==
    LET file == SubSeq(p, 1, FileEnd(p))
    IN  /\ Find(p, ".") # 0
        /\ SubSeq(file, 1, FindLast(file, "/")) = d /\ Erase(file, FindLast(file, "/")) = n
        /\ Erase(p, FileEnd(p)) = i

(* parseFilenamesAndCGI takes a path with a file apart into the directory, *)
(* the name and what follows.                                              *)
LEMMA FileRead ==
    ASSUME NEW d \in Text, NEW n \in Text, NEW i \in Text,
           d # <<>>, Last(d) = "/", Free(d, {"."}), ~Free(n, {"."}), Free(n, {"/"}),
           i # <<>> => i[1] = "/",
           NEW p, Same(p, d \o (n \o i))
    PROVE  FileFound(p, d, n, i)
<1> DEFINE n1 == Before(n, ".")
           n2 == After(n, ".")
           dn == d \o n
<1>1. /\ "." \in Char /\ n1 \in Text /\ n2 \in Text /\ Free(n1, {"."})
      /\ Same(n, n1 \o (<<".">> \o n2)) /\ Len(n) = Len(n1) + 1 + Len(n2)
  BY SplitFirst
<1>2. /\ Len(d) \in Nat /\ Len(n) \in Nat /\ Len(i) \in Nat /\ Len(n1) \in Nat /\ Len(n2) \in Nat
      /\ Len(d) # 0
  BY <1>1, TextFacts, EmptyText
<1> HIDE DEF n1, n2
<1>3. dn \in Text /\ Len(dn) = Len(d) + Len(n) /\ p = dn \o i
  <2>1. (d \o n) \o i = d \o (n \o i)
    BY Assoc
  <2> QED
    BY <2>1, ConcatText, Zenon DEF Same
<1> HIDE DEF dn
<1>4. /\ Find(p, ".") = Len(d) + Len(n1) + 1 /\ After(p, ".") = n2 \o i
  <2> DEFINE x == <<".">> \o n2
             y == <<".">> \o (n2 \o i)
             dn1 == d \o n1
  <2>1. x \in Text /\ n2 \o i \in Text /\ <<".">> \in Text
    BY <1>1, OneText, ConcatText
  <2>2. y \in Text
    BY <2>1, ConcatText
  <2>3. Same(x \o i, y)
    BY <1>1, OneMoved
  <2>4. dn1 \in Text /\ Len(dn1) = Len(d) + Len(n1) /\ Free(dn1, {"."})
    BY <1>1, ConcatText, FreeConcat
  <2>5. n = n1 \o x
    BY <1>1, Zenon DEF Same
  <2> HIDE DEF x, y
  <2>6. Same((n1 \o x) \o i, n1 \o y)
    <3>1. Texts({n1, x, i, y})
      BY <1>1, <2>1, <2>2 DEF Texts
    <3> QED
      BY <2>3, <3>1, MiddleMoved
  <2>7. Same(dn1 \o y, d \o (n1 \o y))
    <3>1. Texts({d, n1, y})
      BY <1>1, <2>2 DEF Texts
    <3> QED
      BY <3>1, Moved
  <2>8. p = dn1 \o y
    BY <2>5, <2>6, <2>7, Zenon DEF Same
  <2> HIDE DEF dn1
  <2>9. p = dn1 \o (<<".">> \o (n2 \o i))
    BY <2>8, Zenon DEF y
  <2> DEFINE z == n2 \o i
  <2>10. z \in Text
    BY <2>1
  <2> HIDE DEF z
  <2>11. /\ Find(dn1 \o (<<".">> \o z), ".") = Len(dn1) + 1
         /\ After(dn1 \o (<<".">> \o z), ".") = z
    BY <1>1, <2>4, <2>10, Found
  <2>12. p = dn1 \o (<<".">> \o z)
    BY <2>9, Zenon DEF z
  <2>13. Find(p, ".") = Len(dn1) + 1 /\ After(p, ".") = z
    BY <2>11, <2>12, Zenon
  <2> QED
    BY <1>2, <2>4, <2>13 DEF z
<1>5. Free(n2, {"/"})
  <2> DEFINE x == <<".">> \o n2
  <2>1. x \in Text /\ <<".">> \in Text
    BY <1>1, OneText, ConcatText
  <2>2. n = n1 \o x
    BY <1>1, Zenon DEF Same
  <2> HIDE DEF x
  <2>3. Free(n1 \o x, {"/"})
    BY <2>2, Zenon
  <2>4. Free(x, {"/"})
    BY <1>1, <2>1, <2>3, CutFree
  <2>5. Free(<<".">> \o n2, {"/"})
    BY <2>4 DEF x
  <2> QED
    BY <1>1, <2>1, <2>5, CutFree
<1>6. FileEnd(p) = Len(dn)
  <2>1. CASE i = <<>>
    <3>1. n2 \o i = n2 /\ dn \o i = dn
      BY <1>1, <1>3, <2>1, EmptyText
    <3>2. Find(n2, "/") = 0
      BY <1>1, <1>5, NotFound
    <3>3. Find(After(p, "."), "/") = 0
      BY <1>4, <3>1, <3>2, Zenon
    <3>4. p = dn
      BY <1>3, <3>1, Zenon
    <3> QED
      BY <3>3, <3>4 DEF FileEnd
  <2>2. CASE i # <<>>
    <3>1. i[1] = "/"
      BY <2>2
    <3>2. "/" \in Char /\ Len(i) # 0
      BY <1>2, <2>2, CharTyped, EmptyText
    <3>3. PICK j \in Text : i = <<"/">> \o j
      <4>1. SubSeq(i, 1, Len(i)) = <<i[1]>> \o SubSeq(i, 1 + 1, Len(i))
        <5>1. i \in Seq(Char) /\ 1 \in 1..Len(i) /\ Len(i) \in 1..Len(i)
          BY <1>2, <3>2 DEF Text
        <5> QED
          BY <5>1, SubSeqRecursiveFirst
      <4>2. SubSeq(i, 1, Len(i)) = i
        BY SubSeqFull DEF Text
      <4>3. Erase(i, 1) \in Text /\ Erase(i, 1) = SubSeq(i, 1 + 1, Len(i))
        BY EraseTyped DEF Erase
      <4>4. i = <<"/">> \o Erase(i, 1)
        BY <3>1, <4>1, <4>2, <4>3, Zenon
      <4> QED
        BY <4>3, <4>4, Zenon
    <3>4. Find(n2 \o (<<"/">> \o j), "/") = Len(n2) + 1
      BY <1>1, <1>5, <3>2, Found
    <3>5. Find(After(p, "."), "/") = Len(n2) + 1
      BY <1>4, <3>3, <3>4, Zenon
    <3>6. Len(n2) + 1 # 0 /\ Len(d) + Len(n1) + 1 + (Len(n2) + 1) - 1 = Len(dn)
      BY <1>1, <1>2, <1>3
    <3> QED
      BY <1>4, <3>5, <3>6 DEF FileEnd
  <2> QED
    BY <2>1, <2>2
<1>7. SubSeq(p, 1, FileEnd(p)) = dn /\ Erase(p, FileEnd(p)) = i
  <2>1. Take(dn \o i, Len(dn)) = dn /\ Erase(dn \o i, Len(dn)) = i
    BY <1>3, TakeConcat, EraseConcat
  <2>2. Len(dn \o i) = Len(dn) + Len(i)
    BY <1>3, ConcatText
  <2>3. Take(dn \o i, Len(dn)) = SubSeq(dn \o i, 1, Len(dn))
    <3> DEFINE short == Len(dn)
               long == Len(dn \o i)
    <3>1. (IF short < long THEN short ELSE long) = short
      <4>1. short \in Nat /\ Len(i) \in Nat /\ long = short + Len(i)
        BY <1>2, <1>3, <2>2
      <4> HIDE DEF short, long
      <4> QED
        BY <4>1
    <3> QED
      BY <3>1, Zenon DEF Take
  <2> QED
    BY <1>3, <1>6, <2>1, <2>3, Zenon
<1>8. FindLast(dn, "/") = Len(d)
  <2> DEFINE l == FindLast(dn, "/")
  <2>1. /\ l \in 0..Len(dn)
        /\ l = 0 => Free(dn, {"/"})
        /\ l # 0 => dn[l] = "/" /\ \A k \in (l + 1)..Len(dn) : dn[k] # "/"
    BY <1>3, FindLastLast
  <2>2. /\ \A k \in 1..Len(d) : dn[k] = d[k]
        /\ \A k \in 1..Len(n) : dn[Len(d) + k] = n[k]
    BY ConcatText DEF dn
  <2>3. Len(d) \in 1..Len(d) /\ Len(d) \in DOMAIN dn
    BY <1>2, <1>3, TextFacts
  <2>4. dn[Len(d)] = "/"
    BY <2>2, <2>3 DEF Last
  <2> HIDE DEF l
  <2>5. l # 0
    BY <2>1, <2>3, <2>4 DEF Free
  <2>6. ~(l < Len(d))
    BY <1>2, <1>3, <2>1, <2>4, <2>5
  <2>7. ASSUME l > Len(d) PROVE FALSE
    <3>1. PICK k \in 1..Len(n) : l = Len(d) + k
      <4>1. l - Len(d) \in 1..Len(n) /\ l = Len(d) + (l - Len(d))
        BY <1>2, <1>3, <2>1, <2>7
      <4> QED
        BY <4>1
    <3>2. dn[l] = n[k] /\ n[k] # "/"
      BY <2>2, <3>1, TextFacts DEF Free
    <3> QED
      BY <2>1, <2>5, <3>2
  <2>8. l = Len(d)
    BY <1>2, <1>3, <2>1, <2>6, <2>7
  <2> QED
    BY <2>8 DEF l
<1>9. SubSeq(dn, 1, Len(d)) = d /\ Erase(dn, Len(d)) = n
  <2>1. Take(d \o n, Len(d)) = d /\ Erase(d \o n, Len(d)) = n
    BY TakeConcat, EraseConcat
  <2>2. Take(dn, Len(d)) = SubSeq(dn, 1, Len(d))
    BY <1>2, <1>3 DEF Take
  <2> QED
    BY <2>1, <2>2, Zenon DEF dn
<1>10. Find(p, ".") # 0
  BY <1>2, <1>4
<1> QED
  BY <1>7, <1>8, <1>9, <1>10, Zenon DEF FileFound

\* A path without the slash at its end, which getMatchingRoute compares.
Unslashed(t) == IF Len(t) > 1 /\ Last(t) = "/" THEN Front(t) ELSE t

\* A text without its last character.
LEMMA FrontFacts ==
    ASSUME NEW s \in Text, s # <<>>
    PROVE  /\ Front(s) \in Text /\ Len(Front(s)) = Len(s) - 1
           /\ \A k \in 1..(Len(s) - 1) : Front(s)[k] = s[k]
           /\ \A S : Free(s, S) => Free(Front(s), S)
<1>1. Len(s) \in Nat /\ Len(s) # 0
  BY TextFacts, EmptyText
<1>2. Front(s) = Take(s, Len(s) - 1) /\ Len(s) - 1 \in Nat /\ Len(s) - 1 < Len(s)
  BY <1>1 DEF Front, Take
<1>3. Front(s) \in Text /\ Len(Front(s)) = Len(s) - 1
      /\ \A k \in 1..(Len(s) - 1) : Front(s)[k] = s[k]
  BY <1>2, TakeTyped
<1>4. ASSUME NEW S, Free(s, S) PROVE Free(Front(s), S)
  <2>1. \A k \in DOMAIN Front(s) : k \in 1..(Len(s) - 1) /\ k \in DOMAIN s
    BY <1>1, <1>3, TextFacts
  <2> QED
    BY <1>3, <1>4, <2>1 DEF Free
<1> QED
  BY <1>3, <1>4

(* What is read from the target, which is not empty: the query, and the    *)
(* directory, file and path behind it of the path, unless it has two dots. *)
PathOf(url) == IF Before(Trimmed(url), "?") = <<>> THEN DefaultTarget
               ELSE Before(Trimmed(url), "?")

(* A path without a file leads to the directory, with or without a slash   *)
(* at its end.                                                             *)
LEMMA DirRead ==
    ASSUME NEW d \in Text, d # <<>>, d[1] = "/", Free(d, {"."}),
           Len(d) > 1 /\ Last(d) = "/" => d[Len(d) - 1] # "/",
           NEW p \in Text,
           \/ p = d
           \/ Last(d) = "/" /\ p = IF Front(d) = <<>> THEN DefaultTarget ELSE Front(d)
    PROVE  Find(p, ".") = 0 /\ Unslashed(p) = Unslashed(d)
<1>1. Len(d) \in Nat /\ Len(d) # 0
  BY TextFacts, EmptyText
<1>2. CASE p = d
  BY <1>2, NotFound
<1>3. CASE Last(d) = "/" /\ p = IF Front(d) = <<>> THEN DefaultTarget ELSE Front(d)
  <2>1. /\ Front(d) \in Text /\ Len(Front(d)) = Len(d) - 1 /\ Free(Front(d), {"."})
        /\ \A k \in 1..(Len(d) - 1) : Front(d)[k] = d[k]
    BY FrontFacts
  <2>2. CASE Len(d) = 1
    <3>1. Front(d) = <<>>
      BY <2>1, <2>2, EmptyText
    <3>2. DefaultTarget = <<"/">> /\ DefaultTarget \in Text /\ Len(DefaultTarget) = 1
          /\ DefaultTarget[1] = "/"
      BY CharTyped, OneText DEF DefaultTarget
    <3>3. d = DefaultTarget
      <4>1. \A k \in 1..Len(d) : k = 1
        BY <2>2
      <4>2. \A k \in 1..Len(d) : d[k] = DefaultTarget[k]
        BY <3>2, <4>1
      <4> QED
        BY <2>2, <3>2, <4>2, SeqEqual DEF Text
    <3>4. p = d
      BY <1>3, <3>1, <3>3
    <3> QED
      BY <3>4, NotFound
  <2>3. CASE Len(d) # 1
    <3>1. Len(d) > 1 /\ Len(Front(d)) # 0
      BY <1>1, <2>1, <2>3
    <3>2. p = Front(d) /\ Unslashed(d) = Front(d)
      BY <1>3, <2>1, <3>1, EmptyText DEF Unslashed
    <3>3. Last(Front(d)) # "/"
      <4>1. Len(d) - 1 \in 1..(Len(d) - 1)
        BY <1>1, <3>1
      <4>2. Front(d)[Len(d) - 1] = d[Len(d) - 1] /\ d[Len(d) - 1] # "/"
        BY <1>3, <2>1, <3>1, <4>1
      <4> QED
        BY <2>1, <4>2 DEF Last
    <3>4. Find(Front(d), ".") = 0
      BY <2>1, NotFound
    <3> QED
      BY <3>2, <3>3, <3>4 DEF Unslashed
  <2> QED
    BY <2>2, <2>3
<1> QED
  BY <1>2, <1>3

\* The query that is read from the target.
Query(url) == IF Before(Trimmed(url), "?") = Trimmed(url) THEN <<>> ELSE After(Trimmed(url), "?")

\* Of two texts that are nothing together each is nothing.
LEMMA NotBoth ==
    ASSUME NEW s \in Text, NEW t \in Text, s \o t = <<>>
    PROVE  s = <<>> /\ t = <<>>
<1>1. Len(s \o t) = Len(s) + Len(t) /\ Len(s) \in Nat /\ Len(t) \in Nat /\ s \o t \in Text
  BY ConcatText, TextFacts
<1>2. Len(s \o t) = 0
  BY <1>1, EmptyText
<1> QED
  BY <1>1, <1>2, EmptyText

(* A query and what the path is, of a target that is not trimmed.          *)
LEMMA QueryRead ==
    ASSUME NEW b \in Text, NEW q \in Text, NEW u, b # <<>>, Free(b, {"?"}),
           u = b \o (IF q = <<>> THEN <<>> ELSE <<"?">> \o q), Last(u) # "/"
    PROVE  Query(u) = q /\ PathOf(u) = b
<1>1. Trimmed(u) = u
  BY DEF Trimmed
<1>2. CASE q = <<>>
  <2>1. u = b
    BY <1>2, EmptyText
  <2>2. Before(b, "?") = b
    BY NotFound
  <2> QED
    BY <1>1, <1>2, <2>1, <2>2 DEF Query, PathOf
<1>3. CASE q # <<>>
  <2>1. u = b \o (<<"?">> \o q)
    BY <1>3, Zenon
  <2>2. "?" \in Char
    BY CharTyped
  <2>3. Before(b \o (<<"?">> \o q), "?") = b /\ After(b \o (<<"?">> \o q), "?") = q
    BY <2>2, Found
  <2>4. Before(u, "?") = b /\ After(u, "?") = q
    BY <2>1, <2>3, Zenon
  <2>5. b # u
    <3>1. <<"?">> \in Text /\ Len(<<"?">>) = 1
      BY <2>2, OneText
    <3> DEFINE x == <<"?">> \o q
    <3>2. x \in Text /\ Len(x) = 1 + Len(q) /\ Len(q) \in Nat /\ Len(b) \in Nat
      BY <3>1, ConcatText, TextFacts
    <3> HIDE DEF x
    <3>3. Len(b \o x) = Len(b) + Len(x)
      BY <3>2, ConcatText
    <3>4. Len(u) = Len(b) + Len(x)
      BY <2>1, <3>3, Zenon DEF x
    <3> QED
      BY <3>2, <3>4
  <2> QED
    BY <1>1, <2>4, <2>5, Zenon DEF Query, PathOf
<1> QED
  BY <1>2, <1>3

(* The types of the operators the parser is built from.                    *)
LEMMA PathTyped ==
    ASSUME NEW t \in Text
    PROVE  /\ Find(t, ".") # 0 => FileEnd(t) \in 0..Len(t)
           /\ Find(t, ".") # 0 => \A dir : dir = FindLast(SubSeq(t, 1, FileEnd(t)), "/") =>
                /\ SubSeq(t, 1, FileEnd(t)) \in Text
                /\ SubSeq(SubSeq(t, 1, FileEnd(t)), 1, dir) \in Text
                /\ Erase(SubSeq(t, 1, FileEnd(t)), dir) \in Text
                /\ Erase(t, FileEnd(t)) \in Text
<1>1. SUFFICES ASSUME Find(t, ".") # 0,
                      NEW dir, dir = FindLast(SubSeq(t, 1, FileEnd(t)), "/")
               PROVE  /\ FileEnd(t) \in 0..Len(t) /\ SubSeq(t, 1, FileEnd(t)) \in Text
                      /\ SubSeq(SubSeq(t, 1, FileEnd(t)), 1, dir) \in Text
                      /\ Erase(SubSeq(t, 1, FileEnd(t)), dir) \in Text
                      /\ Erase(t, FileEnd(t)) \in Text
  OBVIOUS
<1>2. /\ After(t, ".") \in Text /\ Len(After(t, ".")) = Len(t) - Find(t, ".")
      /\ Find(t, ".") \in 0..Len(t) /\ Len(t) \in Nat
  <2>1. Find(t, ".") \in 0..Len(t) /\ Len(t) \in Nat
    BY FindFirst, TextFacts
  <2> QED
    BY <2>1, EraseTyped DEF After
<1>3. Find(After(t, "."), "/") \in 0..Len(After(t, "."))
  BY <1>2, FindFirst
<1>4. FileEnd(t) \in 0..Len(t)
  BY <1>1, <1>2, <1>3 DEF FileEnd
<1>5. \A s \in Text : \A n \in 0..Len(s) : SubSeq(s, 1, n) \in Text
  <2>1. SUFFICES ASSUME NEW s \in Text, NEW n \in 0..Len(s) PROVE SubSeq(s, 1, n) \in Text
    OBVIOUS
  <2>2. Len(s) \in Nat /\ n \in Nat
    BY TextFacts
  <2>3. SubSeq(s, 1, n) = Take(s, n)
    BY <2>2 DEF Take
  <2> QED
    BY <2>2, <2>3, TakeTyped
<1>6. SubSeq(t, 1, FileEnd(t)) \in Text
  BY <1>4, <1>5
<1>7. dir \in 0..Len(SubSeq(t, 1, FileEnd(t)))
  BY <1>1, <1>6, FindLastLast
<1>8. SubSeq(SubSeq(t, 1, FileEnd(t)), 1, dir) \in Text
  BY <1>5, <1>6, <1>7
<1>9. dir \in Nat /\ FileEnd(t) \in Nat
  BY <1>4, <1>6, <1>7, TextFacts
<1> QED
  BY <1>4, <1>6, <1>8, <1>9, EraseTyped

\* A URL without its slash is a text.
LEMMA TrimmedTyped ==
    ASSUME NEW u \in Text, u # <<>>
    PROVE  Trimmed(u) \in Text
BY FrontFacts DEF Trimmed

\* A size is a number, whatever the line.
LEMMA Sizes ==
    ASSUME NEW s \in Text, NEW old \in Nat
    PROVE  ReadSize(s, old) \in Nat
<1>1. Before(s, CR) \in Text
  BY PartsTyped
<1> QED
  BY <1>1, HexTyped DEF ReadSize

-----------------------------------------------------------------------------
(* Lines that are cut.                                                     *)

\* What is erased in two steps.
LEMMA EraseErase ==
    ASSUME NEW s \in Text, NEW m \in Nat, NEW n \in Nat, m =< Len(s)
    PROVE  Erase(Erase(s, m), n) = Erase(s, m + n)
<1> DEFINE x == Erase(s, m)
           y == Erase(s, m + n)
           z == Erase(x, n)
<1>1. /\ x \in Text /\ Len(x) = Len(s) - m /\ Len(s) \in Nat /\ m + n \in Nat
      /\ \A i \in 1..Len(x) : x[i] = s[m + i]
  BY EraseTyped, TextFacts
<1>2. /\ y \in Text /\ Len(y) \in Nat
      /\ m + n =< Len(s) => Len(y) = Len(s) - (m + n)
      /\ m + n >= Len(s) => y = <<>>
      /\ \A i \in 1..Len(y) : m + n + i \in 1..Len(s) /\ y[i] = s[m + n + i]
  BY <1>1, EraseTyped, TextFacts
<1> HIDE DEF x, y
<1>3. /\ z \in Text /\ Len(z) \in Nat
      /\ n =< Len(x) => Len(z) = Len(x) - n
      /\ n >= Len(x) => z = <<>>
      /\ \A i \in 1..Len(z) : n + i \in 1..Len(x) /\ z[i] = x[n + i]
  BY <1>1, EraseTyped, TextFacts
<1> HIDE DEF z
<1>4. CASE m + n >= Len(s)
  BY <1>1, <1>2, <1>3, <1>4 DEF x, y, z
<1>5. CASE m + n < Len(s)
  <2>1. Len(z) = Len(y)
    BY <1>1, <1>2, <1>3, <1>5
  <2>2. ASSUME NEW i \in 1..Len(y) PROVE z[i] = y[i]
    <3>1. i \in 1..Len(z) /\ n + i \in 1..Len(x) /\ z[i] = x[n + i]
      BY <1>3, <2>1, <2>2
    <3>2. x[n + i] = s[m + (n + i)] /\ y[i] = s[m + n + i]
      BY <1>1, <1>2, <2>2, <3>1
    <3>3. m + (n + i) = m + n + i
      BY <2>2
    <3> QED
      BY <3>1, <3>2, <3>3
  <2>3. z = y
    BY <1>2, <1>3, <2>1, <2>2, SeqEqual DEF Text
  <2> QED
    BY <2>3 DEF x, y, z
<1> QED
  BY <1>1, <1>4, <1>5

(* A line that is cut stays so, and its last character may be its CR.      *)
LEMMA LineCutFacts ==
    ASSUME NEW s \in Text, LineCut(s)
    PROVE  /\ After(s, LF) = s /\ Free(s, {LF})
           /\ \A n \in Nat : LineCut(Erase(s, n))
           /\ s # <<>> /\ s[1] = CR => Len(s) = 1
<1>1. Free(s, {LF}) /\ Len(s) \in Nat
  BY TextFacts DEF LineCut, Free
<1>2. ASSUME NEW n \in Nat PROVE LineCut(Erase(s, n))
  <2> DEFINE x == Erase(s, n)
  <2>1. /\ x \in Text /\ \A i \in 1..Len(x) : n + i \in 1..Len(s) /\ x[i] = s[n + i]
        /\ n =< Len(s) => Len(x) = Len(s) - n
        /\ n >= Len(s) => x = <<>>
    BY EraseTyped
  <2>2. DOMAIN x = 1..Len(x) /\ Len(x) \in Nat /\ DOMAIN s = 1..Len(s)
    BY <2>1, TextFacts
  <2> HIDE DEF x
  <2>3. ASSUME NEW i \in 1..Len(x) PROVE x[i] # LF /\ (x[i] = CR => i = Len(x))
    <3>1. n + i \in DOMAIN s /\ x[i] = s[n + i]
      BY <2>1, <2>2
    <3>2. x[i] # LF /\ (x[i] = CR => n + i = Len(s))
      BY <3>1 DEF LineCut
    <3>3. n + i = Len(s) => i = Len(x)
      <4>1. n =< Len(s) => Len(x) = Len(s) - n
        BY <2>1
      <4>2. n \in Nat /\ i \in Nat /\ Len(s) \in Nat /\ Len(x) \in Nat
        BY <1>1, <2>2
      <4> QED
        BY <4>1, <4>2
    <3> QED
      BY <3>2, <3>3
  <2>4. LineCut(x)
    BY <2>2, <2>3 DEF LineCut
  <2> QED
    BY <2>4 DEF x
<1>3. s # <<>> /\ s[1] = CR => Len(s) = 1
  <2>1. s # <<>> => 1 \in DOMAIN s
    BY <1>1, TextFacts, EmptyText
  <2> QED
    BY <2>1 DEF LineCut
<1>4. After(s, LF) = s
  BY <1>1, NotFound
<1> QED
  BY <1>1, <1>2, <1>3, <1>4

\* A text without line ends is a line that is cut.
LEMMA FreeLineCut ==
    ASSUME NEW s \in Text, Free(s, {CR, LF})
    PROVE  LineCut(s)
BY DEF Free, LineCut

(* A line that ends in CR and LF, of a text that is cut.                   *)
LEMMA LineSplit ==
    ASSUME NEW a \in Text, NEW w \in Text, NEW m \in Text, NEW t \in Text,
           Free(m, {CR, LF}), Same(a \o w, m \o (<<CR>> \o (<<LF>> \o t)))
    PROVE  \/ Len(w) =< Len(t) /\ Before(a, CR) = m /\ Same(After(a, LF) \o w, t)
           \/ /\ Len(w) > Len(t) /\ LineCut(a) /\ After(a, LF) = a
              /\ IsPrefix(Before(a, CR), m)
<1> DEFINE lt == <<LF>> \o t
           mc == m \o <<CR>>
<1>0. CR \in Char /\ LF \in Char
  BY CharTyped
<1>1. /\ Free(m, {CR}) /\ Free(m, {LF}) /\ <<CR>> \in Text /\ CR \in Char /\ LF \in Char
      /\ Len(<<CR>>) = 1 /\ <<CR>>[1] = CR
  BY <1>0, Free1, OneText
<1>l. lt \in Text /\ Len(lt) = 1 + Len(t)
  <2>1. <<LF>> \in Text /\ Len(<<LF>>) = 1
    BY <1>0, OneText
  <2> QED
    BY <2>1, ConcatText
<1>n. Len(t) \in Nat /\ Len(w) \in Nat /\ Len(a) \in Nat /\ Len(m) \in Nat
  BY TextFacts
<1>2. mc \in Text /\ Len(mc) = Len(m) + 1
  BY <1>1, ConcatText
<1>3. Free(mc, {LF})
  <2>1. Free(<<CR>>, {LF})
    <3>1. \A i \in DOMAIN <<CR>> : i = 1
      BY <1>1, TextFacts
    <3>2. CR # LF
      BY DEF CR, LF
    <3> QED
      BY <1>1, <3>1, <3>2, Zenon DEF Free
  <2> QED
    BY <1>1, <2>1, FreeConcat
<1> HIDE DEF lt
<1>4. /\ Same(a \o w, m \o (<<CR>> \o lt))
      /\ Same(a \o w, mc \o (<<LF>> \o t))
  <2>1. mc \o lt = m \o (<<CR>> \o lt)
    BY <1>1, <1>l, Assoc
  <2> QED
    BY <2>1, Zenon DEF Same, lt
<1>5. \/ /\ Before(a, CR) = m /\ Same(a, m \o (<<CR>> \o After(a, CR)))
      \/ /\ Free(a, {CR}) /\ Len(w) > Len(lt)
         /\ \E u \in Text : Same(m, a \o u)
  BY <1>1, <1>l, <1>4, SplitCut
<1> HIDE DEF mc
<1>6. \/ /\ Same(After(a, LF) \o w, t) /\ Len(w) =< Len(t) /\ Find(a, LF) = Len(mc) + 1
      \/ Free(a, {LF}) /\ Len(w) > Len(t) /\ \E u \in Text : Same(mc, a \o u)
  <2>1. mc \in Text /\ Same(a \o w, mc \o (<<LF>> \o t))
    BY <1>2, <1>4
  <2> QED
    BY <1>0, <1>3, <2>1, SplitCut
<1>7. CASE Free(a, {CR}) /\ Len(w) > Len(lt) /\ \E u \in Text : Same(m, a \o u)
  <2>1. PICK u \in Text : Same(m, a \o u)
    BY <1>7
  <2>2. m = a \o u
    BY <2>1 DEF Same
  <2>3. Free(a \o u, {CR, LF})
    BY <2>2, Zenon
  <2>4. Free(a, {CR, LF})
    BY <2>3, CutFree
  <2>5. Free(a, {LF})
    BY <2>4 DEF Free
  <2>6. After(a, LF) = a /\ Before(a, CR) = a
    BY <1>7, <2>5, NotFound
  <2>7. IsPrefix(a, m)
    BY <2>2, PrefixOf, Zenon
  <2> QED
    <3>1. LineCut(a)
      BY <2>4, FreeLineCut
    <3>2. Len(w) > Len(t)
      BY <1>l, <1>n, <1>7
    <3> QED
      BY <2>6, <2>7, <3>1, <3>2
<1>8. CASE Before(a, CR) = m /\ Same(a, m \o (<<CR>> \o After(a, CR)))
  <2>1. CASE Same(After(a, LF) \o w, t) /\ Len(w) =< Len(t)
    BY <1>8, <2>1
  <2>2. CASE Free(a, {LF}) /\ Len(w) > Len(t) /\ \E u \in Text : Same(mc, a \o u)
    <3> DEFINE x == After(a, CR)
    <3>1. x \in Text
      BY PartsTyped
    <3> HIDE DEF x
    <3>2. m \o (<<CR>> \o x) = mc \o x
      BY <3>1, CharTyped, OneConcat DEF mc
    <3>3. a = mc \o x
      BY <1>8, <3>2, Zenon DEF Same, x
    <3>4. PICK u \in Text : Same(mc, a \o u)
      BY <2>2
    <3>5. mc = a \o u
      BY <3>4 DEF Same
    <3>6. /\ Len(mc \o x) = Len(mc) + Len(x) /\ Len(a \o u) = Len(a) + Len(u)
          /\ Len(a) \in Nat /\ Len(u) \in Nat /\ Len(mc) \in Nat /\ Len(x) \in Nat
      BY <1>2, <3>1, ConcatText, TextFacts
    <3>7. Len(a) = Len(mc) + Len(x) /\ Len(mc) = Len(a) + Len(u)
      BY <3>3, <3>5, <3>6, Zenon
    <3>8. Len(x) = 0
      BY <3>6, <3>7
    <3>9. x = <<>>
      BY <3>1, <3>8, EmptyText
    <3>10. mc \o <<>> = mc
      BY <1>2, EmptyText
    <3>11. a = mc
      BY <3>3, <3>9, <3>10, Zenon
    <3>12. LineCut(a)
      <4>1. /\ \A i \in 1..Len(m) : mc[i] = m[i] /\ m[i] # CR
            /\ Len(mc) = Len(m) + 1 /\ DOMAIN mc = 1..Len(mc)
        <5>1. \A i \in 1..Len(m) : mc[i] = m[i]
          BY <1>1, ConcatText DEF mc
        <5>2. \A i \in 1..Len(m) : m[i] # CR
          BY <1>1, TextFacts DEF Free
        <5> QED
          BY <1>2, <5>1, <5>2, TextFacts
      <4>2. \A i \in DOMAIN a : a[i] # LF
        BY <2>2 DEF Free
      <4>3. \A i \in DOMAIN a : i \in 1..Len(m) \/ i = Len(a)
        BY <1>n, <3>11, <4>1
      <4> QED
        BY <3>11, <4>1, <4>2, <4>3 DEF LineCut
    <3>13. IsPrefix(m, m)
      <4>1. m \o <<>> = m /\ <<>> \in Text
        BY EmptyText
      <4>2. IsPrefix(m, m \o <<>>)
        BY <4>1, PrefixOf
      <4> QED
        BY <4>1, <4>2, Zenon
    <3>14. After(a, LF) = a
      BY <2>2, NotFound
    <3> QED
      BY <1>8, <2>2, <3>12, <3>13, <3>14
  <2> QED
    BY <1>6, <2>1, <2>2
<1> QED
  BY <1>5, <1>7, <1>8

\* A line with what follows it is a text, and how long it is.
LEMMA LineLength ==
    ASSUME NEW v \in Text, NEW t \in Text
    PROVE  /\ v \o (<<CR>> \o (<<LF>> \o t)) \in Text
           /\ Len(v \o (<<CR>> \o (<<LF>> \o t))) = Len(v) + 2 + Len(t)
<1> DEFINE x == <<LF>> \o t
           y == <<CR>> \o x
<1>1. <<CR>> \in Text /\ <<LF>> \in Text /\ Len(<<CR>>) = 1 /\ Len(<<LF>>) = 1
  BY OneText, CharTyped
<1>2. x \in Text /\ Len(x) = 1 + Len(t)
  BY <1>1, ConcatText
<1> HIDE DEF x
<1>3. y \in Text /\ Len(y) = 1 + Len(x)
  BY <1>1, <1>2, ConcatText
<1> HIDE DEF y
<1>4. v \o y \in Text /\ Len(v \o y) = Len(v) + Len(y) /\ Len(v) \in Nat /\ Len(t) \in Nat
  BY <1>3, ConcatText, TextFacts
<1>5. Len(v \o y) = Len(v) + 2 + Len(t)
  BY <1>2, <1>3, <1>4
<1> QED
  BY <1>4, <1>5 DEF y, x

-----------------------------------------------------------------------------
(* Headers.                                                                *)

\* What ParseHeader takes the value and the next header from.
HeaderRest(a) == Erase(a, Find(a, ":") + 1)

\* The header with name k and value v before the text t.
HeaderWhole(a, w, k, v, t) ==
    /\ Len(w) =< Len(t) /\ Before(a, ":") = k /\ Value(HeaderRest(a)) = v
    /\ Same(After(HeaderRest(a), LF) \o w, t)

(* The line feed of the header has not come; if its name has, it is read,  *)
(* with the beginning of its value.                                        *)
HeaderCut(a, w, k, v, t) ==
    /\ Len(w) > Len(t) /\ LineCut(After(HeaderRest(a), LF))
    /\ Len(w) =< Len(v) + 2 + Len(t) =>
          Before(a, ":") = k /\ IsPrefix(Value(HeaderRest(a)), v)

\* A header that is cut in its name.
LEMMA NameUnread ==
    ASSUME NEW a \in Text, NEW w \in Text, NEW k \in Text, NEW v \in Text, NEW t \in Text,
           Free(k, {":", CR, LF}), Free(a, {":"}),
           \E u \in Text : Same(k, a \o u), Len(w) > Len(v) + 2 + Len(t)
    PROVE  HeaderCut(a, w, k, v, t)
<1>1. PICK u \in Text : Same(k, a \o u)
  OBVIOUS
<1>2. k = a \o u
  BY <1>1 DEF Same
<1>3. Free(a \o u, {":", CR, LF})
  BY <1>2, Zenon
<1>4. Free(a, {":", CR, LF})
  BY <1>3, CutFree
<1>5. LineCut(a)
  <2>1. Free(a, {CR, LF})
    BY <1>4 DEF Free
  <2> QED
    BY <2>1, FreeLineCut
<1>6. Find(a, ":") = 0
  BY NotFound
<1>7. HeaderRest(a) = Erase(a, 1)
  <2>1. 0 + 1 = 1
    OBVIOUS
  <2> QED
    BY <1>6, <2>1, Zenon DEF HeaderRest
<1>8. Erase(a, 1) \in Text
  BY EraseTyped
<1>9. LineCut(Erase(a, 1)) /\ 1 \in Nat
  BY <1>5, LineCutFacts
<1>10. After(Erase(a, 1), LF) = Erase(a, 1)
  BY <1>8, <1>9, LineCutFacts
<1>11. Len(w) \in Nat /\ Len(v) \in Nat /\ Len(t) \in Nat
  BY TextFacts
<1>12. Len(w) > Len(t) /\ ~(Len(w) =< Len(v) + 2 + Len(t))
  BY <1>11
<1>13. LineCut(After(HeaderRest(a), LF))
  BY <1>7, <1>9, <1>10, Zenon
<1> QED
  BY <1>12, <1>13 DEF HeaderCut

(* An empty part that ends in a character has been read, or nothing has    *)
(* come.                                                                   *)
LEMMA EmptyCut ==
    ASSUME NEW a \in Text, NEW w \in Text, NEW e \in Text, NEW ch \in Char, NEW t \in Text,
           e = <<>>, Free(e, {ch}), Same(a \o w, e \o (<<ch>> \o t))
    PROVE  \/ Find(a, ch) = 1 /\ Same(After(a, ch) \o w, t) /\ Len(w) =< Len(t)
           \/ Len(w) > Len(t) /\ a = <<>>
<1>1. \/ Find(a, ch) = Len(e) + 1 /\ Same(After(a, ch) \o w, t) /\ Len(w) =< Len(t)
      \/ Len(w) > Len(t) /\ \E u \in Text : Same(e, a \o u)
  <2>1. \/ /\ Find(a, ch) = Len(e) + 1 /\ Before(a, ch) = e
           /\ Same(a, e \o (<<ch>> \o After(a, ch)))
           /\ Same(After(a, ch) \o w, t) /\ Len(w) =< Len(t)
        \/ /\ Free(a, {ch}) /\ Len(w) > Len(t)
           /\ \E u \in Text : Same(e, a \o u) /\ Same(w, u \o (<<ch>> \o t))
    BY SplitCut
  <2> QED
    BY <2>1, Zenon
<1>2. Len(e) + 1 = 1
  <2>1. Len(e) = 0
    BY EmptyText
  <2> QED
    BY <2>1
<1>3. ASSUME NEW u \in Text, Same(e, a \o u) PROVE a = <<>>
  <2>1. a \o u = <<>>
    BY <1>3 DEF Same
  <2> QED
    BY <2>1, NotBoth
<1> QED
  BY <1>1, <1>2, <1>3

(* The first character of a text that is cut has come, or nothing has.     *)
LEMMA FirstCut ==
    ASSUME NEW a \in Text, NEW w \in Text, NEW ch \in Char, NEW t \in Text,
           Same(a \o w, <<ch>> \o t)
    PROVE  \/ a # <<>> /\ a[1] = ch /\ Find(a, ch) = 1 /\ Same(Erase(a, 1) \o w, t) /\ Len(w) =< Len(t)
           \/ a = <<>> /\ Same(w, <<ch>> \o t) /\ Len(w) > Len(t)
<1> DEFINE ct == <<ch>> \o t
<1>1. PICK e \in Text : e = <<>>
  BY EmptyText
<1>2. Free(e, {ch})
  BY <1>1 DEF Free
<1>3. ct \in Text
  BY OneText, ConcatText
<1> HIDE DEF ct
<1>4. Same(a \o w, e \o ct)
  <2>1. e \o ct = ct
    BY <1>1, <1>3, EmptyText
  <2> QED
    BY <2>1, Zenon DEF Same, ct
<1>5. Same(a \o w, e \o (<<ch>> \o t))
  BY <1>4 DEF ct
<1>6. \/ Find(a, ch) = 1 /\ Same(After(a, ch) \o w, t) /\ Len(w) =< Len(t)
      \/ Len(w) > Len(t) /\ a = <<>>
  BY <1>1, <1>2, <1>5, EmptyCut
<1>7. CASE Find(a, ch) = 1 /\ Same(After(a, ch) \o w, t) /\ Len(w) =< Len(t)
  <2>2. After(a, ch) = Erase(a, 1)
    BY <1>7 DEF After
  <2>3. a[1] = ch
    <3>1. Find(a, ch) # 0
      BY <1>7
    <3>2. a[Find(a, ch)] = ch
      BY <3>1, FindFirst
    <3> QED
      BY <1>7, <3>2, Zenon
  <2>4. a # <<>>
    <3>1. Find(a, ch) \in 0..Len(a) /\ Len(a) \in Nat
      BY FindFirst, TextFacts
    <3> QED
      BY <1>7, <3>1, EmptyText
  <2> QED
    BY <1>7, <2>2, <2>3, <2>4
<1>8. CASE Len(w) > Len(t) /\ a = <<>>
  <2>1. a \o w = w
    BY <1>8, EmptyText
  <2>2. Same(w, <<ch>> \o t)
    BY <2>1, Zenon DEF Same
  <2> QED
    BY <1>8, <2>2
<1> QED
  BY <1>6, <1>7, <1>8

\* The value of a header of which the name has come.
LEMMA ValueRead ==
    ASSUME NEW a \in Text, NEW w \in Text, NEW k \in Text, NEW v \in Text, NEW t \in Text,
           Free(v, {CR, LF}), Before(a, ":") = k,
           Same(After(a, ":") \o w, <<SP>> \o (v \o (<<CR>> \o (<<LF>> \o t)))),
           Find(a, ":") # 0
    PROVE  HeaderWhole(a, w, k, v, t) \/ HeaderCut(a, w, k, v, t)
<1> DEFINE l == v \o (<<CR>> \o (<<LF>> \o t))
           b == After(a, ":")
           rest == HeaderRest(a)
<1>1. l \in Text /\ Len(l) = Len(v) + 2 + Len(t)
  BY LineLength
<1>2. b \in Text
  BY PartsTyped
<1>3. rest = Erase(b, 1)
  <2>1. Find(a, ":") \in 0..Len(a) /\ Len(a) \in Nat
    BY FindFirst, TextFacts
  <2>2. Find(a, ":") \in Nat /\ Find(a, ":") =< Len(a) /\ 1 \in Nat
    BY <2>1
  <2> QED
    BY <2>2, EraseErase DEF After, HeaderRest
<1>4. Len(w) \in Nat /\ Len(v) \in Nat /\ Len(t) \in Nat
  BY TextFacts
<1> HIDE DEF b
<1>5. SP \in Char /\ <<SP>> \in Text
  BY CharTyped, OneText
<1>7. Same(b \o w, <<SP>> \o l)
  BY DEF b
<1> HIDE DEF l
<1>9. \/ Same(Erase(b, 1) \o w, l)
      \/ b = <<>> /\ Len(w) > Len(l)
  BY <1>1, <1>2, <1>5, <1>7, FirstCut
<1>10. CASE Same(Erase(b, 1) \o w, l)
  <2>2. rest = Erase(b, 1)
    BY <1>3
  <2>3. rest \in Text
    BY <1>2, <2>2, EraseTyped
  <2>4. Same(rest \o w, v \o (<<CR>> \o (<<LF>> \o t)))
    BY <1>10, <2>2, Zenon DEF l
  <2> HIDE DEF rest
  <2>5. \/ Len(w) =< Len(t) /\ Before(rest, CR) = v /\ Same(After(rest, LF) \o w, t)
        \/ /\ Len(w) > Len(t) /\ LineCut(rest) /\ After(rest, LF) = rest
           /\ IsPrefix(Before(rest, CR), v)
    BY <2>3, <2>4, LineSplit
  <2> QED
    BY <2>5, Zenon DEF rest, HeaderWhole, HeaderCut, Value
<1>11. CASE b = <<>> /\ Len(w) > Len(l)
  <2>1. b = <<>>
    BY <1>11
  <2>2. rest = <<>>
    <3>1. Len(b) = 0
      BY <1>2, <2>1, EmptyText
    <3>2. Erase(b, 1) = <<>>
      BY <1>2, <3>1, EraseTyped
    <3> QED
      BY <1>3, <3>2
  <2>3. LineCut(<<>>)
    BY DEF LineCut
  <2>4. After(<<>>, LF) = <<>>
    BY <2>3, EmptyText, LineCutFacts
  <2>5. LineCut(After(rest, LF))
    BY <2>2, <2>3, <2>4, Zenon
  <2>6. Len(w) > Len(t) /\ ~(Len(w) =< Len(v) + 2 + Len(t))
    BY <1>1, <1>4, <1>11
  <2> QED
    BY <2>5, <2>6 DEF HeaderCut
<1> QED
  BY <1>9, <1>10, <1>11

\* A header is read as it was sent, or it is cut.
LEMMA HeaderRead ==
    ASSUME NEW a \in Text, NEW w \in Text, NEW k \in Text, NEW v \in Text, NEW t \in Text,
           Free(k, {":", CR, LF}), Free(v, {CR, LF}),
           Same(a \o w, k \o (<<":">> \o (<<SP>> \o (v \o (<<CR>> \o (<<LF>> \o t))))))
    PROVE  HeaderWhole(a, w, k, v, t) \/ HeaderCut(a, w, k, v, t)
<1> DEFINE l == v \o (<<CR>> \o (<<LF>> \o t))
           sl == <<SP>> \o l
<1>1. l \in Text /\ Len(l) = Len(v) + 2 + Len(t)
  BY LineLength
<1> HIDE DEF l
<1>2. ":" \in Char /\ SP \in Char /\ <<SP>> \in Text /\ Len(<<SP>>) = 1
  BY CharTyped, OneText
<1>3. sl \in Text /\ Len(sl) = 1 + Len(l)
  BY <1>1, <1>2, ConcatText
<1> HIDE DEF sl
<1>4. Same(a \o w, k \o (<<":">> \o sl))
  BY DEF sl, l
<1>5. Free(k, {":"})
  BY Free1
<1>6. \/ /\ Find(a, ":") = Len(k) + 1 /\ Before(a, ":") = k
         /\ Same(After(a, ":") \o w, sl)
      \/ /\ Free(a, {":"}) /\ Len(w) > Len(sl)
         /\ \E u \in Text : Same(k, a \o u)
  BY <1>2, <1>3, <1>4, <1>5, SplitCut
<1>7. CASE /\ Find(a, ":") = Len(k) + 1 /\ Before(a, ":") = k
           /\ Same(After(a, ":") \o w, sl)
  <2>1. Find(a, ":") # 0
    BY <1>7, TextFacts
  <2>2. Same(After(a, ":") \o w, <<SP>> \o (v \o (<<CR>> \o (<<LF>> \o t))))
    BY <1>7 DEF sl, l
  <2>3. Before(a, ":") = k
    BY <1>7
  <2> QED
    BY <2>1, <2>2, <2>3, ValueRead
<1>8. CASE Free(a, {":"}) /\ Len(w) > Len(sl) /\ \E u \in Text : Same(k, a \o u)
  <2>1. Len(w) \in Nat /\ Len(v) \in Nat /\ Len(t) \in Nat
    BY TextFacts
  <2>2. Len(w) > Len(v) + 2 + Len(t)
    BY <1>1, <1>3, <1>8, <2>1
  <2> QED
    BY <1>8, <2>2, NameUnread
<1> QED
  BY <1>6, <1>7, <1>8

\* The line of a header, as the parser takes it apart.
LEMMA HeaderLine ==
    ASSUME NEW k \in Text, NEW v \in Text, NEW t \in Text
    PROVE  Same(HeaderText(<<k, v>>) \o t, k \o (<<":">> \o (<<SP>> \o (v \o (<<CR>> \o (<<LF>> \o t))))))
<1> DEFINE cs == <<":", SP>>
           n == <<CR, LF>>
           nt == <<CR>> \o (<<LF>> \o t)
           l == v \o nt
<1>1. cs \in Text /\ n \in Text /\ n \o t = nt
  <2>1. ":" \in Char /\ SP \in Char /\ CR \in Char /\ LF \in Char
    BY CharTyped
  <2>2. cs \in Text /\ n \in Text
    BY <2>1, TwoText
  <2>3. n \o t = nt
    BY <2>1, TwoConcat
  <2> QED
    BY <2>2, <2>3
<1>2. nt \in Text
  <2>1. n \o t \in Text
    BY <1>1, ConcatText
  <2> QED
    BY <1>1, <2>1
<1> HIDE DEF nt
<1>3. l \in Text
  BY <1>2, ConcatText
<1> HIDE DEF l
<1>4. cs \o l = <<":">> \o (<<SP>> \o l)
  BY <1>3, CharTyped, TwoConcat
<1> HIDE DEF cs, n
<1> DEFINE kc == k \o cs
           kcv == kc \o v
           csl == cs \o l
<1>5. kc \in Text
  BY <1>1, ConcatText
<1>6. Same(kc \o l, k \o csl)
  <2>1. Texts({k, cs, l})
    BY <1>1, <1>3 DEF Texts
  <2> QED
    BY <2>1, Moved
<1> HIDE DEF kc
<1>7. kcv \in Text
  BY <1>5, ConcatText
<1>8. Same(kcv \o nt, kc \o l)
  <2>1. Texts({kc, v, nt})
    BY <1>2, <1>5 DEF Texts
  <2> QED
    BY <2>1, Moved DEF l
<1> HIDE DEF kcv
<1>9. Same((kcv \o n) \o t, kcv \o nt)
  <2>1. Texts({kcv, n, t})
    BY <1>1, <1>7 DEF Texts
  <2>2. Same((kcv \o n) \o t, kcv \o (n \o t))
    BY <2>1, Moved
  <2> QED
    BY <1>1, <2>2, Zenon
<1>10. HeaderText(<<k, v>>) = kcv \o n
  BY DEF HeaderText, kcv, kc, cs, n
<1>11. HeaderText(<<k, v>>) \o t = k \o csl
  BY <1>6, <1>8, <1>9, <1>10, Zenon DEF Same
<1> QED
  BY <1>4, <1>11, Zenon DEF Same, csl, l, nt

\* A text is a prefix of itself.
LEMMA PrefixSelf ==
    ASSUME NEW s \in Text
    PROVE  IsPrefix(s, s)
<1>1. s \o <<>> = s /\ <<>> \in Text
  BY EmptyText
<1>2. IsPrefix(s, s \o <<>>)
  BY <1>1, PrefixOf
<1> QED
  BY <1>1, <1>2, Zenon

\* The first character of a text.
LEMMA TakeOne ==
    ASSUME NEW s \in Text
    PROVE  /\ Take(s, 1) = <<>> => s = <<>>
           /\ s # <<>> => Take(s, 1) = <<s[1]>>
           /\ s = <<>> => Take(s, 1) = <<>>
<1>1. /\ Take(s, 1) \in Text /\ Len(s) \in Nat /\ Len(Take(s, 1)) = IF 1 < Len(s) THEN 1 ELSE Len(s)
      /\ \A i \in 1..Len(Take(s, 1)) : Take(s, 1)[i] = s[i]
  BY TakeTyped, TextFacts, EmptyText
<1>2. CASE s = <<>>
  <2>1. Len(Take(s, 1)) = 0
    BY <1>1, <1>2, EmptyText
  <2> QED
    BY <1>1, <1>2, <2>1, EmptyText
<1>3. CASE s # <<>>
  <2> DEFINE x == Take(s, 1)
             y == <<s[1]>>
  <2>1. Len(s) # 0
    BY <1>3, EmptyText
  <2>2. s[1] \in Char
    BY <1>1, <2>1, TextFacts
  <2>3. Len(x) = 1 /\ x[1] = s[1] /\ x \in Text
    <3>1. Len(x) = 1
      BY <1>1, <2>1
    <3> QED
      BY <1>1, <3>1
  <2>4. y \in Text /\ Len(y) = 1 /\ y[1] = s[1]
    BY <2>2, OneText
  <2> HIDE DEF x, y
  <2>5. x = y
    <3>1. \A i \in 1..1 : x[i] = y[i]
      <4>1. \A i \in 1..1 : i = 1
        OBVIOUS
      <4> QED
        BY <2>3, <2>4, <4>1
    <3> QED
      BY <2>3, <2>4, <3>1, SeqEqual DEF Text
  <2>6. x # <<>>
    <3>1. Len(x) # 0
      BY <2>3
    <3> QED
      BY <2>3, <3>1, EmptyText
  <2> QED
    BY <1>3, <2>5, <2>6 DEF x, y
<1> QED
  BY <1>2, <1>3

\* Erase takes away two characters, or as many as there are.
LEMMA EraseTwo ==
    ASSUME NEW s \in Text, Len(s) =< 2
    PROVE  Erase(s, 2) = <<>>
BY EraseTyped, TextFacts

-----------------------------------------------------------------------------
(* Chunks.                                                                 *)

\* The two lines of a chunk, as the decoder takes them apart.
LEMMA ChunkLine ==
    ASSUME NEW s \in Text, NEW d \in Text, NEW t \in Text
    PROVE  Same(ChunkText(s, d) \o t, s \o (<<CR>> \o (<<LF>> \o (d \o (<<CR>> \o (<<LF>> \o t))))))
<1> DEFINE n == <<CR, LF>>
           nt == <<CR>> \o (<<LF>> \o t)
           l == d \o nt
           nl == <<CR>> \o (<<LF>> \o l)
           sn == s \o n
           snd == sn \o d
<1>1. CR \in Char /\ LF \in Char
  BY CharTyped
<1>2. n \in Text /\ n \o t = nt
  BY <1>1, TwoText, TwoConcat
<1>3. nt \in Text
  <2>1. n \o t \in Text
    BY <1>2, ConcatText
  <2> QED
    BY <1>2, <2>1
<1> HIDE DEF nt
<1>4. l \in Text
  BY <1>3, ConcatText
<1> HIDE DEF l
<1>5. n \o l = nl
  BY <1>1, <1>4, TwoConcat
<1> HIDE DEF n, nl
<1>6. sn \in Text
  BY <1>2, ConcatText
<1>7. Same(sn \o l, s \o (n \o l))
  <2>1. Texts({s, n, l})
    BY <1>2, <1>4 DEF Texts
  <2> QED
    BY <2>1, Moved
<1> HIDE DEF sn
<1>8. snd \in Text
  BY <1>6, ConcatText
<1>9. Same(snd \o nt, sn \o l)
  <2>1. Texts({sn, d, nt})
    BY <1>3, <1>6 DEF Texts
  <2> QED
    BY <2>1, Moved DEF l
<1> HIDE DEF snd
<1>10. Same((snd \o n) \o t, snd \o (n \o t))
  <2>1. Texts({snd, n, t})
    BY <1>2, <1>8 DEF Texts
  <2> QED
    BY <2>1, Moved
<1>11. ChunkText(s, d) = snd \o n
  BY DEF ChunkText, snd, sn, n
<1>12. ChunkText(s, d) \o t = s \o nl
  BY <1>2, <1>5, <1>7, <1>9, <1>10, <1>11, Zenon DEF Same
<1> QED
  BY <1>12, Zenon DEF Same, nl, l, nt

\* The last chunk is a zero and two line ends.
LEMMA LastChunk ==
    /\ <<"0">> \in Text /\ <<CR, LF>> \in Text /\ Last0 \in Text
    /\ Same(Last0, <<"0">> \o (<<CR>> \o (<<LF>> \o <<CR, LF>>)))
<1> DEFINE z == <<"0">>
           n == <<CR, LF>>
           zn == z \o n
<1>1. CR \in Char /\ LF \in Char /\ "0" \in Char
  BY CharTyped
<1>2. n \in Text /\ z \in Text
  BY <1>1, TwoText, OneText
<1>3. \A x \in Text : <<CR, LF>> \o x = <<CR>> \o (<<LF>> \o x)
  BY <1>1, TwoConcat
<1>4. n \o n = <<CR>> \o (<<LF>> \o n)
  BY <1>2, <1>3
<1> HIDE DEF z, n
<1>5. zn \in Text
  BY <1>2, ConcatText
<1>6. zn \o <<>> = zn
  BY <1>5, EmptyText
<1>7. zn \o n \in Text
  BY <1>2, <1>5, ConcatText
<1>8. zn \o n = z \o (n \o n)
  BY <1>2, Assoc
<1> HIDE DEF zn
<1>9. Last0 = zn \o n
  BY <1>6 DEF Last0, ChunkText, zn, z, n
<1> QED
  BY <1>2, <1>4, <1>7, <1>8, <1>9, Zenon DEF Same, z, n

\* No digit ends a line.
LEMMA DigitsFree ==
    ASSUME NEW s \in Text, \A k \in DOMAIN s : s[k] \in ToSet(Digits)
    PROVE  Free(s, {CR, LF})
<1>1. CR \notin ToSet(Digits) /\ LF \notin ToSet(Digits)
  <2>1. \A i \in 1..16 : Digits[i] # CR /\ Digits[i] # LF
    BY DEF Digits, CR, LF
  <2> QED
    BY <2>1, DigitsTyped
<1> QED
  BY <1>1 DEF Free

\* A line end and a text are a text.
LEMMA LineTyped ==
    ASSUME NEW t \in Text
    PROVE  <<CR>> \o (<<LF>> \o t) \in Text
<1>1. <<CR>> \in Text /\ <<LF>> \in Text
  BY OneText, CharTyped
<1> DEFINE x == <<LF>> \o t
<1>2. x \in Text
  BY <1>1, ConcatText
<1> HIDE DEF x
<1>3. <<CR>> \o x \in Text
  BY <1>1, <1>2, ConcatText
<1> QED
  BY <1>3 DEF x

\* A size is read from a line that is not empty.
LEMMA SizeRead ==
    ASSUME NEW m \in Text, NEW old \in Nat
    PROVE  /\ m = <<>> => ReadSize(m, old) = old
           /\ m # <<>> /\ m[1] # CR =>
                Before(m, CR) # <<>> /\ ReadSize(m, old) = HexNumber(Before(m, CR))
<1>1. CASE m = <<>>
  <2>1. Free(<<>>, {CR})
    BY DEF Free
  <2>2. Before(<<>>, CR) = <<>>
    BY <2>1, EmptyText, NotFound
  <2> QED
    BY <1>1, <2>2 DEF ReadSize
<1>2. CASE m # <<>> /\ m[1] # CR
  <2>1. Before(m, CR) # <<>>
    <3>1. CASE Free(m, {CR})
      BY <1>2, <3>1, NotFound
    <3>2. CASE ~Free(m, {CR})
      <4>1. /\ CR \in Char /\ Before(m, CR) \in Text /\ After(m, CR) \in Text
            /\ Same(m, Before(m, CR) \o (<<CR>> \o After(m, CR)))
        BY <3>2, SplitFirst
      <4>2. ASSUME Before(m, CR) = <<>> PROVE FALSE
        <5> DEFINE x == <<CR>> \o After(m, CR)
        <5>1. <<CR>> \in Text /\ <<CR>>[1] = CR /\ <<CR>> # <<>>
          BY <4>1, OneText
        <5>2. x \in Text
          BY <4>1, <5>1, ConcatText
        <5>3. x[1] = CR
          BY <4>1, <5>1, FirstOf
        <5> HIDE DEF x
        <5>4. <<>> \o x = x
          BY <5>2, EmptyText
        <5>5. m = x
          BY <4>1, <4>2, <5>4, Zenon DEF Same, x
        <5> QED
          BY <1>2, <5>3, <5>5, Zenon
      <4> QED
        BY <4>2
    <3> QED
      BY <3>1, <3>2
  <2> QED
    BY <1>2, <2>1 DEF ReadSize
<1> QED
  BY <1>1, <1>2

\* A size that is cut is still no less than its length.
LEMMA SizeCut ==
    ASSUME NEW a \in Text, NEW w \in Text, NEW s \in Text, NEW u \in Text,
           a # <<>>, s # <<>>, s[1] # "0", \A k \in DOMAIN s : s[k] \in ToSet(Digits),
           Same(a \o w, s \o (<<CR>> \o (<<LF>> \o u)))
    PROVE  \/ Before(a, CR) = s /\ Same(After(a, LF) \o w, u)
           \/ /\ w # <<>> /\ After(a, LF) = a
              /\ HexNumber(Before(a, CR)) >= 1 /\ Len(a) =< HexNumber(Before(a, CR)) + 1
<1> DEFINE p == Before(a, CR)
<1>0. Len(a) \in Nat /\ Len(a) # 0 /\ p \in Text /\ Len(p) \in Nat
  <2>1. p \in Text
    BY PartsTyped
  <2> QED
    BY <2>1, TextFacts, EmptyText
<1>1. Free(s, {CR, LF})
  BY DigitsFree
<1>2. \/ Before(a, CR) = s /\ Same(After(a, LF) \o w, u)
      \/ /\ Len(w) > Len(u) /\ LineCut(a) /\ After(a, LF) = a
         /\ IsPrefix(Before(a, CR), s)
  <2>1. \/ Len(w) =< Len(u) /\ Before(a, CR) = s /\ Same(After(a, LF) \o w, u)
        \/ /\ Len(w) > Len(u) /\ LineCut(a) /\ After(a, LF) = a
           /\ IsPrefix(Before(a, CR), s)
    BY <1>1, LineSplit
  <2> QED
    BY <2>1
<1>3. CASE /\ Len(w) > Len(u) /\ LineCut(a) /\ After(a, LF) = a
           /\ IsPrefix(Before(a, CR), s)
  <2>1. w # <<>>
    BY <1>3, WireLeft
  <2>2. a[1] = s[1] /\ s[1] # CR
    <3> DEFINE x == <<CR>> \o (<<LF>> \o u)
    <3>1. x \in Text
      BY LineTyped
    <3>2. Same(a \o w, s \o x)
      OBVIOUS
    <3> HIDE DEF x
    <3>3. (a \o w)[1] = a[1] /\ (s \o x)[1] = s[1]
      BY <3>1, FirstOf
    <3>4. s[1] \notin {CR, LF}
      BY <1>1, FirstFree
    <3> QED
      BY <3>2, <3>3, <3>4 DEF Same
  <2>3. Len(p) # 0 /\ Len(a) =< Len(p) + 1
    <3>1. CASE Free(a, {CR})
      <4>1. p = a
        BY <3>1, NotFound
      <4> QED
        BY <1>0, <4>1
    <3>2. CASE ~Free(a, {CR})
      <4>1. /\ Find(a, CR) # 0 /\ Len(a) = Len(p) + 1 + Len(After(a, CR))
        BY <3>2, SplitFirst
      <4>2. Find(a, CR) \in 1..Len(a) /\ a[Find(a, CR)] = CR
        <5>1. Find(a, CR) \in 0..Len(a) /\ (Find(a, CR) # 0 => a[Find(a, CR)] = CR)
          BY FindFirst
        <5> QED
          BY <1>0, <4>1, <5>1
      <4>3. Find(a, CR) = Len(a)
        BY <1>3, <4>2, TextFacts DEF LineCut
      <4>4. Find(a, CR) # 1
        BY <2>2, <4>2
      <4>5. Len(After(a, CR)) = 0
        <5>1. After(a, CR) = <<>>
          BY <1>0, <4>3, EraseTyped DEF After
        <5> QED
          BY <5>1, EmptyText
      <4> QED
        BY <1>0, <4>1, <4>2, <4>3, <4>4, <4>5
    <3> QED
      BY <3>1, <3>2
  <2>4. Len(p) =< Len(s) /\ \A i \in 1..Len(p) : p[i] = s[i]
    <3>1. Len(p) =< Len(s) /\ SubSeq(p, 1, Len(p)) = SubSeq(s, 1, Len(p)) /\ Len(s) \in Nat
      BY <1>3, TextFacts DEF IsPrefix
    <3>2. SubSeq(p, 1, Len(p)) = p
      BY <1>0, SubSeqFull DEF Text
    <3>3. Take(s, Len(p)) = SubSeq(s, 1, Len(p))
      BY <1>0, <3>1 DEF Take
    <3>4. \A i \in 1..Len(Take(s, Len(p))) : Take(s, Len(p))[i] = s[i]
      BY <1>0, TakeTyped
    <3> HIDE DEF p
    <3> QED
      BY <3>1, <3>2, <3>3, <3>4
  <2>5. p # <<>> /\ p[1] # "0" /\ \A k \in DOMAIN p : p[k] \in ToSet(Digits)
    <3>1. p # <<>>
      BY <1>0, <2>3, EmptyText
    <3>2. DOMAIN p = 1..Len(p) /\ DOMAIN s = 1..Len(s) /\ Len(s) \in Nat
      BY <1>0, TextFacts
    <3> HIDE DEF p
    <3> QED
      BY <1>0, <2>3, <2>4, <3>1, <3>2
  <2>6. HexNumber(p) >= Len(p) /\ HexNumber(p) \in Nat
    BY <1>0, <2>5, HexGrows, HexTyped
  <2>7. HexNumber(p) >= 1 /\ Len(a) =< HexNumber(p) + 1
    BY <1>0, <2>3, <2>6
  <2> QED
    BY <1>3, <2>1, <2>7
<1> QED
  BY <1>2, <1>3

\* The data of a chunk of which the size has come, and the line end after it.
LEMMA DataRead ==
    ASSUME NEW a \in Text, NEW w \in Text, NEW d \in Text, NEW t \in Text, t # <<>>,
           Same(a \o w, d \o (<<CR>> \o (<<LF>> \o t)))
    PROVE  \/ NextChunk(a, Len(d)) = <<>> /\ w # <<>>
           \/ Take(a, Len(d)) = d /\ Same(NextChunk(a, Len(d)) \o w, t)
<1> DEFINE lt == <<LF>> \o t
           clt == <<CR>> \o lt
           c == Erase(a, Len(d))
           e == Erase(c, 1)
<1>1. /\ Len(a) \in Nat /\ Len(d) \in Nat /\ Len(w) \in Nat /\ Len(t) \in Nat /\ CR \in Char /\ LF \in Char
  BY TextFacts, CharTyped
<1>2. lt \in Text /\ clt \in Text
  <2>1. <<LF>> \in Text
    BY <1>1, OneText
  <2> QED
    BY <2>1, ConcatText, LineTyped
<1>3. Same(a \o w, d \o clt)
  OBVIOUS
<1>n. NextChunk(a, Len(d)) = After(Erase(a, Len(d) + 1), LF)
  BY DEF NextChunk
<1>e. After(<<>>, LF) = <<>>
  <2>1. Free(<<>>, {LF})
    BY DEF Free
  <2> QED
    BY <2>1, EmptyText, NotFound
<1>4. CASE Len(a) < Len(d)
  <2>1. Len(d) + 1 \in Nat /\ Len(d) + 1 >= Len(a)
    BY <1>1, <1>4
  <2>2. Erase(a, Len(d) + 1) = <<>>
    BY <2>1, EraseTyped
  <2>3. NextChunk(a, Len(d)) = <<>>
    BY <1>n, <1>e, <2>2, Zenon
  <2>4. w # <<>>
    <3>1. ASSUME w = <<>> PROVE FALSE
      <4>1. a \o w = a
        BY <3>1, EmptyText
      <4> HIDE DEF clt
      <4>2. a = d \o clt
        BY <1>3, <4>1, Zenon DEF Same
      <4>3. Len(d \o clt) = Len(d) + Len(clt) /\ Len(clt) \in Nat
        BY <1>2, ConcatText, TextFacts
      <4> QED
        BY <1>1, <1>4, <4>2, <4>3
    <3> QED
      BY <3>1
  <2> QED
    BY <2>3, <2>4
<1>5. CASE Len(d) =< Len(a)
  <2> HIDE DEF clt, lt, c, e
  <2>1. Same(a, d \o Erase(a, Len(d))) /\ Same(clt, Erase(a, Len(d)) \o w)
    BY <1>2, <1>3, <1>5, CutAfter
  <2>2. c \in Text /\ e \in Text /\ e = Erase(a, Len(d) + 1)
    <3>1. Erase(a, Len(d)) \in Text /\ 1 \in Nat
      BY <1>1, EraseTyped
    <3>2. Erase(Erase(a, Len(d)), 1) \in Text
      BY <3>1, EraseTyped
    <3>3. Erase(Erase(a, Len(d)), 1) = Erase(a, Len(d) + 1)
      BY <1>1, <1>5, EraseErase
    <3> QED
      BY <3>1, <3>2, <3>3 DEF c, e
  <2>3. Take(a, Len(d)) = d
    <3>1. Take(d \o c, Len(d)) = d
      BY <2>2, TakeConcat
    <3>2. a = d \o c
      BY <2>1, Zenon DEF Same, c
    <3> QED
      BY <3>1, <3>2, Zenon
  <2>4. Same(c \o w, <<CR>> \o lt)
    BY <2>1, Zenon DEF Same, c, clt
  <2>5. NextChunk(a, Len(d)) = After(e, LF)
    BY <1>n, <2>2, Zenon
  <2>6. \/ Same(e \o w, lt)
        \/ c = <<>> /\ Len(w) > Len(lt)
    <3>1. \/ c # <<>> /\ c[1] = CR /\ Find(c, CR) = 1 /\ Same(Erase(c, 1) \o w, lt) /\ Len(w) =< Len(lt)
          \/ c = <<>> /\ Same(w, <<CR>> \o lt) /\ Len(w) > Len(lt)
      BY <1>1, <1>2, <2>2, <2>4, FirstCut
    <3> QED
      BY <3>1, Zenon DEF e
  <2>7. CASE c = <<>> /\ Len(w) > Len(lt)
    <3>1. w # <<>>
      BY <1>2, <2>7, WireLeft
    <3>2. e = <<>>
      <4>1. Len(c) = 0
        BY <2>2, <2>7, EmptyText
      <4>2. Erase(c, 1) = <<>>
        BY <2>2, <4>1, EraseTyped
      <4> QED
        BY <4>2 DEF e
    <3>3. NextChunk(a, Len(d)) = <<>>
      BY <1>e, <2>5, <3>2, Zenon
    <3> QED
      BY <3>1, <3>3
  <2>8. CASE Same(e \o w, lt)
    <3>1. Same(e \o w, <<LF>> \o t)
      BY <2>8 DEF lt
    <3>2. \/ e # <<>> /\ e[1] = LF /\ Find(e, LF) = 1 /\ Same(Erase(e, 1) \o w, t) /\ Len(w) =< Len(t)
          \/ e = <<>> /\ Same(w, <<LF>> \o t) /\ Len(w) > Len(t)
      BY <1>1, <2>2, <3>1, FirstCut
    <3>3. CASE e = <<>> /\ Len(w) > Len(t)
      <4>1. w # <<>>
        BY <3>3, WireLeft
      <4>2. NextChunk(a, Len(d)) = <<>>
        BY <1>e, <2>5, <3>3, Zenon
      <4> QED
        BY <4>1, <4>2
    <3>4. CASE Find(e, LF) = 1 /\ Same(Erase(e, 1) \o w, t)
      <4>1. After(e, LF) = Erase(e, 1)
        BY <3>4 DEF After
      <4>2. Same(NextChunk(a, Len(d)) \o w, t)
        BY <2>5, <3>4, <4>1, Zenon
      <4> QED
        BY <2>3, <4>2
    <3> QED
      BY <3>2, <3>3, <3>4
  <2> QED
    BY <2>6, <2>7, <2>8
<1> QED
  BY <1>1, <1>4, <1>5

\* Of an empty body nothing is left.
LEMMA NothingLeft ==
    ASSUME NEW n \in Nat
    PROVE  After(<<>>, LF) = <<>> /\ NextChunk(<<>>, n) = <<>>
<1>1. After(<<>>, LF) = <<>>
  <2>1. Free(<<>>, {LF})
    BY DEF Free
  <2> QED
    BY <2>1, EmptyText, NotFound
<1>2. Erase(<<>>, n + 1) = <<>>
  <2>1. <<>> \in Text /\ Len(<<>>) = 0 /\ n + 1 \in Nat /\ n + 1 >= 0
    BY EmptyText
  <2> QED
    BY <2>1, EraseTyped
<1> QED
  BY <1>1, <1>2 DEF NextChunk
=============================================================================
