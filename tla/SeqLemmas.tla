------------------------------ MODULE SeqLemmas ------------------------------
(***************************************************************************)
(* Lemmas about the sequence operators the models keep lists with: what   *)
(* Append, Tail and RemoveFirst do to the injectivity and the range of a  *)
(* sequence.  The lists they model are linked lists of list items, which  *)
(* hold an item at most once.                                              *)
(***************************************************************************)
EXTENDS Sequences, Functions, SequencesExt, SequenceTheorems, TLAPS

\* Appending an element that is not yet in a sequence keeps it injective.
LEMMA AppendKeepsInjective ==
  ASSUME NEW S, NEW s \in Seq(S), NEW x \in S, IsInjective(s), x \notin Range(s)
  PROVE  IsInjective(Append(s, x))
<1>1. /\ Len(Append(s, x)) = Len(s) + 1
      /\ \A i \in 1..Len(s) : Append(s, x)[i] = s[i]
      /\ Append(s, x)[Len(s) + 1] = x
      /\ Append(s, x) \in Seq(S)
  BY AppendProperties
<1>2. \A i \in 1..Len(s) : s[i] # x
  <2>1. DOMAIN s = 1..Len(s)
    OBVIOUS
  <2>. QED  BY <2>1, Zenon DEF Range
<1>3. DOMAIN Append(s, x) = 1..(Len(s) + 1) /\ DOMAIN s = 1..Len(s)
  BY <1>1
<1>4. \A a, b \in 1..Len(s) : s[a] = s[b] => a = b
  BY <1>3, Zenon DEF IsInjective
<1>. QED  BY <1>1, <1>2, <1>3, <1>4 DEF IsInjective

\* Appending x adds exactly x to the range.
LEMMA AppendRange ==
  ASSUME NEW S, NEW s \in Seq(S), NEW x \in S
  PROVE  Range(Append(s, x)) = Range(s) \cup {x}
<1>1. /\ Len(Append(s, x)) = Len(s) + 1
      /\ \A i \in 1..Len(s) : Append(s, x)[i] = s[i]
      /\ Append(s, x)[Len(s) + 1] = x
      /\ Append(s, x) \in Seq(S)
  BY AppendProperties
<1>2. /\ Range(Append(s, x)) = {Append(s, x)[i] : i \in 1..(Len(s) + 1)}
      /\ Range(s) = {s[i] : i \in 1..Len(s)}
  BY <1>1, RangeEquality
<1>. QED  BY <1>1, <1>2

\* The tail of an injective sequence is injective and lacks only the head.
LEMMA TailInjective ==
  ASSUME NEW S, NEW s \in Seq(S), s # << >>, IsInjective(s)
  PROVE  /\ Tail(s) \in Seq(S)
         /\ IsInjective(Tail(s))
         /\ Range(Tail(s)) = Range(s) \ {Head(s)}
<1>1. /\ Head(s) \in S /\ Tail(s) \in Seq(S)
      /\ Len(Tail(s)) = Len(s) - 1
      /\ \A i \in 1..Len(Tail(s)) : Tail(s)[i] = s[i + 1]
  BY HeadTailProperties
<1>2. \A a, b \in 1..Len(s) : s[a] = s[b] => a = b
  <2>1. DOMAIN s = 1..Len(s)
    BY LenProperties
  <2>. QED  BY <2>1, Zenon DEF IsInjective
<1>3. Head(s) = s[1] /\ Len(s) \in Nat /\ Len(s) >= 1
  <2>1. Len(s) \in Nat \ {0}
    BY EmptySeq, Zenon
  <2>. QED  BY <2>1
<1>4. IsInjective(Tail(s))
  BY <1>1, <1>2, <1>3 DEF IsInjective
<1>5. /\ Range(Tail(s)) = {Tail(s)[i] : i \in 1..Len(Tail(s))}
      /\ Range(s) = {s[i] : i \in 1..Len(s)}
  BY <1>1, RangeEquality
<1>6. Range(Tail(s)) = Range(s) \ {Head(s)}
  <2>1. Range(Tail(s)) \subseteq Range(s) \ {Head(s)}
    <3>1. ASSUME NEW i \in 1..Len(Tail(s))
          PROVE  s[i + 1] \in Range(s) \ {Head(s)}
      BY <1>1, <1>2, <1>3, <1>5
    <3>. QED  BY <1>1, <1>5, <3>1
  <2>2. Range(s) \ {Head(s)} \subseteq Range(Tail(s))
    <3>1. ASSUME NEW i \in 1..Len(s), s[i] # Head(s)
          PROVE  s[i] \in Range(Tail(s))
      <4>1. i # 1 /\ i - 1 \in 1..Len(Tail(s))
        BY <1>1, <1>3, <3>1
      <4>2. Tail(s)[i - 1] = s[i]
        BY <1>1, <4>1
      <4>. QED  BY <1>5, <4>1, <4>2
    <3>. QED  BY <1>5, <3>1
  <2>. QED  BY <2>1, <2>2
<1>. QED  BY <1>1, <1>4, <1>6

\* RemoveAt(s, i) shifts the elements after position i down by one.
LEMMA RemoveAtProperties ==
  ASSUME NEW S, NEW s \in Seq(S), NEW i \in 1..Len(s)
  PROVE  /\ RemoveAt(s, i) \in Seq(S)
         /\ Len(RemoveAt(s, i)) = Len(s) - 1
         /\ \A j \in 1..(Len(s) - 1) :
              RemoveAt(s, i)[j] = IF j < i THEN s[j] ELSE s[j + 1]
<1>0. PICK a, b : a = SubSeq(s, 1, i - 1) /\ b = SubSeq(s, i + 1, Len(s))
  OBVIOUS
<1>1. Len(s) \in Nat /\ \A k \in 1..Len(s) : s[k] \in S
  BY LenProperties
<1>2. /\ a \in Seq(S) /\ Len(a) = i - 1
      /\ \A k \in 1..(i - 1) : a[k] = s[k]
  <2>1. \A k \in 1..(i - 1) : s[k] \in S
    BY <1>1
  <2>. QED  BY <1>0, <2>1, SubSeqProperties
<1>3. /\ b \in Seq(S) /\ Len(b) = Len(s) - i
      /\ \A k \in 1..(Len(s) - i) : b[k] = s[i + k]
  <2>1. \A k \in (i + 1)..Len(s) : s[k] \in S
    BY <1>1
  <2>2. /\ b \in Seq(S)
        /\ Len(b) = IF i + 1 <= Len(s) THEN Len(s) - (i + 1) + 1 ELSE 0
        /\ \A k \in 1..(Len(s) - (i + 1) + 1) : b[k] = s[(i + 1) + k - 1]
    BY <1>0, <2>1, SubSeqProperties
  <2>. QED  BY <1>1, <2>2
<1>4. /\ a \o b \in Seq(S)
      /\ Len(a \o b) = Len(a) + Len(b)
      /\ \A k \in 1..(Len(a) + Len(b)) :
           (a \o b)[k] = IF k <= Len(a) THEN a[k] ELSE b[k - Len(a)]
  BY <1>2, <1>3, ConcatProperties
<1>5. RemoveAt(s, i) = a \o b
  BY <1>0 DEF RemoveAt
<1>6. Len(a) + Len(b) = Len(s) - 1
  BY <1>1, <1>2, <1>3
<1>7. ASSUME NEW j \in 1..(Len(s) - 1)
      PROVE  (a \o b)[j] = IF j < i THEN s[j] ELSE s[j + 1]
  <2>1. j \in 1..(Len(a) + Len(b))
    BY <1>6
  <2>2. CASE j < i
    <3>1. j <= Len(a) /\ j \in 1..(i - 1)
      BY <1>2, <2>2
    <3>. QED  BY <1>2, <1>4, <2>1, <2>2, <3>1
  <2>3. CASE j >= i
    <3>1. ~(j <= Len(a)) /\ j - Len(a) \in 1..(Len(s) - i) /\ i + (j - Len(a)) = j + 1
      BY <1>1, <1>2, <2>3
    <3>2. (a \o b)[j] = b[j - Len(a)]
      BY <1>4, <2>1, <3>1
    <3>3. b[j - Len(a)] = s[i + (j - Len(a))]
      BY <1>3, <3>1
    <3>4. ~(j < i)
      BY <2>3
    <3>. QED  BY <3>1, <3>2, <3>3, <3>4
  <2>4. j < i \/ j >= i
    BY <1>1
  <2>. QED  BY <2>2, <2>3, <2>4
<1>. QED  BY <1>4, <1>5, <1>6, <1>7

\* RemoveFirst of an injective sequence removes the element, if present,
\* and keeps the sequence injective.
LEMMA RemoveFirstInjective ==
  ASSUME NEW S, NEW s \in Seq(S), NEW e, IsInjective(s)
  PROVE  /\ RemoveFirst(s, e) \in Seq(S)
         /\ IsInjective(RemoveFirst(s, e))
         /\ Range(RemoveFirst(s, e)) = Range(s) \ {e}
<1>1. /\ Len(s) \in Nat /\ DOMAIN s = 1..Len(s)
      /\ Range(s) = {s[k] : k \in 1..Len(s)}
  BY LenProperties, RangeEquality
<1>2. \A a, b \in 1..Len(s) : s[a] = s[b] => a = b
  BY <1>1, Zenon DEF IsInjective
<1>3. CASE \E k \in 1..Len(s) : s[k] = e
  <2>1. PICK i \in 1..Len(s) : s[i] = e
    BY <1>3
  <2>2. {k \in 1..Len(s) : s[k] = e} = {i}
    BY <1>2, <2>1
  <2>3. SelectInSeq(s, LAMBDA v : v = e) = i
    BY <2>2 DEF SelectInSeq, Min
  <2>4. RemoveFirst(s, e) = RemoveAt(s, i)
    BY <1>3, <2>3 DEF RemoveFirst
  <2> DEFINE r == RemoveAt(s, i)
  <2>5. /\ r \in Seq(S) /\ Len(r) = Len(s) - 1
        /\ \A j \in 1..(Len(s) - 1) : r[j] = IF j < i THEN s[j] ELSE s[j + 1]
    BY RemoveAtProperties
  <2>6. /\ DOMAIN r = 1..(Len(s) - 1)
        /\ Range(r) = {r[k] : k \in 1..(Len(s) - 1)}
    BY <2>5, LenProperties, RangeEquality
  <2>7. IsInjective(r)
    <3>1. \A j, k \in 1..(Len(s) - 1) : r[j] = r[k] => j = k
      BY <1>1, <1>2, <2>5
    <3>. QED  BY <2>6, <3>1, Zenon DEF IsInjective
  <2>8. Range(r) \subseteq Range(s) \ {e}
    <3>1. ASSUME NEW j \in 1..(Len(s) - 1) PROVE r[j] \in Range(s) \ {e}
      BY <1>1, <1>2, <2>1, <2>5
    <3>. QED  BY <2>6, <3>1
  <2>9. Range(s) \ {e} \subseteq Range(r)
    <3>1. ASSUME NEW k \in 1..Len(s), s[k] # e PROVE s[k] \in Range(r)
      <4>1. CASE k < i
        BY <1>1, <2>5, <2>6, <4>1
      <4>2. CASE k > i
        <5>1. k - 1 \in 1..(Len(s) - 1) /\ r[k - 1] = s[k]
          BY <1>1, <2>5, <4>2
        <5>. QED  BY <2>6, <5>1
      <4>. QED  BY <2>1, <3>1, <4>1, <4>2
    <3>. QED  BY <1>1, <3>1
  <2>. QED  BY <2>4, <2>5, <2>7, <2>8, <2>9
<1>4. CASE ~\E k \in 1..Len(s) : s[k] = e
  <2>1. RemoveFirst(s, e) = s
    BY <1>4 DEF RemoveFirst
  <2>2. e \notin Range(s)
    BY <1>1, <1>4
  <2>. QED  BY <2>1, <2>2
<1>. QED  BY <1>3, <1>4
=============================================================================
