--------------------------- MODULE SequenceLemmas ---------------------------
(***************************************************************************)
(* What the operations on sequences do to the set of elements, to a strict *)
(* order of the elements and to their being distinct.  The proofs about    *)
(* queues, buffers and logs cite these facts.                              *)
(***************************************************************************)
EXTENDS Integers, Sequences, SequencesExt, SequenceTheorems, TLAPS

\* The elements ascend.
Ascending(s) == \A i, j \in 1..Len(s) : i < j => s[i] < s[j]

\* No element occurs twice.
Distinct(s) == \A i, j \in 1..Len(s) : s[i] = s[j] => i = j

\* An element is in the set of elements iff it has an index.
LEMMA ToSetElements ==
    ASSUME NEW S, NEW s \in Seq(S)
    PROVE  /\ \A x : x \in ToSet(s) <=> \E i \in 1..Len(s) : s[i] = x
           /\ ToSet(s) \subseteq S
           /\ s = <<>> <=> ToSet(s) = {}
<1>1. DOMAIN s = 1..Len(s) /\ Len(s) \in Nat
  OBVIOUS
<1>2. \A x : x \in ToSet(s) <=> \E i \in 1..Len(s) : s[i] = x
  BY <1>1 DEF ToSet
<1>3. \A i \in 1..Len(s) : s[i] \in S
  BY ElementOfSeq
<1>4. s # <<>> => 1 \in 1..Len(s)
  BY EmptySeq
<1>5. s = <<>> => ToSet(s) = {}
  BY <1>1, EmptySeq DEF ToSet
<1> QED
  BY <1>2, <1>3, <1>4, <1>5

\* Append adds its element at the end.
LEMMA AppendElements ==
    ASSUME NEW S, NEW s \in Seq(S), NEW e \in S
    PROVE  /\ Append(s, e) \in Seq(S) /\ Len(Append(s, e)) = Len(s) + 1 /\ Append(s, e) # <<>>
           /\ ToSet(Append(s, e)) = ToSet(s) \cup {e}
           /\ Distinct(s) /\ e \notin ToSet(s) => Distinct(Append(s, e))
<1>1. Append(s, e) \in Seq(S) /\ Len(Append(s, e)) = Len(s) + 1 /\ Len(s) \in Nat
  OBVIOUS
<1>2. \A i \in 1..Len(s) : i \in 1..Len(Append(s, e)) /\ Append(s, e)[i] = s[i]
  OBVIOUS
<1>3. Len(s) + 1 \in 1..Len(Append(s, e)) /\ Append(s, e)[Len(s) + 1] = e
  OBVIOUS
<1>4. \A i \in 1..Len(Append(s, e)) : i \in 1..Len(s) \/ i = Len(s) + 1
  BY <1>1
<1>5. ToSet(Append(s, e)) = ToSet(s) \cup {e}
  <2>1. \A x : x \in ToSet(s) <=> \E i \in 1..Len(s) : s[i] = x
    BY ToSetElements
  <2>2. \A x : x \in ToSet(Append(s, e)) <=> \E i \in 1..Len(Append(s, e)) : (Append(s, e))[i] = x
    BY <1>1, ToSetElements
  <2> QED
    BY <1>2, <1>3, <1>4, <2>1, <2>2
<1>6. ASSUME Distinct(s), e \notin ToSet(s) PROVE Distinct(Append(s, e))
  <2>1. \A i \in 1..Len(s) : s[i] # e
    BY <1>6, ToSetElements
  <2> QED
    BY <1>2, <1>3, <1>4, <1>6, <2>1 DEF Distinct
<1>7. Append(s, e) # <<>>
  BY <1>1, EmptySeq
<1> QED
  BY <1>1, <1>5, <1>6, <1>7

\* Tail removes the head, and only that if the elements are distinct.
LEMMA TailElements ==
    ASSUME NEW S, NEW s \in Seq(S), s # <<>>
    PROVE  /\ Tail(s) \in Seq(S) /\ Len(Tail(s)) = Len(s) - 1 /\ Len(s) \in Nat \ {0}
           /\ Head(s) \in S /\ Head(s) \in ToSet(s)
           /\ ToSet(s) = ToSet(Tail(s)) \cup {Head(s)}
           /\ Distinct(s) => Head(s) \notin ToSet(Tail(s)) /\ Distinct(Tail(s))
<1>1. Tail(s) \in Seq(S) /\ Len(Tail(s)) = Len(s) - 1 /\ Len(s) \in Nat /\ Len(s) > 0
  OBVIOUS
<1>2. \A i \in 1..Len(Tail(s)) : i + 1 \in 1..Len(s) /\ Tail(s)[i] = s[i + 1]
  OBVIOUS
<1>3. 1 \in 1..Len(s) /\ s[1] = Head(s)
  BY <1>1
<1>4. \A i \in 1..Len(s) : i = 1 \/ (i - 1 \in 1..Len(Tail(s)) /\ Tail(s)[i - 1] = s[i])
  BY <1>1
<1>5. \A x : x \in ToSet(s) <=> \E i \in 1..Len(s) : s[i] = x
  BY ToSetElements
<1>6. \A x : x \in ToSet(Tail(s)) <=> \E i \in 1..Len(Tail(s)) : Tail(s)[i] = x
  BY <1>1, ToSetElements
<1>7. \A x \in ToSet(s) : x \in ToSet(Tail(s)) \cup {Head(s)}
  BY <1>3, <1>4, <1>5, <1>6
<1>8. \A x \in ToSet(Tail(s)) : x \in ToSet(s)
  BY <1>2, <1>5, <1>6
<1>9. Head(s) \in ToSet(s) /\ Head(s) \in S
  BY <1>3, <1>5, ElementOfSeq
<1>10. ASSUME Distinct(s) PROVE Head(s) \notin ToSet(Tail(s)) /\ Distinct(Tail(s))
  <2>1. \A i \in 1..Len(Tail(s)) : i + 1 # 1 /\ Tail(s)[i] # Head(s)
    BY <1>1, <1>2, <1>3, <1>10 DEF Distinct
  <2>2. Distinct(Tail(s))
    BY <1>1, <1>2, <1>10 DEF Distinct
  <2> QED
    BY <1>6, <2>1, <2>2
<1> QED
  BY <1>1, <1>7, <1>8, <1>9, <1>10

\* Taking one element out leaves the others, and takes it out if it occurs once.
LEMMA RemoveAtElements ==
    ASSUME NEW S, NEW s \in Seq(S), NEW i \in 1..Len(s), Distinct(s)
    PROVE  /\ RemoveAt(s, i) \in Seq(S) /\ Len(RemoveAt(s, i)) = Len(s) - 1
           /\ ToSet(RemoveAt(s, i)) = ToSet(s) \ {s[i]}
           /\ Distinct(RemoveAt(s, i))
<1> DEFINE p == SubSeq(s, 1, i - 1)
           q == SubSeq(s, i + 1, Len(s))
           r == RemoveAt(s, i)
<1>1. /\ p \in Seq(S) /\ Len(p) = i - 1 /\ \A j \in 1..(i - 1) : p[j] = s[j]
      /\ Len(s) \in Nat
  <2>1. p \in Seq(S) /\ Len(s) \in Nat
    OBVIOUS
  <2>2. Len(p) = i - 1
    OBVIOUS
  <2>3. \A j \in 1..(i - 1) : p[j] = s[j]
    OBVIOUS
  <2> QED
    BY <2>1, <2>2, <2>3
<1>2. /\ q \in Seq(S) /\ Len(q) = Len(s) - i /\ \A j \in 1..(Len(s) - i) : q[j] = s[i + j]
  <2>1. q \in Seq(S)
    OBVIOUS
  <2>2. Len(q) = Len(s) - i
    OBVIOUS
  <2>3. \A j \in 1..(Len(s) - i) : q[j] = s[i + j]
    OBVIOUS
  <2> QED
    BY <2>1, <2>2, <2>3
<1>3. r = p \o q
  BY DEF RemoveAt
<1> HIDE DEF p, q, r
<1>4. r \in Seq(S) /\ Len(r) = Len(s) - 1
  <2>1. r \in Seq(S) /\ Len(r) = Len(p) + Len(q)
    BY <1>1, <1>2, <1>3, ConcatProperties
  <2>2. (i - 1) + (Len(s) - i) = Len(s) - 1
    BY <1>1
  <2> QED
    BY <1>1, <1>2, <2>1, <2>2
<1>5. \A j \in 1..Len(r) :
        /\ j < i => j \in 1..Len(s) /\ r[j] = s[j]
        /\ j >= i => j + 1 \in 1..Len(s) /\ r[j] = s[j + 1]
  BY <1>1, <1>2, <1>3, <1>4, ConcatProperties
<1>6. /\ \A x : x \in ToSet(s) <=> \E j \in 1..Len(s) : s[j] = x
      /\ \A x : x \in ToSet(r) <=> \E j \in 1..Len(r) : r[j] = x
  BY <1>4, ToSetElements
<1>7. ASSUME NEW j \in 1..Len(s), j # i
      PROVE  s[j] # s[i] /\ \E k \in 1..Len(r) : r[k] = s[j]
  <2>1. s[j] # s[i]
    BY <1>7 DEF Distinct
  <2>2. CASE j < i
    BY <1>1, <1>4, <1>5, <2>1, <2>2
  <2>3. CASE j > i
    <3>1. j - 1 \in 1..Len(r) /\ j - 1 >= i /\ (j - 1) + 1 = j
      BY <1>1, <1>4, <2>3
    <3> QED
      BY <1>5, <2>1, <3>1
  <2> QED
    BY <1>7, <2>2, <2>3
<1>8. \A k \in 1..Len(r) : \E j \in 1..Len(s) : j # i /\ r[k] = s[j]
  <2> SUFFICES ASSUME NEW k \in 1..Len(r) PROVE \E j \in 1..Len(s) : j # i /\ r[k] = s[j]
    OBVIOUS
  <2>1. CASE k < i
    BY <1>5, <2>1
  <2>2. CASE k >= i
    <3>1. k + 1 \in 1..Len(s) /\ k + 1 # i /\ r[k] = s[k + 1]
      BY <1>4, <1>5, <2>2
    <3> QED
      BY <3>1
  <2> QED
    BY <1>4, <2>1, <2>2
<1>9. ToSet(r) = ToSet(s) \ {s[i]}
  <2>1. ASSUME NEW x \in ToSet(r) PROVE x \in ToSet(s) \ {s[i]}
    <3>1. PICK j \in 1..Len(s) : j # i /\ x = s[j]
      BY <1>6, <1>8, <2>1
    <3> QED
      BY <1>6, <1>7, <3>1
  <2>2. ASSUME NEW x \in ToSet(s), x # s[i] PROVE x \in ToSet(r)
    <3>1. PICK j \in 1..Len(s) : x = s[j]
      BY <1>6
    <3> QED
      BY <1>6, <1>7, <2>2, <3>1
  <2> QED
    BY <2>1, <2>2
<1>10. Distinct(r)
  <2> SUFFICES ASSUME NEW j \in 1..Len(r), NEW k \in 1..Len(r), r[j] = r[k] PROVE j = k
    BY DEF Distinct
  <2>1. \A m, n \in 1..Len(s) : s[m] = s[n] => m = n
    BY DEF Distinct
  <2>2. CASE j < i /\ k < i
    BY <1>5, <2>1, <2>2
  <2>3. CASE j >= i /\ k >= i
    <3>1. j + 1 = k + 1
      BY <1>5, <2>1, <2>3
    <3> QED
      BY <1>4, <3>1
  <2>4. CASE j < i /\ k >= i
    <3>1. j = k + 1
      BY <1>5, <2>1, <2>4
    <3> QED
      BY <1>4, <2>4, <3>1
  <2>5. CASE j >= i /\ k < i
    <3>1. j + 1 = k
      BY <1>5, <2>1, <2>5
    <3> QED
      BY <1>4, <2>5, <3>1
  <2> QED
    BY <1>4, <2>2, <2>3, <2>4, <2>5
<1> QED
  BY <1>4, <1>9, <1>10 DEF r

\* A concatenation has the elements of both parts.
LEMMA ConcatElements ==
    ASSUME NEW S, NEW s \in Seq(S), NEW t \in Seq(S)
    PROVE  /\ s \o t \in Seq(S)
           /\ ToSet(s \o t) = ToSet(s) \cup ToSet(t)
<1> DEFINE u == s \o t
<1>1. u \in Seq(S) /\ Len(u) = Len(s) + Len(t) /\ Len(s) \in Nat /\ Len(t) \in Nat
  OBVIOUS
<1>2. \A i \in 1..Len(s) : i \in 1..Len(u) /\ u[i] = s[i]
  BY <1>1
<1>3. \A i \in 1..Len(t) : Len(s) + i \in 1..Len(u) /\ u[Len(s) + i] = t[i]
  BY <1>1
<1>4. \A i \in 1..Len(u) : i \in 1..Len(s) \/ (i - Len(s) \in 1..Len(t) /\ u[i] = t[i - Len(s)])
  BY <1>1
<1> HIDE DEF u
<1>5. /\ \A x : x \in ToSet(s) <=> \E i \in 1..Len(s) : s[i] = x
      /\ \A x : x \in ToSet(t) <=> \E i \in 1..Len(t) : t[i] = x
      /\ \A x : x \in ToSet(u) <=> \E i \in 1..Len(u) : u[i] = x
  BY <1>1, ToSetElements
<1>6. ToSet(u) \subseteq ToSet(s) \cup ToSet(t)
  BY <1>2, <1>4, <1>5
<1>7. ToSet(s) \subseteq ToSet(u) /\ ToSet(t) \subseteq ToSet(u)
  BY <1>2, <1>3, <1>5
<1> QED
  BY <1>1, <1>6, <1>7 DEF u

\* A concatenation ascends iff both parts do and the first is below the second.
LEMMA AscendingConcat ==
    ASSUME NEW s \in Seq(Int), NEW t \in Seq(Int)
    PROVE  Ascending(s \o t) <=>
             /\ Ascending(s) /\ Ascending(t)
             /\ \A x \in ToSet(s), y \in ToSet(t) : x < y
<1> DEFINE u == s \o t
<1>1. u \in Seq(Int) /\ Len(u) = Len(s) + Len(t) /\ Len(s) \in Nat /\ Len(t) \in Nat
  OBVIOUS
<1>2. \A i \in 1..Len(s) : i \in 1..Len(u) /\ u[i] = s[i]
  BY <1>1
<1>3. \A i \in 1..Len(t) : Len(s) + i \in 1..Len(u) /\ u[Len(s) + i] = t[i]
  BY <1>1
<1>4. \A i \in 1..Len(u) : i \in 1..Len(s) \/ (i - Len(s) \in 1..Len(t) /\ u[i] = t[i - Len(s)])
  BY <1>1
<1> HIDE DEF u
<1>5. ASSUME Ascending(u)
      PROVE  /\ Ascending(s) /\ Ascending(t)
             /\ \A i \in 1..Len(s), j \in 1..Len(t) : s[i] < t[j]
  <2>1. \A i, j \in 1..Len(s) : i < j => s[i] < s[j]
    BY <1>2, <1>5 DEF Ascending
  <2>2. ASSUME NEW i \in 1..Len(t), NEW j \in 1..Len(t), i < j PROVE t[i] < t[j]
    <3>1. Len(s) + i < Len(s) + j
      BY <1>1, <2>2
    <3> QED
      BY <1>3, <1>5, <3>1 DEF Ascending
  <2>3. ASSUME NEW i \in 1..Len(s), NEW j \in 1..Len(t) PROVE s[i] < t[j]
    <3>1. i < Len(s) + j
      BY <1>1
    <3> QED
      BY <1>2, <1>3, <1>5, <3>1 DEF Ascending
  <2> QED
    BY <2>1, <2>2, <2>3 DEF Ascending
<1>6. ASSUME Ascending(s), Ascending(t), \A i \in 1..Len(s), j \in 1..Len(t) : s[i] < t[j],
             NEW i \in 1..Len(u), NEW j \in 1..Len(u), i < j
      PROVE  u[i] < u[j]
  <2>1. CASE i \in 1..Len(s) /\ j \in 1..Len(s)
    BY <1>2, <1>6, <2>1 DEF Ascending
  <2>2. CASE i \in 1..Len(s) /\ j \notin 1..Len(s)
    BY <1>2, <1>4, <1>6, <2>2
  <2>3. CASE i \notin 1..Len(s)
    <3>1. j \notin 1..Len(s) /\ i - Len(s) < j - Len(s)
      BY <1>1, <1>6, <2>3
    <3>2. i - Len(s) \in 1..Len(t) /\ u[i] = t[i - Len(s)]
      BY <1>4, <2>3
    <3>3. j - Len(s) \in 1..Len(t) /\ u[j] = t[j - Len(s)]
      BY <1>4, <3>1
    <3> QED
      BY <1>6, <3>1, <3>2, <3>3 DEF Ascending
  <2> QED
    BY <2>1, <2>2, <2>3
<1>7. /\ \A x : x \in ToSet(s) <=> \E i \in 1..Len(s) : s[i] = x
      /\ \A x : x \in ToSet(t) <=> \E i \in 1..Len(t) : t[i] = x
  BY ToSetElements
<1>8. (\A x \in ToSet(s), y \in ToSet(t) : x < y)
      => \A i \in 1..Len(s), j \in 1..Len(t) : s[i] < t[j]
  BY <1>7
<1>9. (\A i \in 1..Len(s), j \in 1..Len(t) : s[i] < t[j])
      => \A x \in ToSet(s), y \in ToSet(t) : x < y
  BY <1>7
<1> QED
  BY <1>5, <1>6, <1>8, <1>9 DEF u, Ascending

\* Appending a larger element to, or taking the head from, what ascends.
LEMMA AscendingEnds ==
    ASSUME NEW s \in Seq(Int), Ascending(s)
    PROVE  /\ \A e \in Int : (\A x \in ToSet(s) : x < e) => Ascending(Append(s, e))
           /\ s # <<>> => Ascending(Tail(s)) /\ \A x \in ToSet(Tail(s)) : Head(s) < x
<1>1. ASSUME NEW e \in Int, \A x \in ToSet(s) : x < e PROVE Ascending(Append(s, e))
  <2>1. \A i \in 1..Len(s) : s[i] < e
    BY <1>1, ToSetElements
  <2> QED
    BY <2>1 DEF Ascending
<1>2. ASSUME s # <<>> PROVE Ascending(Tail(s)) /\ \A x \in ToSet(Tail(s)) : Head(s) < x
  <2>1. /\ Tail(s) \in Seq(Int) /\ 1 \in 1..Len(s) /\ s[1] = Head(s)
        /\ \A i \in 1..Len(Tail(s)) : i + 1 \in 1..Len(s) /\ Tail(s)[i] = s[i + 1] /\ 1 < i + 1
    BY <1>2
  <2>2. Ascending(Tail(s))
    BY <1>2 DEF Ascending
  <2>3. \A i \in 1..Len(Tail(s)) : Head(s) < Tail(s)[i]
    BY <2>1 DEF Ascending
  <2>4. \A x : x \in ToSet(Tail(s)) <=> \E i \in 1..Len(Tail(s)) : Tail(s)[i] = x
    BY <2>1, ToSetElements
  <2> QED
    BY <2>2, <2>3, <2>4
<1> QED
  BY <1>1, <1>2

\* A suffix has no elements of its own.
LEMMA SuffixElements ==
    ASSUME NEW S, NEW s \in Seq(S), NEW k \in Nat \ {0}
    PROVE  SubSeq(s, k, Len(s)) \in Seq(S) /\ ToSet(SubSeq(s, k, Len(s))) \subseteq ToSet(s)
<1> DEFINE q == SubSeq(s, k, Len(s))
<1>1. Len(s) \in Nat /\ k \in Int /\ \A i \in k..Len(s) : i \in 1..Len(s) /\ s[i] \in S
  BY ElementOfSeq
<1>2. /\ q \in Seq(S) /\ Len(q) = IF k <= Len(s) THEN Len(s) - k + 1 ELSE 0
      /\ \A i \in 1..(Len(s) - k + 1) : q[i] = s[k + i - 1]
  BY <1>1, SubSeqProperties
<1> HIDE DEF q
<1>3. \A i \in 1..Len(q) : q[i] = s[k + i - 1] /\ k + i - 1 \in 1..Len(s)
  BY <1>1, <1>2
<1>4. ASSUME NEW x \in ToSet(q) PROVE x \in ToSet(s)
  <2>1. PICK i \in 1..Len(q) : q[i] = x
    BY <1>2, ToSetElements
  <2>2. s[k + i - 1] = x /\ k + i - 1 \in 1..Len(s)
    BY <1>3, <2>1
  <2> QED
    BY <2>2, ToSetElements
<1> QED
  BY <1>2, <1>4 DEF q
=============================================================================
