--------------------------- MODULE SequenceLemmas ---------------------------
(* What the sequence operators of the queues and scopes return. *)
EXTENDS Naturals, Sequences, SequencesExt, SequenceTheorems, WellFoundedInduction, TLAPS

\* An element of a sequence's range is at one of its positions.
LEMMA RangeIndex ==
    ASSUME NEW S, NEW s \in Seq(S), NEW x
    PROVE  x \in Range(s) <=> \E i \in 1..Len(s) : s[i] = x
BY DEF Range

\* Appending adds one element.
LEMMA AppendRange ==
    ASSUME NEW S, NEW s \in Seq(S), NEW x \in S
    PROVE  Range(Append(s, x)) = Range(s) \cup {x}
<1>1. /\ Append(s, x) \in Seq(S) /\ Len(Append(s, x)) = Len(s) + 1 /\ Len(s) \in Nat
      /\ Append(s, x)[Len(s) + 1] = x /\ \A i \in 1..Len(s) : Append(s, x)[i] = s[i]
  OBVIOUS
<1>2. \A i \in 1..(Len(s) + 1) : i = Len(s) + 1 \/ i \in 1..Len(s)
  BY <1>1
<1> DEFINE t == Append(s, x)
<1>3. t \in Seq(S) /\ Len(t) = Len(s) + 1 /\ t[Len(s) + 1] = x /\ \A i \in 1..Len(s) : t[i] = s[i]
  BY <1>1
<1> HIDE DEF t
<1>4. ASSUME NEW i \in 1..Len(t) PROVE t[i] \in Range(s) \cup {x}
  <2>1. i = Len(s) + 1 \/ i \in 1..Len(s)
    BY <1>1, <1>2, <1>3
  <2>2. QED
    BY <1>3, <2>1, RangeIndex
<1>5. x \in Range(t)
  <2>1. Len(s) + 1 \in 1..Len(t)
    BY <1>1, <1>3
  <2>2. QED
    BY <1>3, <2>1, RangeIndex
<1>6. ASSUME NEW i \in 1..Len(s) PROVE s[i] \in Range(t)
  <2>1. i \in 1..Len(t) /\ t[i] = s[i]
    BY <1>1, <1>3
  <2>2. QED
    BY <1>3, <2>1, RangeIndex
<1>7. Range(t) = Range(s) \cup {x}
  <2>1. \A y : y \in Range(t) => \E i \in 1..Len(t) : t[i] = y
    BY <1>3, RangeIndex
  <2>2. \A y : y \in Range(s) => \E i \in 1..Len(s) : s[i] = y
    BY RangeIndex
  <2>3. Range(t) \subseteq Range(s) \cup {x}
    BY <1>4, <2>1
  <2>4. Range(s) \cup {x} \subseteq Range(t)
    BY <1>5, <1>6, <2>2
  <2>5. QED
    BY <2>3, <2>4
<1>8. QED
  BY <1>7 DEF t

\* The part of a sequence from position m to position n.
LEMMA SubSeqOfSeq ==
    ASSUME NEW S, NEW s \in Seq(S), NEW m \in Nat \ {0}, NEW n \in Nat,
           m <= n + 1, n <= Len(s)
    PROVE  /\ SubSeq(s, m, n) \in Seq(S)
           /\ Len(SubSeq(s, m, n)) = n - m + 1
           /\ \A i \in 1..(n - m + 1) : SubSeq(s, m, n)[i] = s[m + i - 1]
<1>1. \A i \in m..n : s[i] \in S
  OBVIOUS
<1>2. m \in Int /\ n \in Int
  OBVIOUS
<1>3. /\ SubSeq(s, m, n) \in Seq(S)
      /\ Len(SubSeq(s, m, n)) = IF m <= n THEN n - m + 1 ELSE 0
      /\ \A i \in 1..(n - m + 1) : SubSeq(s, m, n)[i] = s[m + i - 1]
  BY <1>1, <1>2, SubSeqProperties
<1>4. QED
  BY <1>3

\* Front drops the last scope and keeps the others.
LEMMA FrontOfSeq ==
    ASSUME NEW S, NEW s \in Seq(S), s # <<>>
    PROVE  /\ Front(s) \in Seq(S)
           /\ Len(Front(s)) = Len(s) - 1
           /\ \A i \in 1..Len(Front(s)) : Front(s)[i] = s[i]
           /\ Last(s) = s[Len(s)]
           /\ Len(s) \in Nat \ {0}
<1> DEFINE n == Len(s) - 1
<1>1. Len(s) \in Nat \ {0}
  OBVIOUS
<1>2. 1 \in Nat \ {0} /\ n \in Nat /\ 1 <= n + 1 /\ n <= Len(s)
  BY <1>1
<1>3. n - 1 + 1 = n /\ \A i \in 1..n : 1 + i - 1 = i
  BY <1>2
<1> HIDE DEF n
<1>4. /\ SubSeq(s, 1, n) \in Seq(S)
      /\ Len(SubSeq(s, 1, n)) = n
      /\ \A i \in 1..n : SubSeq(s, 1, n)[i] = s[i]
  BY <1>2, <1>3, SubSeqOfSeq
<1>5. QED
  BY <1>1, <1>4 DEF Front, Last, n

\* Removing one position of a sequence keeps the elements before it and
\* shifts those behind it.
LEMMA RemoveAtOfSeq ==
    ASSUME NEW S, NEW s \in Seq(S), NEW i \in 1..Len(s)
    PROVE  /\ RemoveAt(s, i) \in Seq(S)
           /\ Len(RemoveAt(s, i)) = Len(s) - 1
           /\ \A j \in 1..(Len(s) - 1) :
                 RemoveAt(s, i)[j] = IF j < i THEN s[j] ELSE s[j + 1]
<1> DEFINE a == SubSeq(s, 1, i - 1)
           b == SubSeq(s, i + 1, Len(s))
<1>1. Len(s) \in Nat /\ \A k \in 1..Len(s) : s[k] \in S
  OBVIOUS
<1>2. /\ a \in Seq(S) /\ Len(a) = i - 1
      /\ \A k \in 1..(i - 1) : a[k] = s[k]
  BY <1>1, SubSeqOfSeq
<1>3. /\ b \in Seq(S) /\ Len(b) = Len(s) - i
      /\ \A k \in 1..(Len(s) - i) : b[k] = s[i + k]
  BY <1>1, SubSeqOfSeq
<1>4. RemoveAt(s, i) = a \o b
  BY DEF RemoveAt
<1> HIDE DEF a, b
<1>5. /\ a \o b \in Seq(S) /\ Len(a \o b) = Len(a) + Len(b)
      /\ \A k \in 1..(Len(a) + Len(b)) :
            (a \o b)[k] = IF k <= Len(a) THEN a[k] ELSE b[k - Len(a)]
  BY <1>2, <1>3, ConcatProperties
<1>6. Len(a) + Len(b) = Len(s) - 1
  BY <1>1, <1>2, <1>3
<1>7. ASSUME NEW j \in 1..(Len(s) - 1)
      PROVE  (a \o b)[j] = IF j < i THEN s[j] ELSE s[j + 1]
  <2>1. CASE j < i
    BY <1>1, <1>2, <1>5, <1>6, <2>1
  <2>2. CASE ~(j < i)
    <3>1. ~(j <= Len(a)) /\ j - Len(a) \in 1..(Len(s) - i)
          /\ i + (j - Len(a)) = j + 1
      BY <1>1, <1>2, <2>2
    <3>2. (a \o b)[j] = b[j - Len(a)]
      BY <1>5, <1>6, <3>1
    <3>3. b[j - Len(a)] = s[i + (j - Len(a))]
      BY <1>3, <3>1
    <3>4. QED
      BY <2>2, <3>1, <3>2, <3>3
  <2>3. QED
    BY <2>1, <2>2
<1>8. QED
  BY <1>4, <1>5, <1>6, <1>7

\* Tail shifts every element but the first one place down.
LEMMA TailOfSeq ==
    ASSUME NEW S, NEW s \in Seq(S), s # <<>>
    PROVE  /\ Tail(s) \in Seq(S)
           /\ Len(Tail(s)) = Len(s) - 1
           /\ Head(s) = s[1] /\ Head(s) \in S
           /\ \A j \in 1..(Len(s) - 1) : Tail(s)[j] = s[j + 1]
OBVIOUS

\* The pairs of numbers of which the first is less.
Less == {ss \in Nat \X Nat : ss[1] < ss[2]}

\* A set of numbers has a least element.
LEMMA Least ==
    ASSUME NEW T \in SUBSET Nat, T # {}
    PROVE  \E m \in T : \A n \in T : m <= n
<1>1. IsWellFoundedOn(Less, Nat)
  BY NatLessThanWellFounded DEF OpToRel, Less
<1>2. PICK m \in T : \A n \in T : <<n, m>> \notin Less
  BY <1>1, WFMin
<1>3. \A k, n \in Nat : k < n => <<k, n>> \in Less
  BY DEF Less
<1>4. ASSUME NEW n \in T PROVE m <= n
  <2>1. ~ (n < m)
    BY <1>2, <1>3
  <2> QED
    BY <2>1
<1> QED
  BY <1>4

\* RemoveFirst of what is not there changes nothing.
LEMMA RemoveFirstAbsent ==
    ASSUME NEW S, NEW s \in Seq(S), NEW x, x \notin Range(s)
    PROVE  RemoveFirst(s, x) = s
<1>1. ~ \E i \in 1..Len(s) : s[i] = x
  BY RangeIndex
<1>2. QED
  BY <1>1 DEF RemoveFirst

\* RemoveFirst removes one place where the element is.
LEMMA RemoveFirstOfSeq ==
    ASSUME NEW S, NEW s \in Seq(S), NEW x, \E i \in 1..Len(s) : s[i] = x
    PROVE  \E i \in 1..Len(s) : s[i] = x /\ RemoveFirst(s, x) = RemoveAt(s, i)
<1> DEFINE I == {i \in 1..Len(s) : s[i] = x}
           k == SelectInSeq(s, LAMBDA v : v = x)
<1>1. Len(s) \in Nat /\ I \in SUBSET Nat /\ I # {}
  OBVIOUS
<1>2. k = Min(I)
  BY <1>1 DEF SelectInSeq
<1>3. RemoveFirst(s, x) = RemoveAt(s, k)
  BY DEF RemoveFirst
<1> HIDE DEF I
<1>4. \E m \in I : \A n \in I : m <= n
  BY <1>1, Least
<1>5. Min(I) \in I
  BY <1>4 DEF Min
<1>6. QED
  BY <1>2, <1>3, <1>5 DEF I

\* What is behind the first c of a sequence.
LEMMA SuffixOfSeq ==
    ASSUME NEW S, NEW s \in Seq(S), NEW c \in Nat, c <= Len(s)
    PROVE  /\ SubSeq(s, c + 1, Len(s)) \in Seq(S)
           /\ Len(SubSeq(s, c + 1, Len(s))) = Len(s) - c
           /\ \A i \in 1 .. Len(s) - c : SubSeq(s, c + 1, Len(s))[i] = s[c + i]
<1> DEFINE n == Len(s)
           m == c + 1
<1>1. n \in Nat /\ m \in Nat \ {0} /\ m <= n + 1 /\ n <= Len(s)
      /\ n - m + 1 = n - c /\ \A i \in 1 .. n - c : m + i - 1 = c + i
  OBVIOUS
<1> HIDE DEF n, m
<1>2. /\ SubSeq(s, m, n) \in Seq(S) /\ Len(SubSeq(s, m, n)) = n - m + 1
      /\ \A i \in 1 .. n - m + 1 : SubSeq(s, m, n)[i] = s[m + i - 1]
  BY <1>1, SubSeqOfSeq
<1>3. QED
  BY <1>1, <1>2 DEF n, m

\* Of two sequences in a row, the first keeps its places.
LEMMA Joined ==
    ASSUME NEW S, NEW s \in Seq(S), NEW t \in Seq(S)
    PROVE  /\ s \o t \in Seq(S) /\ Len(s \o t) = Len(s) + Len(t)
           /\ \A i \in 1 .. Len(s) : (s \o t)[i] = s[i]
           /\ \A i \in 1 .. Len(t) : (s \o t)[Len(s) + i] = t[i]
OBVIOUS

\* What is appended to the second of two sequences in a row comes last.
LEMMA JoinedAppend ==
    ASSUME NEW S, NEW s \in Seq(S), NEW t \in Seq(S), NEW x \in S
    PROVE  /\ Len(s \o Append(t, x)) = Len(s \o t) + 1
           /\ (s \o Append(t, x))[Len(s \o t) + 1] = x
           /\ \A i \in 1 .. Len(s \o t) : (s \o Append(t, x))[i] = (s \o t)[i]
<1> DEFINE a == Len(s)
           b == Len(t)
           u == Append(t, x)
<1>1. a \in Nat /\ b \in Nat /\ u \in Seq(S) /\ Len(u) = b + 1 /\ u[b + 1] = x
      /\ \A i \in 1 .. b : u[i] = t[i]
  OBVIOUS
<1> HIDE DEF u
<1>2. /\ Len(s \o u) = a + (b + 1) /\ Len(s \o t) = a + b
      /\ \A i \in 1 .. a : (s \o u)[i] = s[i] /\ (s \o t)[i] = s[i]
      /\ \A i \in 1 .. b + 1 : (s \o u)[a + i] = u[i]
      /\ \A i \in 1 .. b : (s \o t)[a + i] = t[i]
  <2>1. /\ Len(s \o u) = Len(s) + Len(u) /\ \A i \in 1 .. Len(s) : (s \o u)[i] = s[i]
        /\ \A i \in 1 .. Len(u) : (s \o u)[Len(s) + i] = u[i]
    <3>1. u \in Seq(S)
      BY <1>1
    <3>2. QED
      BY <3>1
  <2>2. /\ Len(s \o t) = Len(s) + Len(t) /\ \A i \in 1 .. Len(s) : (s \o t)[i] = s[i]
        /\ \A i \in 1 .. Len(t) : (s \o t)[Len(s) + i] = t[i]
    BY Joined
  <2>3. QED
    BY <1>1, <2>1, <2>2
<1> HIDE DEF a, b
<1>3. \A i \in 1 .. a + b : i \in 1 .. a \/ (i - a \in 1 .. b /\ i - a \in 1 .. b + 1 /\ i = a + (i - a))
  BY <1>1
<1>4. a + (b + 1) = (a + b) + 1 /\ b + 1 \in 1 .. b + 1
  BY <1>1
<1>5. (s \o u)[(a + b) + 1] = x
  BY <1>1, <1>2, <1>4
<1>6. \A i \in 1 .. a + b : (s \o u)[i] = (s \o t)[i]
  BY <1>1, <1>2, <1>3
<1>7. QED
  BY <1>2, <1>4, <1>5, <1>6 DEF u

\* Of two sequences in a row, the first of the second goes to the end of the first,
\* or is lost.
LEMMA HeadMoves ==
    ASSUME NEW S, NEW s \in Seq(S), NEW t \in Seq(S), t # <<>>
    PROVE  /\ (s \o <<Head(t)>>) \o Tail(t) = s \o t
           /\ \E f \in [1 .. Len(s \o Tail(t)) -> 1 .. Len(s \o t)] :
                /\ \A i \in 1 .. Len(s \o Tail(t)) : (s \o Tail(t))[i] = (s \o t)[f[i]]
                /\ \A i, j \in 1 .. Len(s \o Tail(t)) : i < j => f[i] < f[j]
<1> DEFINE a == Len(s)
           b == Len(t)
           u == Tail(t)
           f == [i \in 1 .. Len(s \o u) |-> IF i <= a THEN i ELSE i + 1]
<1>1. /\ u \in Seq(S) /\ Len(u) = b - 1 /\ Head(t) = t[1] /\ Head(t) \in S
      /\ \A i \in 1 .. b - 1 : u[i] = t[i + 1]
  BY TailOfSeq
<1>2. a \in Nat /\ b \in Nat \ {0}
  OBVIOUS
<1> HIDE DEF u
<1>3. /\ Len(s \o t) = a + b /\ \A i \in 1 .. a : (s \o t)[i] = s[i]
      /\ \A i \in 1 .. b : (s \o t)[a + i] = t[i]
  OBVIOUS
<1>4. /\ Len(s \o u) = a + (b - 1) /\ \A i \in 1 .. a : (s \o u)[i] = s[i]
      /\ \A i \in 1 .. b - 1 : (s \o u)[a + i] = u[i]
  <2>1. u \in Seq(S)
    BY <1>1
  <2>2. /\ Len(s \o u) = a + Len(u) /\ \A i \in 1 .. a : (s \o u)[i] = s[i]
        /\ \A i \in 1 .. Len(u) : (s \o u)[a + i] = u[i]
    BY <2>1
  <2>3. QED
    BY <1>1, <2>2
<1> HIDE DEF a, b
<1>5. \A i \in 1 .. a + (b - 1) :
         IF i <= a THEN i \in 1 .. a /\ i \in 1 .. a + b
         ELSE /\ i - a \in 1 .. b - 1 /\ i = a + (i - a) /\ i + 1 \in 1 .. a + b
              /\ (i - a) + 1 \in 1 .. b /\ i + 1 = a + ((i - a) + 1)
  BY <1>2
<1>6. f \in [1 .. Len(s \o u) -> 1 .. Len(s \o t)]
  BY <1>3, <1>4, <1>5
<1>7. ASSUME NEW i \in 1 .. Len(s \o u) PROVE (s \o u)[i] = (s \o t)[f[i]]
  <2>1. i \in 1 .. a + (b - 1) /\ f[i] = IF i <= a THEN i ELSE i + 1
    BY <1>4
  <2>2. CASE i <= a
    BY <1>3, <1>4, <1>5, <2>1, <2>2
  <2>3. CASE ~(i <= a)
    <3>1. (s \o u)[i] = u[i - a]
      BY <1>4, <1>5, <2>1, <2>3
    <3>2. (s \o t)[i + 1] = t[(i - a) + 1]
      BY <1>3, <1>5, <2>1, <2>3
    <3>3. QED
      BY <1>1, <1>5, <2>1, <2>3, <3>1, <3>2
  <2>4. QED
    BY <2>2, <2>3
<1>8. \A i, j \in 1 .. Len(s \o u) : i < j => f[i] < f[j]
  <2>1. \A x, y \in Int : x < y =>
          (IF x <= a THEN x ELSE x + 1) < (IF y <= a THEN y ELSE y + 1)
    BY <1>2
  <2>2. QED
    BY <1>2, <1>4, <2>1
<1>9. (s \o <<Head(t)>>) \o u = s \o t
  BY <1>1 DEF u
<1> HIDE DEF f
<1>10. QED
  BY <1>6, <1>7, <1>8, <1>9 DEF u

----------------------------------------------------------------------------
(* What is made round by round, and what has every element once.            *)

\* From a, n rounds of g are made in the set X.
Repeats(X, a, n, g) == a \in X /\ n \in Nat /\ g \in [X \X (1 .. n) -> X]

\* f has what comes out of each round.
Comes(X, a, n, g, f) ==
    f \in [0 .. n -> X] /\ f[0] = a /\ \A i \in 1 .. n : f[i] = g[<<f[i - 1], i>>]

\* A function that is made round by round exists.
LEMMA Rounds ==
    ASSUME NEW X, NEW a, NEW n, NEW g, Repeats(X, a, n, g)
    PROVE  \E f : Comes(X, a, n, g, f)
<1> USE DEF Repeats, Comes
<1> DEFINE Upto(k, f) == f \in [0 .. k -> X] /\ f[0] = a
                         /\ \A i \in 1 .. k : f[i] = g[<<f[i - 1], i>>]
           Bad == {k \in 0 .. n : ~ \E f : Upto(k, f)}
<1>1. SUFFICES ASSUME Bad # {} PROVE FALSE
  <2>1. n \notin Bad
    BY <1>1
  <2>2. \E f : Upto(n, f)
    BY <2>1
  <2>3. QED
    BY <2>2
<1>2. Bad \in SUBSET Nat
  OBVIOUS
<1>3. PICK m \in Bad : \A k \in Bad : m <= k
  BY <1>1, <1>2, Least
<1>4. m \in 0 .. n
  OBVIOUS
<1>5. ~ \E f : Upto(m, f)
  OBVIOUS
<1> HIDE DEF Bad
<1>6. CASE m = 0
  <2>1. Upto(m, [i \in 0 .. 0 |-> a])
    BY <1>6
  <2>2. QED
    BY <1>5, <2>1
<1>7. CASE m # 0
  <2>1. m - 1 \in 0 .. n /\ ~(m <= m - 1) /\ m \in 1 .. n
    BY <1>4, <1>7
  <2>2. m - 1 \notin Bad
    BY <1>3, <2>1
  <2>3. PICK f : Upto(m - 1, f)
    BY <2>1, <2>2 DEF Bad
  <2> DEFINE b == g[<<f[m - 1], m>>]
             h2 == [i \in 0 .. m |-> IF i = m THEN b ELSE f[i]]
  <2>4. b \in X
    <3>1. f[m - 1] \in X
      BY <2>1, <2>3
    <3>2. <<f[m - 1], m>> \in X \X (1 .. n)
      BY <2>1, <3>1
    <3>3. QED
      BY <3>2
  <2>5. \A i \in 0 .. m : i = m \/ i \in 0 .. m - 1
    BY <1>4
  <2>6. h2 \in [0 .. m -> X] /\ h2[0] = a
    BY <1>7, <1>4, <2>3, <2>4, <2>5
  <2>7. ASSUME NEW i \in 1 .. m PROVE h2[i] = g[<<h2[i - 1], i>>]
    <3>1. i \in 0 .. m /\ i - 1 \in 0 .. m /\ i - 1 # m /\ m \in 0 .. m
      BY <1>4
    <3>2. h2[i - 1] = f[i - 1]
      BY <3>1
    <3>3. CASE i = m
      BY <3>1, <3>2, <3>3
    <3>4. CASE i # m
      <4>1. i \in 1 .. m - 1
        BY <1>4, <3>4
      <4>2. f[i] = g[<<f[i - 1], i>>]
        BY <2>3, <4>1
      <4>3. h2[i] = f[i]
        BY <3>1, <3>4
      <4>4. QED
        BY <3>2, <4>2, <4>3
    <3>5. QED
      BY <3>3, <3>4
  <2> HIDE DEF h2
  <2>8. Upto(m, h2)
    BY <2>6, <2>7
  <2>9. QED
    BY <1>5, <2>8
<1>8. QED
  BY <1>6, <1>7

\* What holds before the first round and after a round if it holds before it,
\* holds after every round.
LEMMA EveryRound ==
    ASSUME NEW n \in Nat, NEW B, 0 \in B, \A i \in 1 .. n : i - 1 \in B => i \in B
    PROVE  \A i \in 0 .. n : i \in B
<1> DEFINE Bad == {k \in 0 .. n : k \notin B}
<1>1. SUFFICES ASSUME Bad # {} PROVE FALSE
  OBVIOUS
<1>2. Bad \in SUBSET Nat
  OBVIOUS
<1>3. PICK m \in Bad : \A k \in Bad : m <= k
  BY <1>1, <1>2, Least
<1>4. m \in 0 .. n /\ m \notin B /\ m # 0
  OBVIOUS
<1>5. m - 1 \in 0 .. n /\ ~(m <= m - 1) /\ m \in 1 .. n
  BY <1>4
<1>6. m - 1 \in B
  BY <1>3, <1>5
<1>7. QED
  BY <1>4, <1>5, <1>6

\* A function that begins in a set and does not leave it is one into the set.
LEMMA StaysIn ==
    ASSUME NEW X, NEW n \in Nat, NEW F, F[0] \in X,
           \A i \in 1 .. n : F[i - 1] \in X => F[i] \in X
    PROVE  \A i \in 0 .. n : F[i] \in X
<1> DEFINE B == {k \in 0 .. n : F[k] \in X}
<1>1. 0 \in B /\ \A i \in 1 .. n : i - 1 \in B => i \in B
  OBVIOUS
<1> HIDE DEF B
<1>2. \A i \in 0 .. n : i \in B
  BY <1>1, EveryRound
<1>3. QED
  BY <1>2 DEF B

\* No two places of a sequence have the same element.
Distinct(s) == \A i, j \in 1 .. Len(s) : s[i] = s[j] => i = j

\* What is new may be appended.
LEMMA AppendDistinct ==
    ASSUME NEW T, NEW t \in Seq(T), NEW x \in T, Distinct(t), x \notin Range(t)
    PROVE  Distinct(Append(t, x))
<1> DEFINE u == Append(t, x)
<1>1. /\ u \in Seq(T) /\ Len(u) = Len(t) + 1 /\ Len(t) \in Nat
      /\ u[Len(t) + 1] = x /\ \A i \in 1 .. Len(t) : u[i] = t[i]
  OBVIOUS
<1> HIDE DEF u
<1>2. \A i \in 1 .. Len(u) : i = Len(t) + 1 \/ i \in 1 .. Len(t)
  BY <1>1
<1>3. \A i \in 1 .. Len(t) : t[i] # x
  BY RangeIndex
<1>4. ASSUME NEW i \in 1 .. Len(u), NEW j \in 1 .. Len(u), u[i] = u[j] PROVE i = j
  <2>1. CASE i \in 1 .. Len(t) /\ j \in 1 .. Len(t)
    BY <1>1, <1>4, <2>1 DEF Distinct
  <2>2. CASE i = Len(t) + 1 \/ j = Len(t) + 1
    BY <1>1, <1>2, <1>3, <1>4, <2>2
  <2>3. QED
    BY <1>2, <2>1, <2>2
<1>5. QED
  BY <1>4 DEF Distinct, u
=============================================================================
