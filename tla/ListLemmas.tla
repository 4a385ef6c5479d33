----------------------------- MODULE ListLemmas -----------------------------
(***************************************************************************)
(* Facts about the kernel's lists as sequences: what list_add_tail() and   *)
(* list_del() do to what is in a list and to its order.  They hold for     *)
(* every sequence and are used by the proofs about futexes and message     *)
(* queues.                                                                 *)
(***************************************************************************)
EXTENDS Integers, Sequences, FiniteSets, SequencesExt, WellFoundedInduction,
        SequenceTheorems, TLAPS

(* No entry is in q twice. *)
Once(q) == \A i, j \in DOMAIN q : q[i] = q[j] => i = j

(* x is in q somewhere before y. *)
Ahead(q, x, y) == \E i, j \in DOMAIN q : i < j /\ q[i] = x /\ q[j] = y

-----------------------------------------------------------------------------
(* Natural numbers. *)

(* A set of natural numbers has a least element. *)
LEMMA Least ==
  ASSUME NEW S, S \subseteq Nat, S # {}
  PROVE  \E m \in S : \A n \in S : m <= n
<1>1. PICK m \in S : \A n \in S : ~(<<n, m>> \in OpToRel(<, Nat))
  BY NatLessThanWellFounded, WFMin
<1>2. \A n \in S : ~(n < m)
  BY <1>1 DEF OpToRel
<1> QED
  BY <1>2

(* What CHOOSE makes of it. *)
LEMMA MinIsLeast ==
  ASSUME NEW S, S \subseteq Nat, S # {}
  PROVE  Min(S) \in S /\ \A n \in S : Min(S) <= n
BY Least DEF Min

-----------------------------------------------------------------------------
(* Sequences. *)

(* The k-th entry is taken out. *)
LEMMA RemoveOne ==
  ASSUME NEW T, NEW q \in Seq(T), NEW k \in 1..Len(q)
  PROVE  /\ RemoveAt(q, k) \in Seq(T) /\ Len(RemoveAt(q, k)) = Len(q) - 1
         /\ \A j \in 1..(Len(q) - 1) :
              RemoveAt(q, k)[j] = IF j < k THEN q[j] ELSE q[j + 1]
<1>1. /\ SubSeq(q, 1, k - 1) \in Seq(T) /\ Len(SubSeq(q, 1, k - 1)) = k - 1
      /\ \A j \in 1..(k - 1) : SubSeq(q, 1, k - 1)[j] = q[j]
  <2>1. \A j \in 1..(k - 1) : q[j] \in T
    OBVIOUS
  <2> QED
    BY <2>1, SubSeqProperties
<1>2. /\ SubSeq(q, k + 1, Len(q)) \in Seq(T) /\ Len(SubSeq(q, k + 1, Len(q))) = Len(q) - k
      /\ \A j \in 1..(Len(q) - k) : SubSeq(q, k + 1, Len(q))[j] = q[k + j]
  <2>1. \A j \in (k + 1)..Len(q) : q[j] \in T
    OBVIOUS
  <2> QED
    BY <2>1, SubSeqProperties
<1>3. Len(q) \in Nat
  OBVIOUS
<1>4. PICK a \in Seq(T) : /\ a = SubSeq(q, 1, k - 1) /\ Len(a) = k - 1
                          /\ \A j \in 1..(k - 1) : a[j] = q[j]
  BY <1>1
<1>5. PICK b \in Seq(T) : /\ b = SubSeq(q, k + 1, Len(q)) /\ Len(b) = Len(q) - k
                          /\ \A j \in 1..(Len(q) - k) : b[j] = q[k + j]
  BY <1>2
<1>6. PICK n \in Nat : n = Len(q)
  BY <1>3
<1>7. Len(a) = k - 1 /\ Len(b) = n - k /\ k \in 1..n
  BY <1>4, <1>5, <1>6, Zenon
<1>8. Len(a) + Len(b) = n - 1
  BY <1>7
<1>9. /\ a \o b \in Seq(T) /\ Len(a \o b) = Len(a) + Len(b)
      /\ \A j \in 1..(Len(a) + Len(b)) :
           (a \o b)[j] = IF j <= Len(a) THEN a[j] ELSE b[j - Len(a)]
  BY ConcatProperties
<1>10. \A j \in 1..(n - 1) : (a \o b)[j] = IF j <= k - 1 THEN a[j] ELSE b[j - (k - 1)]
  BY <1>7, <1>8, <1>9, Zenon
<1>11. ASSUME NEW j \in 1..(n - 1), j >= k PROVE (a \o b)[j] = q[j + 1]
  <2>1. PICK i \in 1..(n - k) : i = j - (k - 1)
    BY <1>7, <1>11
  <2>2. (a \o b)[j] = b[i]
    BY <1>7, <1>10, <1>11, <2>1
  <2>3. b[i] = q[k + i]
    BY <1>5, <1>6, <2>1, Zenon
  <2>4. k + i = j + 1
    BY <1>7, <1>11, <2>1
  <2> QED
    BY <2>2, <2>3, <2>4
<1>12. ASSUME NEW j \in 1..(n - 1), j < k PROVE (a \o b)[j] = q[j]
  <2>1. (a \o b)[j] = a[j] /\ j \in 1..(k - 1)
    BY <1>7, <1>10, <1>12
  <2> QED
    BY <1>4, <2>1, Zenon
<1>13. \A j \in 1..(n - 1) : (a \o b)[j] = IF j < k THEN q[j] ELSE q[j + 1]
  BY <1>7, <1>11, <1>12
<1>14. RemoveAt(q, k) = a \o b
  BY <1>4, <1>5 DEF RemoveAt
<1> QED
  BY <1>6, <1>8, <1>9, <1>13, <1>14, Zenon

(* What list_del() leaves. *)
LEMMA RemoveFirstOne ==
  ASSUME NEW T, NEW q \in Seq(T), NEW x
  PROVE  /\ x \notin ToSet(q) => RemoveFirst(q, x) = q
         /\ x \in ToSet(q) =>
              \E k \in DOMAIN q :
                /\ q[k] = x /\ Len(RemoveFirst(q, x)) = Len(q) - 1
                /\ RemoveFirst(q, x) \in Seq(T)
                /\ \A j \in 1..(Len(q) - 1) :
                     RemoveFirst(q, x)[j] = IF j < k THEN q[j] ELSE q[j + 1]
<1> DEFINE I == {i \in 1..Len(q) : q[i] = x}
<1>1. RemoveFirst(q, x) = IF \E i \in 1..Len(q) : q[i] = x THEN RemoveAt(q, Min(I)) ELSE q
  BY DEF RemoveFirst, SelectInSeq
<1>2. ASSUME x \in ToSet(q)
      PROVE  \E k \in DOMAIN q :
                /\ q[k] = x /\ Len(RemoveFirst(q, x)) = Len(q) - 1
                /\ RemoveFirst(q, x) \in Seq(T)
                /\ \A j \in 1..(Len(q) - 1) :
                     RemoveFirst(q, x)[j] = IF j < k THEN q[j] ELSE q[j + 1]
  <2>1. PICK i \in 1..Len(q) : q[i] = x
    BY <1>2 DEF ToSet
  <2>2. I # {} /\ I \subseteq Nat
    BY <2>1
  <2>3. PICK k \in I : k = Min(I)
    BY <2>2, MinIsLeast
  <2>4. RemoveFirst(q, x) = RemoveAt(q, k)
    BY <1>1, <2>1, <2>3
  <2>5. k \in 1..Len(q) /\ k \in DOMAIN q /\ q[k] = x
    BY <2>3
  <2>6. /\ RemoveAt(q, k) \in Seq(T) /\ Len(RemoveAt(q, k)) = Len(q) - 1
        /\ \A j \in 1..(Len(q) - 1) : RemoveAt(q, k)[j] = IF j < k THEN q[j] ELSE q[j + 1]
    BY <2>5, RemoveOne
  <2> QED
    BY <2>4, <2>5, <2>6
<1>3. ASSUME x \notin ToSet(q) PROVE RemoveFirst(q, x) = q
  BY <1>1, <1>3 DEF ToSet
<1> QED
  BY <1>2, <1>3

(* Nobody joins a list by list_del(), and of a list without repetitions     *)
(* only x leaves.                                                           *)
LEMMA RemoveFirstSet ==
  ASSUME NEW T, NEW q \in Seq(T), NEW x,
         \A i, j \in DOMAIN q : q[i] = q[j] => i = j
  PROVE  /\ RemoveFirst(q, x) \in Seq(T)
         /\ ToSet(RemoveFirst(q, x)) = ToSet(q) \ {x}
         /\ \A i, j \in DOMAIN RemoveFirst(q, x) :
              RemoveFirst(q, x)[i] = RemoveFirst(q, x)[j] => i = j
<1>1. CASE x \notin ToSet(q)
  BY <1>1, RemoveFirstOne
<1>2. CASE x \in ToSet(q)
  <2>1. PICK k \in DOMAIN q :
                /\ q[k] = x /\ Len(RemoveFirst(q, x)) = Len(q) - 1
                /\ RemoveFirst(q, x) \in Seq(T)
                /\ \A j \in 1..(Len(q) - 1) :
                     RemoveFirst(q, x)[j] = IF j < k THEN q[j] ELSE q[j + 1]
    BY <1>2, RemoveFirstOne
  <2>2. PICK w \in Seq(T) : w = RemoveFirst(q, x)
    BY <2>1
  <2>3. /\ Len(w) = Len(q) - 1 /\ DOMAIN w = 1..(Len(q) - 1)
        /\ \A j \in 1..(Len(q) - 1) : w[j] = IF j < k THEN q[j] ELSE q[j + 1]
    BY <2>1, <2>2
  <2>4. \A i, j \in DOMAIN w : w[i] = w[j] => i = j
    BY <2>3
  <2>5. ASSUME NEW y \in ToSet(q), y # x PROVE y \in ToSet(w)
    <3>1. PICK i \in 1..Len(q) : q[i] = y
      BY <2>5 DEF ToSet
    <3>2. i # k
      BY <2>1, <2>5, <3>1
    <3>3. CASE i < k
      BY <2>3, <3>1, <3>3 DEF ToSet
    <3>4. CASE i > k
      <4>1. i - 1 \in 1..(Len(q) - 1) /\ w[i - 1] = q[i]
        BY <2>3, <3>1, <3>4
      <4> QED
        BY <2>3, <3>1, <4>1 DEF ToSet
    <3> QED
      BY <3>1, <3>2, <3>3, <3>4
  <2>6. ASSUME NEW y \in ToSet(w) PROVE y \in ToSet(q) /\ y # x
    <3>1. PICK i \in 1..(Len(q) - 1) : w[i] = y
      BY <2>3, <2>6 DEF ToSet
    <3>2. CASE i < k
      <4>1. w[i] = q[i] /\ i \in DOMAIN q /\ i # k
        BY <2>3, <3>1, <3>2
      <4> QED
        BY <2>1, <3>1, <4>1 DEF ToSet
    <3>3. CASE i >= k
      <4>1. w[i] = q[i + 1] /\ i + 1 \in DOMAIN q /\ i + 1 # k
        BY <2>3, <3>1, <3>3
      <4> QED
        BY <2>1, <3>1, <4>1 DEF ToSet
    <3> QED
      BY <3>1, <3>2, <3>3
  <2> QED
    BY <2>2, <2>4, <2>5, <2>6
<1> QED
  BY <1>1, <1>2

(* The same of any list, as far as it holds there. *)
LEMMA RemoveFirstSub ==
  ASSUME NEW T, NEW q \in Seq(T), NEW x
  PROVE  RemoveFirst(q, x) \in Seq(T) /\ ToSet(RemoveFirst(q, x)) \subseteq ToSet(q)
<1>1. CASE x \notin ToSet(q)
  BY <1>1, RemoveFirstOne
<1>2. CASE x \in ToSet(q)
  <2>1. PICK k \in DOMAIN q :
                /\ q[k] = x /\ Len(RemoveFirst(q, x)) = Len(q) - 1
                /\ RemoveFirst(q, x) \in Seq(T)
                /\ \A j \in 1..(Len(q) - 1) :
                     RemoveFirst(q, x)[j] = IF j < k THEN q[j] ELSE q[j + 1]
    BY <1>2, RemoveFirstOne
  <2>2. PICK w \in Seq(T) : w = RemoveFirst(q, x)
    BY <2>1
  <2>3. \A j \in DOMAIN w : w[j] = q[j] \/ (j + 1 \in DOMAIN q /\ w[j] = q[j + 1])
    BY <2>1, <2>2
  <2>4. \A j \in DOMAIN w : j \in DOMAIN q
    BY <2>1, <2>2
  <2> QED
    BY <2>2, <2>3, <2>4 DEF ToSet
<1> QED
  BY <1>1, <1>2

(* What a list of members of T holds. *)
LEMMA ListSet ==
  ASSUME NEW T, NEW q \in Seq(T)
  PROVE  ToSet(q) \in SUBSET T
<1>1. \A i \in DOMAIN q : q[i] \in T
  OBVIOUS
<1> QED
  BY <1>1 DEF ToSet

(* list_add_tail() *)
LEMMA AppendSet ==
  ASSUME NEW T, NEW q \in Seq(T), NEW x \in T
  PROVE  /\ Append(q, x) \in Seq(T) /\ ToSet(Append(q, x)) = ToSet(q) \cup {x}
         /\ (/\ x \notin ToSet(q)
             /\ \A i, j \in DOMAIN q : q[i] = q[j] => i = j)
              => \A i, j \in DOMAIN Append(q, x) : Append(q, x)[i] = Append(q, x)[j] => i = j
<1>1. PICK w \in Seq(T) : w = Append(q, x)
  BY AppendProperties
<1>2. /\ Len(w) = Len(q) + 1 /\ w[Len(q) + 1] = x
      /\ \A i \in 1..Len(q) : w[i] = q[i]
  BY <1>1
<1>3. ToSet(w) = ToSet(q) \cup {x}
  <2>1. \A y \in ToSet(w) : y \in ToSet(q) \cup {x}
    BY <1>2 DEF ToSet
  <2>2. \A y \in ToSet(q) \cup {x} : y \in ToSet(w)
    BY <1>2 DEF ToSet
  <2> QED
    BY <2>1, <2>2
<1>4. ASSUME x \notin ToSet(q), \A i, j \in DOMAIN q : q[i] = q[j] => i = j
      PROVE  \A i, j \in DOMAIN w : w[i] = w[j] => i = j
  BY <1>2, <1>4 DEF ToSet
<1> QED
  BY <1>1, <1>3, <1>4

-----------------------------------------------------------------------------
(* The order of a list without repetitions. *)

(* It is one. *)
LEMMA AheadOrder ==
  ASSUME NEW T, NEW q \in Seq(T), Once(q)
  PROVE  /\ \A x, y : Ahead(q, x, y) => x \in ToSet(q) /\ y \in ToSet(q) /\ ~Ahead(q, y, x)
         /\ \A x, y, z : Ahead(q, x, y) /\ Ahead(q, y, z) => Ahead(q, x, z)
         /\ \A x, y \in ToSet(q) : x = y \/ Ahead(q, x, y) \/ Ahead(q, y, x)
<1> USE DEF Once
<1>1. DOMAIN q \subseteq Int
  OBVIOUS
<1>2. ASSUME NEW x, NEW y, Ahead(q, x, y)
      PROVE  x \in ToSet(q) /\ y \in ToSet(q) /\ ~Ahead(q, y, x)
  <2>1. PICK i \in DOMAIN q, j \in DOMAIN q : i < j /\ q[i] = x /\ q[j] = y
    BY <1>2 DEF Ahead
  <2>2. ASSUME NEW m \in DOMAIN q, NEW n \in DOMAIN q, m < n, q[m] = y, q[n] = x
        PROVE  FALSE
    <3>1. m = j /\ n = i
      BY <2>1, <2>2
    <3> QED
      BY <1>1, <2>1, <2>2, <3>1
  <2> QED
    BY <2>1, <2>2 DEF Ahead, ToSet
<1>3. ASSUME NEW x, NEW y, NEW z, Ahead(q, x, y), Ahead(q, y, z)
      PROVE  Ahead(q, x, z)
  <2>1. PICK i \in DOMAIN q, j \in DOMAIN q : i < j /\ q[i] = x /\ q[j] = y
    BY <1>3 DEF Ahead
  <2>2. PICK m \in DOMAIN q, n \in DOMAIN q : m < n /\ q[m] = y /\ q[n] = z
    BY <1>3 DEF Ahead
  <2>3. m = j
    BY <2>1, <2>2
  <2>4. i < n
    BY <1>1, <2>1, <2>2, <2>3
  <2> QED
    BY <2>1, <2>2, <2>4 DEF Ahead
<1>4. ASSUME NEW x \in ToSet(q), NEW y \in ToSet(q)
      PROVE  x = y \/ Ahead(q, x, y) \/ Ahead(q, y, x)
  <2>1. PICK i \in DOMAIN q, j \in DOMAIN q : q[i] = x /\ q[j] = y
    BY DEF ToSet
  <2>2. i = j \/ i < j \/ j < i
    BY <1>1
  <2> QED
    BY <2>1, <2>2 DEF Ahead
<1> QED
  BY <1>2, <1>3, <1>4

(* The entry after the i-th is the next in the order. *)
LEMMA AheadNext ==
  ASSUME NEW T, NEW q \in Seq(T), Once(q), NEW i \in DOMAIN q
  PROVE  /\ i = Len(q) => \A y : ~Ahead(q, q[i], y)
         /\ i # Len(q) =>
              /\ i + 1 \in DOMAIN q /\ Ahead(q, q[i], q[i + 1])
              /\ \A y : Ahead(q, q[i], y) => y = q[i + 1] \/ Ahead(q, q[i + 1], y)
<1>1. DOMAIN q = 1..Len(q) /\ Len(q) \in Nat
  OBVIOUS
<1>2. ASSUME NEW y, Ahead(q, q[i], y) PROVE \E n \in DOMAIN q : i < n /\ q[n] = y
  <2>1. PICK m \in DOMAIN q, n \in DOMAIN q : m < n /\ q[m] = q[i] /\ q[n] = y
    BY <1>2 DEF Ahead
  <2>2. m = i
    BY <2>1 DEF Once
  <2> QED
    BY <2>1, <2>2
<1>3. ASSUME i = Len(q), NEW y, Ahead(q, q[i], y) PROVE FALSE
  BY <1>1, <1>2, <1>3
<1>4. ASSUME i # Len(q)
      PROVE  /\ i + 1 \in DOMAIN q /\ Ahead(q, q[i], q[i + 1])
             /\ \A y : Ahead(q, q[i], y) => y = q[i + 1] \/ Ahead(q, q[i + 1], y)
  <2>1. PICK j \in DOMAIN q : j = i + 1
    BY <1>1, <1>4
  <2>2. i < j
    BY <1>1, <2>1
  <2>3. Ahead(q, q[i], q[j])
    BY <2>2 DEF Ahead
  <2>4. ASSUME NEW y, Ahead(q, q[i], y) PROVE y = q[j] \/ Ahead(q, q[j], y)
    <3>1. PICK n \in DOMAIN q : i < n /\ q[n] = y
      BY <1>2, <2>4
    <3>2. n = j \/ j < n
      BY <1>1, <2>1, <3>1
    <3> QED
      BY <3>1, <3>2 DEF Ahead
  <2> QED
    BY <2>1, <2>3, <2>4
<1> QED
  BY <1>3, <1>4

(* The first entry is ahead of the others. *)
LEMMA AheadFirst ==
  ASSUME NEW T, NEW q \in Seq(T)
  PROVE  /\ q = <<>> => ToSet(q) = {}
         /\ q # <<>> => /\ q[1] \in ToSet(q)
                        /\ \A y \in ToSet(q) : y = q[1] \/ Ahead(q, q[1], y)
<1>1. DOMAIN q = 1..Len(q) /\ Len(q) \in Nat
  OBVIOUS
<1>2. q = <<>> => ToSet(q) = {}
  BY DEF ToSet
<1>3. ASSUME q # <<>>
      PROVE  /\ q[1] \in ToSet(q)
             /\ \A y \in ToSet(q) : y = q[1] \/ Ahead(q, q[1], y)
  <2>1. 1 \in DOMAIN q
    BY <1>1, <1>3, EmptySeq
  <2>2. ASSUME NEW y \in ToSet(q) PROVE y = q[1] \/ Ahead(q, q[1], y)
    <3>1. PICK j \in DOMAIN q : q[j] = y
      BY <2>2 DEF ToSet
    <3>2. j = 1 \/ 1 < j
      BY <1>1
    <3> QED
      BY <2>1, <3>1, <3>2 DEF Ahead
  <2> QED
    BY <2>1, <2>2 DEF ToSet
<1> QED
  BY <1>2, <1>3

(* list_del() leaves the order of the others. *)
LEMMA RemoveFirstAhead ==
  ASSUME NEW T, NEW q \in Seq(T), Once(q), NEW x \in ToSet(q), NEW y, NEW z
  PROVE  Ahead(RemoveFirst(q, x), y, z) <=> (Ahead(q, y, z) /\ y # x /\ z # x)
<1>1. PICK k \in DOMAIN q :
                /\ q[k] = x /\ Len(RemoveFirst(q, x)) = Len(q) - 1
                /\ RemoveFirst(q, x) \in Seq(T)
                /\ \A j \in 1..(Len(q) - 1) :
                     RemoveFirst(q, x)[j] = IF j < k THEN q[j] ELSE q[j + 1]
  BY RemoveFirstOne
<1>2. PICK w \in Seq(T) : w = RemoveFirst(q, x)
  BY <1>1
<1>3. PICK n \in Nat : n = Len(q)
  OBVIOUS
<1>4. /\ DOMAIN w = 1..(n - 1) /\ DOMAIN q = 1..n /\ k \in 1..n
      /\ \A j \in 1..(n - 1) : w[j] = IF j < k THEN q[j] ELSE q[j + 1]
  BY <1>1, <1>2, <1>3
<1>5. ASSUME Ahead(w, y, z) PROVE Ahead(q, y, z) /\ y # x /\ z # x
  <2>1. PICK i \in 1..(n - 1), j \in 1..(n - 1) : i < j /\ w[i] = y /\ w[j] = z
    BY <1>4, <1>5 DEF Ahead
  <2>2. PICK a \in 1..n : a = (IF i < k THEN i ELSE i + 1)
    BY <1>4
  <2>3. PICK b \in 1..n : b = (IF j < k THEN j ELSE j + 1)
    BY <1>4
  <2>4. a < b /\ a # k /\ b # k
    BY <1>4, <2>1, <2>2, <2>3
  <2>5. w[i] = q[a] /\ w[j] = q[b]
    BY <1>4, <2>2, <2>3
  <2> QED
    BY <1>1, <1>4, <2>1, <2>4, <2>5 DEF Ahead, Once
<1>6. ASSUME Ahead(q, y, z), y # x, z # x PROVE Ahead(w, y, z)
  <2>1. PICK a \in 1..n, b \in 1..n : a < b /\ q[a] = y /\ q[b] = z
    BY <1>4, <1>6 DEF Ahead
  <2>2. a # k /\ b # k
    BY <1>1, <1>6, <2>1
  <2>3. PICK i \in 1..(n - 1) : i = (IF a < k THEN a ELSE a - 1)
    BY <1>4, <2>1, <2>2
  <2>4. PICK j \in 1..(n - 1) : j = (IF b < k THEN b ELSE b - 1)
    BY <1>4, <2>1, <2>2
  <2>5. i < j
    BY <1>4, <2>1, <2>2, <2>3, <2>4
  <2>6. w[i] = q[a] /\ w[j] = q[b]
    BY <1>4, <2>2, <2>3, <2>4
  <2> QED
    BY <1>4, <2>1, <2>5, <2>6 DEF Ahead
<1> QED
  BY <1>2, <1>5, <1>6

(* list_add_tail() puts x behind all of them. *)
LEMMA AppendAhead ==
  ASSUME NEW T, NEW q \in Seq(T), NEW x \in T, NEW y, NEW z
  PROVE  Ahead(Append(q, x), y, z) <=> (Ahead(q, y, z) \/ (y \in ToSet(q) /\ z = x))
<1>1. PICK w \in Seq(T) : w = Append(q, x)
  BY AppendProperties
<1>2. PICK n \in Nat : n = Len(q)
  OBVIOUS
<1>3. /\ DOMAIN w = 1..(n + 1) /\ DOMAIN q = 1..n /\ w[n + 1] = x
      /\ \A i \in 1..n : w[i] = q[i]
  BY <1>1, <1>2
<1>4. ASSUME Ahead(w, y, z) PROVE Ahead(q, y, z) \/ (y \in ToSet(q) /\ z = x)
  <2>1. PICK i \in 1..(n + 1), j \in 1..(n + 1) : i < j /\ w[i] = y /\ w[j] = z
    BY <1>3, <1>4 DEF Ahead
  <2>2. i \in 1..n /\ (j = n + 1 \/ j \in 1..n)
    BY <2>1
  <2>3. w[i] = q[i]
    BY <1>3, <2>2
  <2>4. CASE j = n + 1
    BY <1>3, <2>1, <2>2, <2>3, <2>4 DEF ToSet
  <2>5. CASE j \in 1..n
    BY <1>3, <2>1, <2>2, <2>3, <2>5 DEF Ahead
  <2> QED
    BY <2>2, <2>4, <2>5
<1>5. ASSUME Ahead(q, y, z) PROVE Ahead(w, y, z)
  <2>1. PICK i \in 1..n, j \in 1..n : i < j /\ q[i] = y /\ q[j] = z
    BY <1>3, <1>5 DEF Ahead
  <2>2. i \in DOMAIN w /\ j \in DOMAIN w /\ w[i] = y /\ w[j] = z
    BY <1>3, <2>1
  <2> QED
    BY <2>1, <2>2 DEF Ahead
<1>6. ASSUME y \in ToSet(q), z = x PROVE Ahead(w, y, z)
  <2>1. PICK i \in 1..n : q[i] = y
    BY <1>3, <1>6 DEF ToSet
  <2>2. PICK j \in DOMAIN w : j = n + 1
    BY <1>3
  <2>3. i \in DOMAIN w /\ w[i] = y /\ i < j /\ w[j] = z
    BY <1>3, <1>6, <2>1, <2>2
  <2> QED
    BY <2>3 DEF Ahead
<1> QED
  BY <1>1, <1>4, <1>5, <1>6

=============================================================================
