-------------------------- MODULE KernelListProofs --------------------------
(***************************************************************************)
(* Lists of the kernel: what is left of a list without one of its nodes,   *)
(* and where the links lead.                                               *)
(***************************************************************************)
EXTENDS KernelList, TLAPS

-----------------------------------------------------------------------------
(* Places and links. *)

\* A node is on the list once.
LEMMA Once ==
  ASSUME NEW S, NEW s \in Seq(S), IsInjective(s), NEW i \in DOMAIN s, NEW j \in DOMAIN s,
         s[i] = s[j]
  PROVE  i = j
BY DEF IsInjective

\* The place of a node is the one where it stands.
LEMMA PlaceOf ==
  ASSUME NEW S, NEW s \in Seq(S), IsInjective(s), NEW i \in DOMAIN s
  PROVE  Place(s, s[i]) = i
BY Once DEF Place

\* A node of the list has a place.
LEMMA Placed ==
  ASSUME NEW S, NEW s \in Seq(S), NEW p \in Range(s)
  PROVE  Place(s, p) \in 1 .. Len(s) /\ s[Place(s, p)] = p
<1>1. \E i \in DOMAIN s : s[i] = p
  BY DEF Range
<1> QED BY <1>1 DEF Place

\* The first node is on the list, if there is one.
LEMMA FirstOn ==
  ASSUME NEW S, NEW s \in Seq(S), NULL \notin S
  PROVE  /\ s = <<>> => FirstNode(s) = NULL
         /\ s # <<>> => FirstNode(s) \in Range(s) /\ FirstNode(s) # NULL
<1>1. CASE s = <<>>
  BY <1>1 DEF FirstNode
<1>2. CASE s # <<>>
  <2>1. 1 \in DOMAIN s /\ s[1] \in S
    BY <1>2
  <2> QED BY <1>2, <2>1 DEF FirstNode, Range
<1> QED BY <1>1, <1>2

\* Behind the last node there is none; behind another one is the next.
LEMMA AfterAt ==
  ASSUME NEW S, NEW s \in Seq(S), IsInjective(s), NEW i \in 1 .. Len(s)
  PROVE  After(s, s[i]) = IF i = Len(s) THEN NULL ELSE s[i + 1]
<1>1. i \in DOMAIN s /\ Len(s) \in DOMAIN s
  OBVIOUS
<1>2. s[i] = s[Len(s)] <=> i = Len(s)
  BY <1>1, Once
<1> QED BY <1>1, <1>2, PlaceOf DEF After, Last

\* A link leads to a node of the list, or to its end, and not back.
LEMMA AfterOn ==
  ASSUME NEW S, NEW s \in Seq(S), IsInjective(s), NULL \notin S, NEW p \in Range(s)
  PROVE  /\ After(s, p) # p
         /\ After(s, p) # NULL => /\ After(s, p) \in Range(s)
                                  /\ After(s, After(s, p)) # p
<1>1. PICK i \in 1 .. Len(s) : i = Place(s, p) /\ s[i] = p
  BY Placed
<1>2. Len(s) \in Nat /\ (\A j \in 1 .. Len(s) : s[j] \in Range(s) /\ s[j] # NULL)
  BY DEF Range
<1>3. CASE i = Len(s)
  BY <1>1, <1>2, <1>3, AfterAt
<1>4. CASE i # Len(s)
  <2>1. i + 1 \in 1 .. Len(s) /\ i + 1 # i
    BY <1>2, <1>4
  <2>2. After(s, p) = s[i + 1]
    BY <1>1, <1>4, AfterAt
  <2>3. s[i + 1] # s[i]
    BY <2>1, Once
  <2>4. After(s, s[i + 1]) # s[i]
    <3>1. CASE i + 1 = Len(s)
      BY <1>2, <2>1, <3>1, AfterAt
    <3>2. CASE i + 1 # Len(s)
      <4>1. i + 1 + 1 \in 1 .. Len(s) /\ i + 1 + 1 # i
        BY <1>2, <2>1, <3>2
      <4>2. After(s, s[i + 1]) = s[i + 1 + 1]
        BY <2>1, <3>2, AfterAt
      <4>3. s[i + 1 + 1] # s[i]
        BY <4>1, Once
      <4> QED BY <4>2, <4>3
    <3> QED BY <3>1, <3>2
  <2> QED BY <1>1, <1>2, <2>1, <2>2, <2>3, <2>4
<1> QED BY <1>3, <1>4

-----------------------------------------------------------------------------
(* list_del *)

\* The list without a node, place by place.
LEMMA DelAt ==
  ASSUME NEW S, NEW s \in Seq(S), NEW p \in Range(s)
  PROVE  /\ Del(s, p) \in Seq(S) /\ Len(Del(s, p)) = Len(s) - 1
         /\ \A i \in 1 .. Len(s) - 1 :
              Del(s, p)[i] = IF i < Place(s, p) THEN s[i] ELSE s[i + 1]
<1> DEFINE k == Place(s, p)
           front == SubSeq(s, 1, k - 1)
           rear == SubSeq(s, k + 1, Len(s))
<1>1. k \in 1 .. Len(s) /\ Len(s) \in Nat
  BY Placed
<1>2. Del(s, p) = front \o rear
  BY DEF Del, RemoveAt
<1> HIDE DEF k
<1>3. /\ front \in Seq(S) /\ Len(front) = k - 1
      /\ \A i \in 1 .. k - 1 : front[i] = s[i]
  BY <1>1
<1>4. /\ rear \in Seq(S) /\ Len(rear) = Len(s) - k
      /\ \A i \in 1 .. Len(s) - k : rear[i] = s[i + k]
  BY <1>1
<1> HIDE DEF front, rear
<1>5. front \o rear \in Seq(S) /\ Len(front \o rear) = Len(s) - 1
  BY <1>1, <1>3, <1>4
<1>6. ASSUME NEW i \in 1 .. Len(s) - 1
      PROVE  (front \o rear)[i] = IF i < k THEN s[i] ELSE s[i + 1]
  <2>1. CASE i < k
    BY <1>1, <1>3, <1>4, <2>1
  <2>2. CASE ~(i < k)
    <3>1. (front \o rear)[i] = rear[i - (k - 1)]
      BY <1>1, <1>3, <1>4, <2>2
    <3>2. i - (k - 1) \in 1 .. Len(s) - k /\ i - (k - 1) + k = i + 1
      BY <1>1, <2>2
    <3> QED BY <1>4, <2>2, <3>1, <3>2
  <2> QED BY <2>1, <2>2
<1> QED BY <1>2, <1>5, <1>6 DEF k

\* It has the other nodes, each once.
LEMMA DelOn ==
  ASSUME NEW S, NEW s \in Seq(S), IsInjective(s), NEW p \in Range(s)
  PROVE  /\ Del(s, p) \in Seq(S) /\ IsInjective(Del(s, p))
         /\ Range(Del(s, p)) = Range(s) \ {p}
<1> DEFINE d == Del(s, p)
<1>1. PICK k \in 1 .. Len(s) : k = Place(s, p) /\ s[k] = p
  BY Placed
<1>2. /\ d \in Seq(S) /\ Len(d) = Len(s) - 1 /\ Len(s) \in Nat
      /\ \A i \in 1 .. Len(s) - 1 : d[i] = IF i < k THEN s[i] ELSE s[i + 1]
  BY <1>1, DelAt
<1> HIDE DEF d
<1>3. \A i, j \in 1 .. Len(s) : s[i] = s[j] => i = j
  BY Once
<1>4. ASSUME NEW i \in DOMAIN d, NEW j \in DOMAIN d, d[i] = d[j] PROVE i = j
  <2>1. i \in 1 .. Len(s) - 1 /\ j \in 1 .. Len(s) - 1
    BY <1>2
  <2> QED BY <1>1, <1>2, <1>3, <1>4, <2>1
<1>5. ASSUME NEW q \in Range(d) PROVE q \in Range(s) \ {p}
  <2>1. PICK i \in 1 .. Len(s) - 1 : d[i] = q
    BY <1>2 DEF Range
  <2>2. CASE i < k
    <3>1. i \in 1 .. Len(s) /\ i # k /\ s[i] = q
      BY <1>1, <1>2, <2>1, <2>2
    <3> QED BY <1>1, <1>3, <3>1 DEF Range
  <2>3. CASE ~(i < k)
    <3>1. i + 1 \in 1 .. Len(s) /\ i + 1 # k /\ s[i + 1] = q
      BY <1>1, <1>2, <2>1, <2>3
    <3> QED BY <1>1, <1>3, <3>1 DEF Range
  <2> QED BY <2>2, <2>3
<1>6. ASSUME NEW q \in Range(s) \ {p} PROVE q \in Range(d)
  <2>1. PICK i \in 1 .. Len(s) : s[i] = q
    BY DEF Range
  <2>2. i # k
    BY <1>1, <1>6, <2>1
  <2>3. CASE i < k
    <3>1. i \in 1 .. Len(s) - 1 /\ d[i] = q
      BY <1>1, <1>2, <2>1, <2>3
    <3> QED BY <1>2, <3>1 DEF Range
  <2>4. CASE i > k
    <3>1. i - 1 \in 1 .. Len(s) - 1 /\ ~(i - 1 < k) /\ i - 1 + 1 = i
      BY <1>1, <1>2, <2>4
    <3>2. d[i - 1] = q
      BY <1>2, <2>1, <3>1
    <3> QED BY <1>2, <3>1, <3>2 DEF Range
  <2> QED BY <1>1, <2>2, <2>3, <2>4
<1>7. IsInjective(d)
  BY <1>4 DEF IsInjective
<1>8. Range(d) = Range(s) \ {p}
  BY <1>5, <1>6
<1> QED BY <1>2, <1>7, <1>8 DEF d

\* The links of the nodes that do not lead to it are the same.
LEMMA DelAfter ==
  ASSUME NEW S, NEW s \in Seq(S), IsInjective(s), NULL \notin S,
         NEW p \in Range(s), NEW q \in Range(s), q # p, After(s, q) # p
  PROVE  After(Del(s, p), q) = After(s, q)
<1> DEFINE d == Del(s, p)
<1>1. PICK k \in 1 .. Len(s) : k = Place(s, p) /\ s[k] = p
  BY Placed
<1>2. PICK i \in 1 .. Len(s) : s[i] = q
  BY DEF Range
<1>3. /\ d \in Seq(S) /\ IsInjective(d) /\ Len(d) = Len(s) - 1 /\ Len(s) \in Nat
      /\ \A j \in 1 .. Len(s) - 1 : d[j] = IF j < k THEN s[j] ELSE s[j + 1]
  BY <1>1, DelAt, DelOn
<1> HIDE DEF d
<1>4. i # k /\ (i # Len(s) => i + 1 # k)
  <2>1. i # Len(s) => After(s, q) = s[i + 1]
    BY <1>2, AfterAt
  <2> QED BY <1>1, <1>2, <2>1
<1>5. CASE i < k
  <2>1. i \in 1 .. Len(s) - 1 /\ i + 1 < k /\ i + 1 \in 1 .. Len(s) - 1 /\ i # Len(s)
    BY <1>1, <1>3, <1>4, <1>5
  <2>2. d[i] = q /\ d[i + 1] = s[i + 1] /\ i \in 1 .. Len(d) /\ i # Len(d)
    BY <1>2, <1>3, <1>5, <2>1
  <2>3. After(d, q) = d[i + 1]
    BY <1>3, <2>2, AfterAt
  <2>4. After(s, q) = s[i + 1]
    BY <1>2, <2>1, AfterAt
  <2> QED BY <2>2, <2>3, <2>4 DEF d
<1>6. CASE i > k
  <2>1. /\ i - 1 \in 1 .. Len(s) - 1 /\ ~(i - 1 < k) /\ i - 1 + 1 = i
        /\ i # Len(s) => i \in 1 .. Len(s) - 1 /\ ~(i < k)
    BY <1>1, <1>3, <1>6
  <2>2. d[i - 1] = q /\ i - 1 \in 1 .. Len(d) /\ (i # Len(s) => d[i] = s[i + 1])
    BY <1>2, <1>3, <2>1
  <2>3. After(d, q) = IF i - 1 = Len(d) THEN NULL ELSE d[i - 1 + 1]
    BY <1>3, <2>2, AfterAt
  <2>4. After(s, q) = IF i = Len(s) THEN NULL ELSE s[i + 1]
    BY <1>2, AfterAt
  <2>5. i - 1 = Len(d) <=> i = Len(s)
    BY <1>3
  <2> QED BY <2>1, <2>2, <2>3, <2>4, <2>5 DEF d
<1> QED BY <1>1, <1>4, <1>5, <1>6

\* The node behind the first one becomes the first.
LEMMA DelFirst ==
  ASSUME NEW S, NEW s \in Seq(S), IsInjective(s), NULL \notin S, s # <<>>
  PROVE  FirstNode(Del(s, FirstNode(s))) = After(s, FirstNode(s))
<1> DEFINE d == Del(s, FirstNode(s))
<1>1. 1 \in 1 .. Len(s) /\ FirstNode(s) = s[1] /\ FirstNode(s) \in Range(s) /\ Len(s) \in Nat
  BY FirstOn DEF FirstNode
<1>2. Place(s, FirstNode(s)) = 1
  BY <1>1, PlaceOf
<1>3. /\ d \in Seq(S) /\ Len(d) = Len(s) - 1
      /\ \A j \in 1 .. Len(s) - 1 : d[j] = IF j < 1 THEN s[j] ELSE s[j + 1]
  BY <1>1, <1>2, DelAt
<1> HIDE DEF d
<1>4. After(s, FirstNode(s)) = IF 1 = Len(s) THEN NULL ELSE s[1 + 1]
  BY <1>1, AfterAt
<1>5. CASE Len(s) = 1
  BY <1>3, <1>4, <1>5 DEF FirstNode, d
<1>6. CASE Len(s) # 1
  <2>1. 1 \in 1 .. Len(s) - 1 /\ d # <<>>
    BY <1>1, <1>3, <1>6
  <2>2. FirstNode(d) = s[1 + 1]
    BY <1>3, <2>1 DEF FirstNode
  <2> QED BY <1>4, <1>6, <2>2 DEF d
<1> QED BY <1>5, <1>6

\* The first node stays the first when another one goes.
LEMMA DelLater ==
  ASSUME NEW S, NEW s \in Seq(S), NEW p \in Range(s), p # FirstNode(s)
  PROVE  FirstNode(Del(s, p)) = FirstNode(s) /\ Del(s, p) # <<>>
<1> DEFINE d == Del(s, p)
<1>1. PICK k \in 1 .. Len(s) : k = Place(s, p) /\ s[k] = p
  BY Placed
<1>2. /\ d \in Seq(S) /\ Len(d) = Len(s) - 1 /\ Len(s) \in Nat
      /\ \A j \in 1 .. Len(s) - 1 : d[j] = IF j < k THEN s[j] ELSE s[j + 1]
  BY <1>1, DelAt
<1> HIDE DEF d
<1>3. s # <<>> /\ FirstNode(s) = s[1] /\ k # 1
  BY <1>1 DEF FirstNode
<1>4. 1 \in 1 .. Len(s) - 1 /\ 1 < k
  BY <1>1, <1>2, <1>3
<1>5. d[1] = s[1] /\ d # <<>>
  BY <1>2, <1>4
<1> QED BY <1>3, <1>5 DEF FirstNode, d

-----------------------------------------------------------------------------
(* list_add *)

\* A new node before the others.
LEMMA AddOn ==
  ASSUME NEW S, NEW s \in Seq(S), IsInjective(s), NEW p \in S, p \notin Range(s)
  PROVE  /\ <<p>> \o s \in Seq(S) /\ IsInjective(<<p>> \o s)
         /\ Range(<<p>> \o s) = Range(s) \cup {p}
         /\ FirstNode(<<p>> \o s) = p /\ <<p>> \o s # <<>>
<1> DEFINE a == <<p>> \o s
<1>1. /\ a \in Seq(S) /\ Len(a) = Len(s) + 1 /\ Len(s) \in Nat /\ a[1] = p
      /\ \A i \in 1 .. Len(s) : a[i + 1] = s[i]
  OBVIOUS
<1> HIDE DEF a
<1>2. \A i \in 1 .. Len(a) : i = 1 \/ (i - 1 \in 1 .. Len(s) /\ a[i] = s[i - 1])
  <2> SUFFICES ASSUME NEW i \in 1 .. Len(a), i # 1
               PROVE  i - 1 \in 1 .. Len(s) /\ a[i] = s[i - 1]
    OBVIOUS
  <2>1. i - 1 \in 1 .. Len(s) /\ i - 1 + 1 = i
    BY <1>1
  <2> QED BY <1>1, <2>1
<1>3. \A i \in 1 .. Len(s) : s[i] \in Range(s) /\ s[i] # p
  BY DEF Range
<1>4. \A i, j \in 1 .. Len(s) : s[i] = s[j] => i = j
  BY Once
<1>5. ASSUME NEW i \in DOMAIN a, NEW j \in DOMAIN a, a[i] = a[j] PROVE i = j
  <2>1. i \in 1 .. Len(a) /\ j \in 1 .. Len(a)
    BY <1>1
  <2>2. CASE i = 1 \/ j = 1
    BY <1>1, <1>2, <1>3, <1>5, <2>1, <2>2
  <2>3. CASE i # 1 /\ j # 1
    <3>1. i - 1 = j - 1
      BY <1>2, <1>4, <1>5, <2>1, <2>3
    <3> QED BY <2>1, <3>1
  <2> QED BY <2>2, <2>3
<1>6. IsInjective(a)
  BY <1>5 DEF IsInjective
<1>7. ASSUME NEW q \in Range(a) PROVE q \in Range(s) \cup {p}
  <2>1. PICK i \in 1 .. Len(a) : a[i] = q
    BY <1>1 DEF Range
  <2> QED BY <1>1, <1>2, <1>3, <2>1
<1>8. ASSUME NEW q \in Range(s) \cup {p} PROVE q \in Range(a)
  <2>1. CASE q = p
    <3>1. 1 \in DOMAIN a
      BY <1>1
    <3> QED BY <1>1, <2>1, <3>1 DEF Range
  <2>2. CASE q \in Range(s)
    <3>1. PICK i \in 1 .. Len(s) : s[i] = q
      BY <2>2 DEF Range
    <3>2. i + 1 \in DOMAIN a /\ a[i + 1] = q
      BY <1>1, <3>1
    <3> QED BY <3>2 DEF Range
  <2> QED BY <2>1, <2>2
<1>9. FirstNode(a) = p /\ a # <<>>
  BY <1>1 DEF FirstNode
<1> QED BY <1>1, <1>6, <1>7, <1>8, <1>9 DEF a

\* The nodes from one on; from the first node on it is the whole list.
LEMMA FromOn ==
  ASSUME NEW S, NEW s \in Seq(S), IsInjective(s), NULL \notin S,
         NEW p \in Range(s) \cup {NULL}
  PROVE  /\ From(s, p) \in Seq(S) /\ IsInjective(From(s, p))
         /\ Range(From(s, p)) \subseteq Range(s)
         /\ p = FirstNode(s) => From(s, p) = s
<1>1. CASE p = NULL
  <2>1. p = FirstNode(s) => s = <<>>
    BY <1>1, FirstOn
  <2> QED BY <1>1, <2>1 DEF From, IsInjective, Range
<1>2. CASE p # NULL
  <2>1. PICK k \in 1 .. Len(s) : k = Place(s, p) /\ s[k] = p
    BY <1>2, Placed
  <2> DEFINE f == From(s, p)
  <2>2. f = SubSeq(s, k, Len(s))
    BY <1>2, <2>1 DEF From
  <2>3. /\ f \in Seq(S) /\ Len(f) = Len(s) - k + 1 /\ Len(s) \in Nat
        /\ \A i \in 1 .. Len(s) - k + 1 : f[i] = s[i + k - 1]
    BY <2>1, <2>2
  <2>4. p = FirstNode(s) => f = s
    <3>1. p = FirstNode(s) => k = 1
      <4>1. 1 \in 1 .. Len(s) /\ s # <<>>
        BY <2>1
      <4> QED BY <2>1, <4>1, Once DEF FirstNode
    <3> QED BY <2>2, <3>1
  <2> HIDE DEF f
  <2>5. ASSUME NEW i \in 1 .. Len(s) - k + 1
        PROVE  i + k - 1 \in 1 .. Len(s) /\ f[i] = s[i + k - 1]
    <3>1. Len(s) \in Nat /\ k \in Nat /\ i \in Nat /\ 1 <= k /\ 1 <= i /\ i <= Len(s) - k + 1
      BY <2>3, <2>5
    <3>2. i + k - 1 \in 1 .. Len(s)
      BY <3>1
    <3> QED BY <2>3, <2>5, <3>2
  <2>6. IsInjective(f)
    <3>1. ASSUME NEW i \in DOMAIN f, NEW j \in DOMAIN f, f[i] = f[j] PROVE i = j
      <4>1. i \in 1 .. Len(s) - k + 1 /\ j \in 1 .. Len(s) - k + 1
        BY <2>3
      <4>2. i + k - 1 \in DOMAIN s /\ j + k - 1 \in DOMAIN s /\ s[i + k - 1] = s[j + k - 1]
        <5>1. /\ i + k - 1 \in DOMAIN s /\ f[i] = s[i + k - 1]
              /\ j + k - 1 \in DOMAIN s /\ f[j] = s[j + k - 1]
          BY <2>5, <4>1
        <5> QED BY <3>1, <5>1
      <4>3. i + k - 1 = j + k - 1
        BY <4>2, Once
      <4> QED BY <2>1, <4>1, <4>3
    <3> QED BY <3>1 DEF IsInjective
  <2>7. Range(f) \subseteq Range(s)
    BY <2>3, <2>5 DEF Range
  <2> QED BY <2>3, <2>4, <2>6, <2>7 DEF f
<1> QED BY <1>1, <1>2
=============================================================================
