---------------------------- MODULE CommonLemmas ----------------------------
(***************************************************************************)
(* What the proofs of several components use: integer division, and what   *)
(* popping and pushing does to the number of entries of a kind in a queue. *)
(***************************************************************************)
EXTENDS Queues, TLAPS, FiniteSetTheorems, FunctionTheorems, SequenceTheorems

----------------------------------------------------------------------------
(* Integer division, as addresses, pages and counters that wrap use it.    *)

(* Quotient and remainder.                                                 *)
LEMMA DivMod ==
    ASSUME NEW a \in Int, NEW m \in Nat \ {0}
    PROVE  /\ a = m * (a \div m) + (a % m)
           /\ a \div m \in Int /\ a % m \in 0..m-1
OBVIOUS

(* A positive multiple is not smaller.                                     *)
LEMMA MulAtLeast ==
    ASSUME NEW m \in Nat \ {0}, NEW d \in Int, d >= 1
    PROVE  m * d >= m
OBVIOUS

(* Quotient and remainder are determined by the number they make up.       *)
LEMMA DivUnique ==
    ASSUME NEW m \in Nat \ {0}, NEW p \in Int, NEW q \in Int, NEW r \in 0..m-1, NEW s \in 0..m-1,
           m * p + r = m * q + s
    PROVE  p = q /\ r = s
<1>1. m * (p - q) = s - r /\ m * (q - p) = r - s
  OBVIOUS
<1>2. ~(p - q >= 1)
  BY <1>1, MulAtLeast
<1>3. ~(q - p >= 1)
  BY <1>1, MulAtLeast
<1>4. p = q
  BY <1>2, <1>3
<1> QED BY <1>1, <1>4

(* So whatever has the form of a division is one.                          *)
LEMMA DivModOf ==
    ASSUME NEW m \in Nat \ {0}, NEW q \in Int, NEW r \in 0..m-1
    PROVE  (m * q + r) \div m = q /\ (m * q + r) % m = r
<1> DEFINE a == m * q + r
<1>1. a \in Int
  OBVIOUS
<1>2. m * q + r = m * (a \div m) + (a % m) /\ a \div m \in Int /\ a % m \in 0..m-1
  BY <1>1, DivMod
<1> HIDE DEF a
<1>3. a \div m = q /\ a % m = r
  BY <1>2, DivUnique
<1> QED BY <1>3 DEF a

(* Addresses wrap: adding in steps or at once gives the same address.      *)
LEMMA ModAdd ==
    ASSUME NEW m \in Nat \ {0}, NEW a \in Int, NEW n \in Int
    PROVE  ((a % m) + n) % m = (a + n) % m
<1> DEFINE q == a \div m   r == a % m   p == (r + n) \div m   s == (r + n) % m
<1>1. a = m * q + r /\ q \in Int /\ r \in 0..m-1
  BY DivMod
<1>2. r + n \in Int
  BY <1>1
<1>3. r + n = m * p + s /\ p \in Int /\ s \in 0..m-1
  BY <1>2, DivMod
<1> HIDE DEF p, s, q, r
<1>4. a + n = m * (p + q) + s
  BY <1>1, <1>3
<1>5. p + q \in Int
  BY <1>1, <1>3
<1>6. (m * (p + q) + s) % m = s
  BY <1>3, <1>5, DivModOf
<1> QED BY <1>4, <1>6 DEF s, r

(* A later byte is not in an earlier page.                                 *)
LEMMA MonoDiv ==
    ASSUME NEW m \in Nat \ {0}, NEW a \in Int, NEW b \in Int, a <= b
    PROVE  a \div m <= b \div m
<1> DEFINE p == a \div m   q == b \div m
<1>1. a = m * p + (a % m) /\ p \in Int /\ a % m \in 0..m-1
  BY DivMod
<1>2. b = m * q + (b % m) /\ q \in Int /\ b % m \in 0..m-1
  BY DivMod
<1> HIDE DEF p, q
<1>3. p - q >= 1 => m * (p - q) >= m
  BY <1>1, <1>2, MulAtLeast
<1>4. m * (p - q) = m * p - m * q
  BY <1>1, <1>2
<1>5. ~(p - q >= 1)
  BY <1>1, <1>2, <1>3, <1>4
<1>6. p <= q
  BY <1>1, <1>2, <1>5
<1> QED BY <1>6 DEF p, q

(* Dividing by m and then by k is dividing by their product.               *)
LEMMA DivDiv ==
    ASSUME NEW m \in Nat \ {0}, NEW k \in Nat \ {0}, NEW a \in Int
    PROVE  (a \div m) \div k = a \div (m * k)
<1> DEFINE p == a \div m   r == a % m   q == p \div k   s == p % k
<1>1. a = m * p + r /\ p \in Int /\ r \in 0..m-1
  BY DivMod
<1> HIDE DEF p
<1>2. p = k * q + s /\ q \in Int /\ s \in 0..k-1
  BY <1>1, DivMod
<1> HIDE DEF r, q, s
<1>3. m * k \in Nat \ {0}
  OBVIOUS
<1>4. m * s + r \in 0..(m * k)-1
  <2>1. m * s >= 0 /\ m * s \in Int
    BY <1>2
  <2>2. m * (k - s) >= m
    BY <1>2, MulAtLeast
  <2>3. m * (k - s) = m * k - m * s
    BY <1>2
  <2> QED BY <1>1, <1>3, <2>1, <2>2, <2>3
<1>5. a = (m * k) * q + (m * s + r)
  <2>1. m * (k * q + s) = (m * k) * q + m * s
    BY <1>2
  <2> QED BY <1>1, <1>2, <2>1
<1>6. a \div (m * k) = q
  BY <1>2, <1>3, <1>4, <1>5, DivModOf
<1> QED BY <1>6 DEF q, p

(* What is in one page is in one page of any multiple of its size.         *)
LEMMA SamePageOfLarger ==
    ASSUME NEW m \in Nat \ {0}, NEW k \in Nat \ {0},
           NEW a \in Int, NEW b \in Int, a \div m = b \div m
    PROVE  a \div (m * k) = b \div (m * k)
<1>1. (a \div m) \div k = a \div (m * k)
  BY DivDiv, Zenon
<1>2. (b \div m) \div k = b \div (m * k)
  BY DivDiv, Zenon
<1> QED BY <1>1, <1>2

(* Wrapping at a multiple first does not change the residue.               *)
LEMMA ModOfMod ==
    ASSUME NEW m \in Nat \ {0}, NEW c \in Nat \ {0}, c % m = 0, NEW a \in Int
    PROVE  (a % c) % m = a % m
<1> DEFINE k == c \div m   q == a \div c   b == a % c   j == b \div m   r == b % m
<1>1. c = m * k /\ k \in Int
  <2>1. c = m * k + (c % m) /\ k \in Int
    BY DivMod
  <2> HIDE DEF k
  <2> QED BY <2>1
<1>2. a = c * q + b /\ q \in Int /\ b \in Int
  BY DivMod
<1> HIDE DEF k, q, b
<1>3. b = m * j + r /\ j \in Int /\ r \in 0..m-1
  BY <1>2, DivMod
<1> HIDE DEF j, r
<1>4. c * q = m * (k * q) /\ k * q \in Int
  BY <1>1, <1>2
<1> DEFINE p == k * q
<1> HIDE DEF p
<1>5. a = m * (p + j) + r /\ p + j \in Int
  BY <1>2, <1>3, <1>4 DEF p
<1>6. a % m = r
  BY <1>3, <1>5, DivModOf
<1> QED BY <1>6 DEF r, b

(* The residue by a divisor is at most the residue.                        *)
LEMMA ModMod ==
    ASSUME NEW m \in Nat \ {0}, NEW k \in Nat \ {0}, NEW c \in Int, c = m * k, NEW a \in Int
    PROVE  a % m <= a % c
<1> DEFINE b == a % (m * k)   q == a \div (m * k)   p == b \div m   r == b % m
<1>1. m * k \in Nat \ {0}
  OBVIOUS
<1>2. a = (m * k) * q + b /\ q \in Int /\ b \in 0..(m * k)-1
  BY <1>1, DivMod
<1> HIDE DEF b, q
<1>3. b = m * p + r /\ p \in Int /\ r \in 0..m-1
  BY <1>2, DivMod
<1> HIDE DEF p, r
<1>4. a = m * (k * q + p) + r /\ k * q + p \in Int
  <2>1. m * (k * q + p) = (m * k) * q + m * p /\ k * q + p \in Int
    BY <1>2, <1>3
  <2> QED BY <1>2, <1>3, <2>1
<1>5. a % m = r
  BY <1>3, <1>4, DivModOf
<1>6. p >= 0
  <2>1. CASE -p >= 1
    <3>1. m * (-p) >= m /\ m * (-p) = -(m * p)
      BY <2>1, <1>3, MulAtLeast
    <3> QED BY <3>1, <1>2, <1>3
  <2> QED BY <2>1, <1>3
<1>7. m * p >= 0 /\ m * p \in Int
  BY <1>3, <1>6
<1> QED BY <1>2, <1>3, <1>5, <1>7 DEF b

(* n bytes from a that end before the page does are all in one page.       *)
LEMMA SamePage ==
    ASSUME NEW m \in Nat \ {0}, NEW a \in Int, NEW n \in Nat \ {0}, n <= m - (a % m)
    PROVE  a \div m = (a + n - 1) \div m
<1> DEFINE q == a \div m   r == a % m
<1>1. a = m * q + r /\ q \in Int /\ r \in 0..m-1
  BY DivMod
<1>2. r + n - 1 \in 0..m-1
  BY <1>1
<1> HIDE DEF q, r
<1>3. (m * q + (r + n - 1)) \div m = q
  BY <1>1, <1>2, DivModOf
<1>4. a + n - 1 = m * q + (r + n - 1)
  BY <1>1
<1> QED BY <1>3, <1>4 DEF q

----------------------------------------------------------------------------
(* Queues. *)

(* The places of e. *)
Places(q, e) == {i \in 1..Len(q) : q[i] = e}

Is(x, e) == IF x = e THEN 1 ELSE 0

(* There are at most as many as entries. *)
LEMMA OccurrencesType ==
    ASSUME NEW S, NEW q \in Seq(S), NEW e
    PROVE  /\ IsFiniteSet(Places(q, e))
           /\ Occurrences(q, e) = Cardinality(Places(q, e))
           /\ Occurrences(q, e) \in Nat
           /\ Occurrences(q, e) <= Len(q)
<1>1. Len(q) \in Nat /\ 1 \in Int /\ Len(q) \in Int
  BY LenProperties
<1>2. IsFiniteSet(1..Len(q)) /\ Cardinality(1..Len(q)) = IF 1 > Len(q) THEN 0 ELSE Len(q) - 1 + 1
  BY <1>1, FS_Interval
<1>3. Cardinality(1..Len(q)) = Len(q)
  BY <1>1, <1>2
<1>4. Places(q, e) \in SUBSET (1..Len(q))
  BY DEF Places
<1>5. IsFiniteSet(Places(q, e)) /\ Cardinality(Places(q, e)) <= Len(q)
  BY <1>2, <1>3, <1>4, FS_Subset
<1>6. Cardinality(Places(q, e)) \in Nat
  BY <1>5, FS_CardinalityType
<1>7. Occurrences(q, e) = Cardinality(Places(q, e))
  BY DEF Occurrences, Places
<1> QED BY <1>5, <1>6, <1>7

(* An empty queue has none. *)
LEMMA OccurrencesEmpty ==
    ASSUME NEW e PROVE Occurrences(<<>>, e) = 0
<1>1. {i \in 1..Len(<<>>) : <<>>[i] = e} = {}
  <2>1. Len(<<>>) = 0
    BY EmptySeq
  <2> QED BY <2>1
<1> QED BY <1>1, FS_EmptySet DEF Occurrences

(* What is pushed counts. *)
LEMMA OccurrencesPush ==
    ASSUME NEW S, NEW q \in Seq(S), NEW x \in S, NEW e
    PROVE  Occurrences(q \o <<x>>, e) = Occurrences(q, e) + Is(x, e)
<1> DEFINE p == q \o <<x>>
<1>1. Len(q) \in Nat
  BY LenProperties
<1>2. <<x>> \in Seq(S) /\ Len(<<x>>) = 1 /\ <<x>>[1] = x
  OBVIOUS
<1>3. /\ p \in Seq(S) /\ Len(p) = Len(q) + 1
      /\ \A i \in 1..Len(q) : p[i] = q[i]
      /\ p[Len(q) + 1] = x
  <2>1. p \in Seq(S) /\ Len(p) = Len(q) + 1
    BY <1>2, ConcatProperties
  <2>2. \A i \in 1..Len(q) + 1 : p[i] = IF i <= Len(q) THEN q[i] ELSE <<x>>[i - Len(q)]
    BY <1>2, ConcatProperties
  <2>3. Len(q) + 1 \in 1..Len(q) + 1 /\ Len(q) + 1 - Len(q) = 1 /\ ~(Len(q) + 1 <= Len(q))
    BY <1>1
  <2>4. p[Len(q) + 1] = x
    BY <1>2, <2>2, <2>3
  <2>5. \A i \in 1..Len(q) : i \in 1..Len(q) + 1 /\ i <= Len(q)
    BY <1>1
  <2>6. \A i \in 1..Len(q) : p[i] = q[i]
    BY <2>2, <2>5
  <2> QED BY <2>1, <2>4, <2>6
<1> HIDE DEF p
<1>4. Places(p, e) = IF x = e THEN Places(q, e) \cup {Len(q) + 1} ELSE Places(q, e)
  <2>1. 1..Len(p) = (1..Len(q)) \cup {Len(q) + 1}
    BY <1>1, <1>3
  <2>2. Len(q) + 1 \notin 1..Len(q)
    BY <1>1
  <2> QED BY <1>3, <2>1, <2>2 DEF Places
<1>5. Len(q) + 1 \notin Places(q, e)
  BY <1>1 DEF Places
<1>6. IsFiniteSet(Places(q, e)) /\ Occurrences(q, e) = Cardinality(Places(q, e))
  BY OccurrencesType
<1>7. Occurrences(p, e) = Cardinality(Places(p, e))
  BY <1>3, OccurrencesType
<1>8. Cardinality(Places(q, e) \cup {Len(q) + 1}) = Cardinality(Places(q, e)) + 1
  BY <1>5, <1>6, FS_AddElement
<1>9. Cardinality(Places(q, e)) \in Nat
  BY <1>6, OccurrencesType
<1>10. CASE x = e
  BY <1>4, <1>6, <1>7, <1>8, <1>10 DEF p, Is
<1>11. CASE x # e
  BY <1>4, <1>6, <1>7, <1>9, <1>11 DEF p, Is
<1> QED BY <1>10, <1>11

(* What is popped no longer counts. *)
LEMMA OccurrencesPop ==
    ASSUME NEW S, NEW q \in Seq(S), q # <<>>, NEW e
    PROVE  Occurrences(q, e) = Occurrences(Tail(q), e) + Is(Head(q), e)
<1> DEFINE t == Tail(q)
           later == Places(q, e) \ {1}
<1>1. Len(q) \in Nat \ {0} /\ Head(q) = q[1] /\ Head(q) \in S
  BY EmptySeq, HeadTailProperties
<1>2. /\ t \in Seq(S) /\ Len(t) = Len(q) - 1
      /\ \A i \in 1..Len(t) : t[i] = q[i + 1]
  BY <1>1, HeadTailProperties
<1> HIDE DEF t
<1>3. IsFiniteSet(Places(t, e)) /\ Occurrences(t, e) = Cardinality(Places(t, e)) /\ Occurrences(t, e) \in Nat
  BY <1>2, OccurrencesType
<1>4. IsFiniteSet(Places(q, e)) /\ Occurrences(q, e) = Cardinality(Places(q, e)) /\ Occurrences(q, e) \in Nat
  BY OccurrencesType
<1>5. ExistsBijection(Places(t, e), later)
  <2> DEFINE f == [i \in Places(t, e) |-> i + 1]
  <2>1. \A i \in Places(t, e) : f[i] \in later
    BY <1>1, <1>2 DEF Places
  <2>2. \A i, j \in Places(t, e) : f[i] = f[j] => i = j
    BY <1>1, <1>2 DEF Places
  <2>3. \A k \in later : \E i \in Places(t, e) : f[i] = k
    <3> SUFFICES ASSUME NEW k \in later PROVE k - 1 \in Places(t, e) /\ f[k - 1] = k
      OBVIOUS
    <3>1. k \in 2..Len(q) /\ q[k] = e
      BY <1>1 DEF Places
    <3>2. k - 1 \in 1..Len(t) /\ (k - 1) + 1 = k
      BY <1>1, <1>2, <3>1
    <3>3. t[k - 1] = e
      BY <1>2, <3>1, <3>2
    <3> QED BY <3>2, <3>3 DEF Places
  <2>4. f \in Bijection(Places(t, e), later)
    BY <2>1, <2>2, <2>3 DEF Bijection, Injection, Surjection, IsInjective
  <2> QED BY <2>4 DEF ExistsBijection
<1>6. Cardinality(later) = Occurrences(t, e)
  BY <1>3, <1>5, FS_Bijection
<1>7. Cardinality(later) = IF 1 \in Places(q, e) THEN Cardinality(Places(q, e)) - 1 ELSE Cardinality(Places(q, e))
  BY <1>4, FS_RemoveElement
<1>8. 1 \in Places(q, e) <=> Head(q) = e
  BY <1>1 DEF Places
<1>9. CASE Head(q) = e
  BY <1>3, <1>4, <1>6, <1>7, <1>8, <1>9 DEF t, Is
<1>10. CASE Head(q) # e
  BY <1>3, <1>4, <1>6, <1>7, <1>8, <1>10 DEF t, Is
<1> QED BY <1>9, <1>10

(* What a push adds and a pop takes away.                                  *)
PushedOf(push, e) == IF push = <<>> THEN 0 ELSE Is(Head(push), e)
PoppedOf(q, pop, e) == IF pop THEN Is(Head(q), e) ELSE 0

(* The head is in the queue.                                               *)
LEMMA OccurrencesHead ==
    ASSUME NEW S, NEW q \in Seq(S), q # <<>>, NEW e, Head(q) = e
    PROVE  Occurrences(q, e) > 0
<1> DEFINE rest == Occurrences(Tail(q), e)
           all  == Occurrences(q, e)
<1>1. all = rest + Is(Head(q), e) /\ Is(Head(q), e) = 1
  BY OccurrencesPop DEF Is
<1>2. Tail(q) \in Seq(S)
  BY HeadTailProperties
<1>3. rest \in Nat
  BY <1>2, OccurrencesType
<1>4. all = rest + 1
  BY <1>1
<1> HIDE DEF rest, all
<1>5. all > 0
  BY <1>3, <1>4
<1> QED BY <1>5 DEF all

(* A queue that loses its head if `pop` and gains `push`, if that is not   *)
(* empty.                                                                  *)
LEMMA QueueStep ==
    ASSUME NEW S, NEW q \in Seq(S), NEW pop \in BOOLEAN, pop => q # <<>>, NEW e,
           NEW push, push = <<>> \/ \E x \in S : push = <<x>>
    PROVE  /\ Rest(q, pop) \o push \in Seq(S)
           /\ Len(Rest(q, pop) \o push) = Len(q) - One(pop) + Len(push)
           /\ Occurrences(Rest(q, pop) \o push, e) =
                Occurrences(q, e) - PoppedOf(q, pop, e) + PushedOf(push, e)
<1> DEFINE kept == Rest(q, pop)
<1>1. /\ kept \in Seq(S) /\ Len(kept) = Len(q) - One(pop)
      /\ Occurrences(kept, e) = Occurrences(q, e) - PoppedOf(q, pop, e)
  <2>1. Occurrences(q, e) \in Nat /\ Len(q) \in Nat
    BY OccurrencesType, LenProperties
  <2>2. CASE pop
    <3>1. Occurrences(q, e) = Occurrences(Tail(q), e) + Is(Head(q), e)
      BY <2>2, OccurrencesPop
    <3>2. Tail(q) \in Seq(S) /\ Len(Tail(q)) = Len(q) - 1
      BY <2>2, HeadTailProperties
    <3>3. Occurrences(Tail(q), e) \in Nat
      BY <3>2, OccurrencesType
    <3>4. Occurrences(Tail(q), e) = Occurrences(q, e) - Is(Head(q), e)
      BY <2>1, <3>1, <3>3 DEF Is
    <3> QED BY <2>2, <3>2, <3>4 DEF Rest, PoppedOf, One
  <2>3. CASE ~pop
    BY <2>1, <2>3 DEF Rest, PoppedOf, One
  <2> QED BY <2>2, <2>3
<1> HIDE DEF kept
<1>2. Occurrences(kept, e) \in Nat /\ Len(kept) \in Nat
  BY <1>1, OccurrencesType, LenProperties
<1>3. CASE push = <<>>
  <2>1. kept \o push = kept /\ Len(push) = 0
    BY <1>1, <1>3, ConcatEmptySeq, EmptySeq
  <2> QED BY <1>1, <1>2, <1>3, <2>1 DEF kept, PushedOf
<1>4. CASE push # <<>>
  <2>1. PICK x \in S : push = <<x>>
    BY <1>4
  <2>2. push \in Seq(S) /\ Len(push) = 1 /\ Head(push) = x
    BY <2>1
  <2>3. kept \o push \in Seq(S) /\ Len(kept \o push) = Len(kept) + 1
    <3>1. Len(kept \o push) = Len(kept) + Len(push)
      BY <1>1, <2>2, ConcatProperties
    <3> QED BY <1>1, <2>2, <3>1, ConcatProperties
  <2>4. Occurrences(kept \o push, e) = Occurrences(kept, e) + Is(Head(push), e)
    BY <1>1, <2>1, <2>2, OccurrencesPush
  <2> QED BY <1>1, <1>2, <1>4, <2>3, <2>4 DEF kept, PushedOf
<1> QED BY <1>3, <1>4

(* Only its length and its type. *)
LEMMA QueueLength ==
    ASSUME NEW S, NEW q \in Seq(S), NEW pop \in BOOLEAN, pop => q # <<>>,
           NEW push, push = <<>> \/ \E x \in S : push = <<x>>
    PROVE  /\ Rest(q, pop) \o push \in Seq(S)
           /\ Len(Rest(q, pop) \o push) = Len(q) - One(pop) + Len(push)
<1>1. /\ Rest(q, pop) \o push \in Seq(S)
      /\ Len(Rest(q, pop) \o push) = Len(q) - One(pop) + Len(push)
      /\ Occurrences(Rest(q, pop) \o push, 0)
             = Occurrences(q, 0) - PoppedOf(q, pop, 0) + PushedOf(push, 0)
  BY QueueStep
<1> QED BY <1>1

(* What is pushed is a queue of at most one entry.                         *)
LEMMA PushedQueue ==
    ASSUME NEW S, NEW push, push = <<>> \/ \E x \in S : push = <<x>>
    PROVE  /\ push \in Seq(S) /\ Len(push) \in Nat /\ Len(push) <= 1
           /\ (push = <<>> <=> Len(push) = 0)
           /\ push # <<>> => push[1] = Head(push) /\ Len(push) = 1 /\ Head(push) \in S
<1>1. CASE push = <<>>
  <2>1. <<>> \in Seq(S) /\ Len(<<>>) = 0
    BY EmptySeq
  <2> QED BY <1>1, <2>1
<1>2. ASSUME NEW x \in S, push = <<x>>
      PROVE  /\ push \in Seq(S) /\ Len(push) = 1
             /\ push[1] = Head(push) /\ push # <<>> /\ Head(push) \in S
  BY <1>2
<1>3. CASE \E x \in S : push = <<x>>
  BY <1>2, <1>3
<1> QED BY <1>1, <1>3

(* A queue pushed into only while it has room keeps its depth.             *)
LEMMA QueueDepth ==
    ASSUME NEW S, NEW q \in Seq(S), NEW pop \in BOOLEAN, pop => q # <<>>,
           NEW push, push = <<>> \/ \E x \in S : push = <<x>>,
           NEW depth \in Nat, Len(q) <= depth, push # <<>> => Len(q) < depth
    PROVE  /\ Rest(q, pop) \o push \in Seq(S)
           /\ Len(Rest(q, pop) \o push) = Len(q) - One(pop) + Len(push)
           /\ Len(Rest(q, pop) \o push) <= depth
           /\ Len(q) \in Nat /\ (q = <<>> <=> Len(q) = 0)
           /\ Len(push) \in Nat /\ Len(push) <= 1 /\ (push = <<>> <=> Len(push) = 0)
<1>1. /\ Rest(q, pop) \o push \in Seq(S)
      /\ Len(Rest(q, pop) \o push) = Len(q) - One(pop) + Len(push)
  BY QueueLength
<1>2. Len(q) \in Nat /\ (q = <<>> <=> Len(q) = 0)
  BY LenProperties, EmptySeq
<1>3. Len(push) \in Nat /\ Len(push) <= 1 /\ (push = <<>> <=> Len(push) = 0)
  BY PushedQueue
<1>4. One(pop) \in 0..1
  BY DEF One
<1>5. CASE push = <<>>
  BY <1>1, <1>2, <1>3, <1>4, <1>5
<1>6. CASE push # <<>>
  BY <1>1, <1>2, <1>3, <1>4, <1>6
<1> QED BY <1>1, <1>2, <1>3, <1>5, <1>6

(* A step of a queue: e entries leave it and n enter.                      *)
Advanced(q, next, pop, push) ==
    \E e, n \in 0..1 :
        /\ (e = 1 <=> pop) /\ (n = 1 <=> push # <<>>)
        /\ Len(q) \in Nat /\ Len(q) >= e /\ (q = <<>> <=> Len(q) = 0)
        /\ Len(next) = Len(q) - e + n
        /\ \A k \in 1..Len(q) - e : next[k] = q[k + e]
        /\ n = 1 => next[Len(q) - e + 1] = Head(push)

LEMMA QueueMoves ==
    ASSUME NEW S, NEW q \in Seq(S), NEW pop \in BOOLEAN, pop => q # <<>>,
           NEW push, push = <<>> \/ \E x \in S : push = <<x>>
    PROVE  Rest(q, pop) \o push \in Seq(S) /\ Advanced(q, Rest(q, pop) \o push, pop, push)
<1> DEFINE kept == Rest(q, pop)
           N == Len(q)
           n == Len(push)
           e == One(pop)
<1>1. N \in Nat /\ (q = <<>> <=> N = 0)
  BY EmptySeq
<1>2. e \in 0..1 /\ (e = 1 <=> pop)
  BY DEF One
<1>3. /\ kept \in Seq(S) /\ Len(kept) = N - e
      /\ \A j \in 1..N - e : kept[j] = q[j + e]
  <2>1. CASE pop
    <3>1. /\ Tail(q) \in Seq(S) /\ Len(Tail(q)) = Len(q) - 1
          /\ \A j \in 1..Len(Tail(q)) : Tail(q)[j] = q[j + 1]
      BY <2>1, HeadTailProperties
    <3> QED BY <2>1, <3>1 DEF Rest, One
  <2>2. CASE ~pop
    BY <1>1, <2>2 DEF Rest, One
  <2> QED BY <2>1, <2>2
<1>4. push \in Seq(S) /\ n \in Nat /\ n <= 1 /\ (push = <<>> <=> n = 0)
      /\ (push # <<>> => push[1] = Head(push))
  BY PushedQueue
<1> DEFINE next == kept \o push
<1>5. next \in Seq(S) /\ Len(next) = Len(kept) + n
      /\ \A j \in 1..Len(kept) + n : next[j] = IF j <= Len(kept) THEN kept[j] ELSE push[j - Len(kept)]
  BY <1>3, <1>4, ConcatProperties
<1> HIDE DEF kept, N, n, e, next
<1>6. n \in 0..1 /\ (n = 1 <=> push # <<>>) /\ N >= e
  BY <1>1, <1>2, <1>4
<1>7. Len(next) = N - e + n
  BY <1>3, <1>5
<1>8. ASSUME NEW k \in 1..N - e PROVE next[k] = q[k + e]
  <2>1. next[k] = kept[k]
    BY <1>1, <1>2, <1>3, <1>5, <1>6
  <2> QED BY <1>3, <2>1
<1>9. ASSUME n = 1 PROVE next[N - e + 1] = Head(push)
  <2> DEFINE j == N - e + 1
  <2>1. j \in 1..(N - e) + n /\ ~(j <= N - e) /\ j - (N - e) = 1
    BY <1>1, <1>2, <1>6, <1>9
  <2> HIDE DEF j
  <2>2. next[j] = push[1]
    BY <1>3, <1>5, <2>1
  <2> QED BY <1>4, <1>6, <1>9, <2>2 DEF j
<1> QED BY <1>1, <1>2, <1>5, <1>6, <1>7, <1>8, <1>9, Zenon DEF N, next, kept, Advanced

(* A head that is not taken stays.                                         *)
LEMMA QueueHead ==
    ASSUME NEW S, NEW q \in Seq(S), q # <<>>,
           NEW push, push = <<>> \/ \E x \in S : push = <<x>>
    PROVE  q \o push # <<>> /\ Head(q \o push) = Head(q)
<1>1. push \in Seq(S) /\ Len(push) \in Nat
  BY PushedQueue
<1>2. Len(q) \in Nat \ {0}
  BY EmptySeq
<1>3. /\ q \o push \in Seq(S) /\ Len(q \o push) = Len(q) + Len(push)
      /\ (q \o push)[1] = q[1]
  BY <1>1, <1>2, ConcatProperties
<1>4. q \o push # <<>>
  BY <1>2, <1>3, EmptySeq
<1>5. Head(q) = q[1] /\ Head(q \o push) = (q \o push)[1]
  BY <1>3
<1> QED BY <1>3, <1>4, <1>5

(* The entries of a queue follow each other: each ends, by L, where the    *)
(* next begins, by F, and the newest ends at `end`.                        *)
Chain(q, F, L, end) ==
    \A k \in 1..Len(q) : L[q[k]] = IF k < Len(q) THEN F[q[k + 1]] ELSE end

(* Where the queue begins.                                                 *)
Begin(q, F, end) == IF q = <<>> THEN end ELSE F[q[1]]

(* What a step of the queue does to it.                                    *)
Linked(q, next, pop, F, L, end, end2) ==
    /\ Chain(next, F, L, end2)
    /\ Begin(next, F, end2) = IF pop THEN L[q[1]] ELSE Begin(q, F, end)
    /\ ~pop /\ q # <<>> => next # <<>> /\ next[1] = q[1]

LEMMA ChainStep ==
    ASSUME NEW S, NEW q \in Seq(S), NEW pop \in BOOLEAN, pop => q # <<>>,
           NEW push, push = <<>> \/ \E x \in S : push = <<x>>,
           NEW F, NEW L, NEW end, NEW end2, Chain(q, F, L, end),
           push = <<>> => end2 = end,
           push # <<>> => F[Head(push)] = end /\ L[Head(push)] = end2
    PROVE  /\ Rest(q, pop) \o push \in Seq(S)
           /\ Linked(q, Rest(q, pop) \o push, pop, F, L, end, end2)
<1> DEFINE next == Rest(q, pop) \o push
           N == Len(q)
           M == Len(next)
           h == Head(push)
<1>1. next \in Seq(S) /\ Advanced(q, next, pop, push)
  BY QueueMoves
<1> HIDE DEF next
<1>2. PICK e \in 0..1, n \in 0..1 :
        /\ (e = 1 <=> pop) /\ (n = 1 <=> push # <<>>)
        /\ N \in Nat /\ N >= e /\ (q = <<>> <=> N = 0)
        /\ M = N - e + n
        /\ \A k \in 1..N - e : next[k] = q[k + e]
        /\ n = 1 => next[N - e + 1] = h
  BY <1>1 DEF Advanced
<1>3. next = <<>> <=> M = 0
  BY <1>1, EmptySeq
<1>4. \A k \in 1..N : L[q[k]] = IF k < N THEN F[q[k + 1]] ELSE end
  BY DEF Chain
<1>5. (n = 0 => end2 = end) /\ (n = 1 => F[h] = end /\ L[h] = end2)
  BY <1>2
<1> HIDE DEF N, M, h
<1>6. ASSUME NEW k \in 1..M
      PROVE  L[next[k]] = IF k < M THEN F[next[k + 1]] ELSE end2
  <2>1. CASE k \in 1..N - e
    <3>1. k + e \in 1..N /\ next[k] = q[k + e]
      BY <1>2, <2>1
    <3>2. CASE k + e < N
      <4>1. k + 1 \in 1..N - e /\ (k + 1) + e = (k + e) + 1 /\ k < M
        BY <1>2, <2>1, <3>2
      <4>2. next[k + 1] = q[(k + e) + 1]
        BY <1>2, <4>1
      <4>3. L[q[k + e]] = F[q[(k + e) + 1]]
        BY <1>4, <3>1, <3>2
      <4> QED BY <3>1, <4>1, <4>2, <4>3
    <3>3. CASE ~(k + e < N)
      <4>1. k = N - e /\ (n = 1 => k < M /\ next[k + 1] = h) /\ (n = 0 => ~(k < M))
        BY <1>2, <2>1, <3>1, <3>3
      <4>2. L[q[k + e]] = end
        BY <1>4, <3>1, <3>3
      <4> QED BY <1>2, <1>5, <3>1, <4>1, <4>2
    <3> QED BY <3>2, <3>3
  <2>2. CASE ~(k \in 1..N - e)
    <3>1. n = 1 /\ k = N - e + 1 /\ ~(k < M)
      BY <1>2, <2>2
    <3> QED BY <1>2, <1>5, <3>1
  <2> QED BY <2>1, <2>2
<1>7. Begin(next, F, end2) = IF pop THEN L[q[1]] ELSE Begin(q, F, end)
  <2>1. CASE N - e > 0
    <3>1. 1 \in 1..N - e /\ M # 0 /\ 1 \in 1..N /\ N # 0
      BY <1>2, <2>1
    <3>2. next[1] = q[1 + e] /\ next # <<>> /\ q # <<>>
      BY <1>2, <1>3, <3>1
    <3>3. CASE pop
      <4>1. e = 1 /\ 1 < N /\ 1 + e = 1 + 1
        BY <1>2, <2>1, <3>3
      <4>2. L[q[1]] = F[q[1 + 1]]
        BY <1>4, <3>1, <4>1
      <4> QED BY <3>2, <3>3, <4>1, <4>2 DEF Begin
    <3>4. CASE ~pop
      <4>1. e = 0 /\ 1 + e = 1
        BY <1>2, <3>4
      <4> QED BY <3>2, <3>4, <4>1 DEF Begin
    <3> QED BY <3>3, <3>4
  <2>2. CASE ~(N - e > 0)
    <3>1. CASE pop
      <4>1. e = 1 /\ N = 1
        BY <1>2, <2>2, <3>1
      <4>2. L[q[1]] = end
        BY <1>4, <4>1
      <4>3. CASE n = 0
        BY <1>2, <1>3, <1>5, <3>1, <4>1, <4>2, <4>3 DEF Begin
      <4>4. CASE n = 1
        <5>1. next[1] = h /\ M # 0
          BY <1>2, <4>1, <4>4
        <5> QED BY <1>3, <1>5, <3>1, <4>2, <4>4, <5>1 DEF Begin
      <4> QED BY <4>3, <4>4
    <3>2. CASE ~pop
      <4>1. e = 0 /\ N = 0 /\ q = <<>>
        BY <1>2, <2>2, <3>2
      <4>2. CASE n = 0
        BY <1>2, <1>3, <1>5, <3>2, <4>1, <4>2 DEF Begin
      <4>3. CASE n = 1
        <5>1. next[1] = h /\ M # 0
          BY <1>2, <4>1, <4>3
        <5> QED BY <1>3, <1>5, <3>2, <4>1, <4>3, <5>1 DEF Begin
      <4> QED BY <4>2, <4>3
    <3> QED BY <3>1, <3>2
  <2> QED BY <2>1, <2>2
<1>8. ~pop /\ q # <<>> => next # <<>> /\ next[1] = q[1]
  <2> SUFFICES ASSUME ~pop, q # <<>> PROVE next # <<>> /\ next[1] = q[1]
    OBVIOUS
  <2>1. e = 0 /\ N # 0
    BY <1>2
  <2>2. 1 \in 1..N - e /\ M # 0 /\ 1 + e = 1
    BY <1>2, <2>1
  <2> QED BY <1>2, <1>3, <2>2
<1> QED BY <1>1, <1>6, <1>7, <1>8 DEF next, N, M, Chain, Linked

(* A queue of flags that is given `flag` if emits: how many are set.       *)
LEMMA FlagQueueStep ==
    ASSUME NEW q \in Seq(BOOLEAN), NEW pop \in BOOLEAN, pop => q # <<>>,
           NEW emits \in BOOLEAN, NEW flag \in BOOLEAN
    PROVE  /\ Rest(q, pop) \o (IF emits THEN <<flag>> ELSE <<>>) \in Seq(BOOLEAN)
           /\ Len(Rest(q, pop) \o (IF emits THEN <<flag>> ELSE <<>>)) = Len(q) - One(pop) + One(emits)
           /\ Len(q) \in Nat /\ (q = <<>> <=> Len(q) = 0)
           /\ Occurrences(q, TRUE) \in Nat /\ Occurrences(q, TRUE) <= Len(q)
           /\ Occurrences(Rest(q, pop) \o (IF emits THEN <<flag>> ELSE <<>>), TRUE) \in Nat
           /\ Occurrences(Rest(q, pop) \o (IF emits THEN <<flag>> ELSE <<>>), TRUE)
                  = Occurrences(q, TRUE) - (IF pop /\ Head(q) THEN 1 ELSE 0)
                                         + (IF emits /\ flag THEN 1 ELSE 0)
<1> DEFINE yes == TRUE
           Flags == BOOLEAN
           push == IF emits THEN <<flag>> ELSE <<>>
<1>1. push = <<>> \/ \E x \in Flags : push = <<x>>
  BY DEF Flags
<1>2. PushedOf(push, yes) = IF emits /\ flag THEN 1 ELSE 0
  <2>1. CASE emits
    <3>1. push # <<>> /\ Head(push) = flag
      BY <2>1
    <3> QED BY <2>1, <3>1 DEF PushedOf, Is
  <2>2. CASE ~emits
    BY <2>2 DEF PushedOf
  <2> QED BY <2>1, <2>2
<1>3. PoppedOf(q, pop, yes) = IF pop /\ Head(q) THEN 1 ELSE 0
  <2>1. pop => Head(q) \in BOOLEAN
    BY HeadTailProperties
  <2> QED BY <2>1 DEF PoppedOf, Is
<1>4. Len(push) = One(emits)
  BY DEF One
<1>5. q \in Seq(Flags)
  OBVIOUS
<1> HIDE DEF yes, Flags, push
<1>6. /\ Rest(q, pop) \o push \in Seq(Flags)
      /\ Len(Rest(q, pop) \o push) = Len(q) - One(pop) + Len(push)
      /\ Occurrences(Rest(q, pop) \o push, yes)
             = Occurrences(q, yes) - PoppedOf(q, pop, yes) + PushedOf(push, yes)
  BY <1>1, <1>5, QueueStep
<1> DEFINE new == Rest(q, pop) \o push
<1>7. new \in Seq(Flags)
  BY <1>6
<1> HIDE DEF new
<1>8. /\ Occurrences(q, yes) \in Nat /\ Occurrences(q, yes) <= Len(q)
      /\ Occurrences(new, yes) \in Nat
  BY <1>5, <1>7, OccurrencesType
<1>9. Len(q) \in Nat /\ (q = <<>> <=> Len(q) = 0)
  BY <1>5, LenProperties, EmptySeq
<1>10. Occurrences(new, yes) = Occurrences(q, yes) - (IF pop /\ Head(q) THEN 1 ELSE 0)
                                                  + (IF emits /\ flag THEN 1 ELSE 0)
  BY <1>2, <1>3, <1>6 DEF new
<1> QED BY <1>4, <1>6, <1>8, <1>9, <1>10 DEF yes, new, Flags, push

----------------------------------------------------------------------------
(* Induction, and functions defined by recursion, up to a number.          *)

(* What holds of 1 and, with each number below n, of the next, holds of n: *)
(* if it did not, adding one would map the members of S up to n into those *)
(* but 1, which are one less (the pigeonhole principle).                   *)
LEMMA Climb ==
    ASSUME NEW n \in Nat \ {0}, NEW S, 1 \in S, \A d \in 1..n : d \in S /\ d < n => d + 1 \in S
    PROVE  n \in S
<1> DEFINE T == {d \in 1..n : d \in S}
           U == T \ {1}
           f == [d \in T |-> d + 1]
<1> SUFFICES ASSUME n \notin S PROVE FALSE
  OBVIOUS
<1>1. IsFiniteSet(T)
  <2>1. IsFiniteSet(1..n)
    BY FS_Interval
  <2>2. T \in SUBSET (1..n)
    OBVIOUS
  <2> QED BY <2>1, <2>2, FS_Subset
<1>2. \A d \in T : d + 1 \in U
  <2> SUFFICES ASSUME NEW d \in T PROVE d + 1 \in U
    OBVIOUS
  <2>1. d \in 1..n /\ d \in S /\ d # n
    OBVIOUS
  <2>2. d + 1 \in S /\ d + 1 \in 1..n /\ d + 1 # 1
    BY <2>1
  <2> QED BY <2>2
<1>3. 1 \in T
  OBVIOUS
<1>4. f \in [T -> U] /\ \A x, y \in T : f[x] = f[y] => x = y
  BY <1>2
<1> HIDE DEF T, f
<1>5. IsFiniteSet(U) /\ Cardinality(U) = Cardinality(T) - 1 /\ Cardinality(T) \in Nat
  BY <1>1, <1>3, FS_RemoveElement, FS_CardinalityType
<1> HIDE DEF U
<1>6. Cardinality(U) < Cardinality(T)
  BY <1>5
<1>7. \E x, y \in T : x # y /\ f[x] = f[y]
  BY <1>1, <1>4, <1>5, <1>6, FS_PigeonHole
<1> QED BY <1>4, <1>7

(* ... and so of every number up to n.                                     *)
LEMMA ClimbAll ==
    ASSUME NEW n \in Nat, NEW S, 1 \in S, \A d \in 1..n : d \in S /\ d < n => d + 1 \in S
    PROVE  \A d \in 1..n : d \in S
<1> SUFFICES ASSUME NEW m \in 1..n PROVE m \in S
  OBVIOUS
<1>1. m \in Nat \ {0} /\ \A d \in 1..m : d \in S /\ d < m => d + 1 \in S
  OBVIOUS
<1> QED BY <1>1, Climb

(* f begins with a, and G gives each value from the one before.            *)
Recursive(f, n, a, G) == \A d \in 1..n : f[d] = IF d = 1 THEN a ELSE G[<<d, f[d - 1]>>]

(* A start and a rule for each next value define a function.               *)
LEMMA Recursion ==
    ASSUME NEW n \in Nat \ {0}, NEW V, NEW a \in V,
           NEW G, \A d \in 1..n, v \in V : G[<<d, v>>] \in V
    PROVE  \E f \in [1..n -> V] : Recursive(f, n, a, G)
<1> DEFINE Upto(m) == \E f \in [1..m -> V] :
                          \A d \in 1..m : f[d] = IF d = 1 THEN a ELSE G[<<d, f[d - 1]>>]
           S == {m \in 1..n : Upto(m)}
<1>1. 1 \in S
  <2> DEFINE f == [d \in 1..1 |-> a]
  <2>1. f \in [1..1 -> V] /\ \A d \in 1..1 : f[d] = IF d = 1 THEN a ELSE G[<<d, f[d - 1]>>]
    OBVIOUS
  <2>2. Upto(1)
    BY <2>1
  <2> QED BY <2>2
<1>2. ASSUME NEW m \in 1..n, m \in S, m < n PROVE m + 1 \in S
  <2>1. PICK f \in [1..m -> V] : \A d \in 1..m : f[d] = IF d = 1 THEN a ELSE G[<<d, f[d - 1]>>]
    BY <1>2
  <2> DEFINE w == G[<<m + 1, f[m]>>]
             g == [d \in 1..m+1 |-> IF d = m + 1 THEN w ELSE f[d]]
  <2>2. \A d \in 1..m : f[d] \in V
    BY <2>1
  <2>3. w \in V
    <3>1. m \in 1..m /\ m + 1 \in 1..n
      BY <1>2
    <3> QED BY <2>2, <3>1
  <2>4. g \in [1..m+1 -> V]
    <3> HIDE DEF w
    <3> QED BY <2>2, <2>3
  <2>5. ASSUME NEW d \in 1..m+1 PROVE g[d] = IF d = 1 THEN a ELSE G[<<d, g[d - 1]>>]
    <3>1. CASE d = m + 1
      <4>1. m \in 1..m+1 /\ m # m + 1 /\ d - 1 = m /\ d # 1
        BY <1>2, <3>1
      <4>2. g[d] = w /\ g[m] = f[m]
        BY <3>1, <4>1
      <4> QED BY <3>1, <4>1, <4>2
    <3>2. CASE d # m + 1
      <4>1. d \in 1..m /\ (d # 1 => d - 1 \in 1..m+1 /\ d - 1 # m + 1)
        BY <3>2
      <4>2. g[d] = f[d] /\ (d # 1 => g[d - 1] = f[d - 1])
        BY <3>2, <4>1
      <4>3. f[d] = IF d = 1 THEN a ELSE G[<<d, f[d - 1]>>]
        BY <2>1, <4>1
      <4> HIDE DEF g
      <4> QED BY <4>2, <4>3
    <3> QED BY <3>1, <3>2
  <2> HIDE DEF g
  <2>6. Upto(m + 1)
    BY <2>4, <2>5
  <2> QED BY <1>2, <2>6
<1> HIDE DEF S
<1>3. n \in S
  BY <1>1, <1>2, Climb
<1> QED BY <1>3 DEF S, Recursive

============================================================================
