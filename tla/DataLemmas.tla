---------------------------- MODULE DataLemmas -----------------------------
(***************************************************************************)
(* Lemmas that know nothing of the kernel: what the sequence operators of  *)
(* its queues do to the elements of a queue and to their order, induction, *)
(* what the folds of the community modules compute, and remainders.        *)
(***************************************************************************)
EXTENDS Integers, Sequences, FiniteSets, SequencesExt, SequenceTheorems,
        FiniteSetTheorems, WellFoundedInduction, TLAPS

\* What a queue has at one of its places.
LEMMA PlaceElement ==
    ASSUME NEW S, NEW s \in Seq(S), NEW i \in 1..Len(s)
    PROVE  s[i] \in S /\ s[i] \in ToSet(s)
  BY ElementOfSeq DEF ToSet

\* Inserting shifts what follows by one place (std::deque::insert).
LEMMA InsertAtPlaces ==
    ASSUME NEW S, NEW s \in Seq(S), NEW e \in S, NEW i \in 1..(Len(s) + 1)
    PROVE  /\ InsertAt(s, i, e) \in Seq(S)
           /\ Len(InsertAt(s, i, e)) = Len(s) + 1
           /\ \A j \in 1..(Len(s) + 1) :
                  InsertAt(s, i, e)[j] = IF j < i THEN s[j]
                                         ELSE IF j = i THEN e ELSE s[j-1]
  <1> DEFINE front == SubSeq(s, 1, i-1)
             back == SubSeq(s, i, Len(s))
             mid == front \o <<e>>
  <1>1. front \in Seq(S) /\ Len(front) = i - 1
        /\ \A j \in 1..(i-1) : front[j] = s[j]
    BY SMT
  <1>2. back \in Seq(S) /\ Len(back) = Len(s) - i + 1
        /\ \A j \in 1..(Len(s) - i + 1) : back[j] = s[i + j - 1]
    BY SMT
  <1>3. mid \in Seq(S) /\ Len(mid) = i
        /\ \A j \in 1..i : mid[j] = IF j < i THEN s[j] ELSE e
    <2> HIDE DEF front
    <2> QED BY <1>1, SMT
  <1> HIDE DEF mid, back
  <1>4. InsertAt(s, i, e) = mid \o back
    BY DEF InsertAt, mid, back
  <1>5. Len(s) \in Nat /\ i \in 1..(Len(s) + 1)
    OBVIOUS
  <1>6. /\ mid \o back \in Seq(S)
        /\ Len(mid \o back) = Len(mid) + Len(back)
        /\ \A j \in 1..(Len(mid) + Len(back)) :
               (mid \o back)[j] = IF j <= Len(mid) THEN mid[j]
                                  ELSE back[j - Len(mid)]
    BY <1>2, <1>3, ConcatProperties
  <1>7. ASSUME NEW j \in 1..(Len(s) + 1)
        PROVE  (mid \o back)[j] = IF j < i THEN s[j]
                                  ELSE IF j = i THEN e ELSE s[j-1]
    <2>1. CASE j <= i
      BY <1>2, <1>3, <1>5, <1>6, <2>1
    <2>2. CASE ~(j <= i)
      <3>1. j - i \in 1..(Len(s) - i + 1) /\ i + (j - i) - 1 = j - 1
        BY <1>5, <2>2
      <3>2. back[j - i] = s[j-1]
        BY <1>2, <3>1
      <3> QED BY <1>2, <1>3, <1>5, <1>6, <2>2, <3>2
    <2> QED BY <2>1, <2>2
  <1> QED BY <1>2, <1>3, <1>4, <1>5, <1>6, <1>7

\* A queue holds, after an insertion, what it held and the new element, and
\* still no element twice when the new one was not in it.
LEMMA InsertAtElements ==
    ASSUME NEW S, NEW s \in Seq(S), NEW e \in S, NEW i \in 1..(Len(s) + 1)
    PROVE  /\ ToSet(InsertAt(s, i, e)) = ToSet(s) \cup {e}
           /\ IsInjective(s) /\ e \notin ToSet(s)
                  => IsInjective(InsertAt(s, i, e))
  <1>a. InsertAt(s, i, e) \in Seq(S) /\ Len(InsertAt(s, i, e)) = Len(s) + 1
    BY InsertAtPlaces
  <1>b. \A j \in 1..(Len(s) + 1) :
            InsertAt(s, i, e)[j] = IF j < i THEN s[j]
                                   ELSE IF j = i THEN e ELSE s[j-1]
    BY InsertAtPlaces
  <1> DEFINE t == InsertAt(s, i, e)
             n == Len(s)
  <1>1. t \in Seq(S) /\ Len(t) = n + 1
        /\ \A j \in 1..(n + 1) : t[j] = IF j < i THEN s[j]
                                        ELSE IF j = i THEN e ELSE s[j-1]
    BY <1>a, <1>b
  <1>2. n \in Nat /\ DOMAIN s = 1..n
    OBVIOUS
  <1> HIDE DEF t, n
  <1>3. DOMAIN t = 1..(n + 1)
    BY <1>1
  <1>4. i \in 1..(n + 1)
    BY DEF n
  <1>5. \A j \in 1..(n + 1) : t[j] \in ToSet(s) \cup {e}
    <2> SUFFICES ASSUME NEW j \in 1..(n + 1) PROVE t[j] \in ToSet(s) \cup {e}
      OBVIOUS
    <2>1. t[j] = e \/ \E k \in 1..n : t[j] = s[k]
      BY <1>1, <1>2, <1>4
    <2> QED BY <1>2, <2>1 DEF ToSet
  <1>6. e \in ToSet(t)
    BY <1>1, <1>2, <1>3, <1>4 DEF ToSet
  <1>7. \A j \in 1..n : s[j] \in ToSet(t)
    <2> SUFFICES ASSUME NEW j \in 1..n PROVE s[j] \in ToSet(t)
      OBVIOUS
    <2>1. CASE j < i
      <3>1. t[j] = s[j] /\ j \in DOMAIN t
        BY <1>1, <1>2, <1>3, <2>1
      <3> QED BY <3>1 DEF ToSet
    <2>2. CASE j >= i
      <3>1. t[j+1] = s[j] /\ j + 1 \in DOMAIN t
        BY <1>1, <1>2, <1>3, <1>4, <2>2
      <3> QED BY <3>1 DEF ToSet
    <2> QED BY <1>2, <1>4, <2>1, <2>2
  <1>8. ToSet(t) = ToSet(s) \cup {e}
    BY <1>2, <1>3, <1>5, <1>6, <1>7 DEF ToSet
  <1>9. ASSUME IsInjective(s), e \notin ToSet(s) PROVE IsInjective(t)
    <2>1. \A a, b \in 1..n : s[a] = s[b] => a = b
      BY <1>2, <1>9 DEF IsInjective
    <2>2. \A a \in 1..n : s[a] # e
      BY <1>2, <1>9 DEF ToSet
    <2>3. \A a, b \in 1..(n + 1) : t[a] = t[b] => a = b
      BY <1>1, <1>2, <1>4, <2>1, <2>2
    <2> QED BY <1>3, <2>3 DEF IsInjective
  <1> QED BY <1>8, <1>9 DEF t

\* Removing closes the gap (std::deque::erase).
LEMMA RemoveAtPlaces ==
    ASSUME NEW S, NEW s \in Seq(S), NEW i \in 1..Len(s)
    PROVE  /\ RemoveAt(s, i) \in Seq(S)
           /\ Len(RemoveAt(s, i)) = Len(s) - 1
           /\ \A j \in 1..(Len(s) - 1) :
                  RemoveAt(s, i)[j] = IF j < i THEN s[j] ELSE s[j+1]
  <1> DEFINE front == SubSeq(s, 1, i-1)
             back == SubSeq(s, i+1, Len(s))
  <1>1. front \in Seq(S) /\ Len(front) = i - 1
        /\ \A j \in 1..(i-1) : front[j] = s[j]
    BY SMT
  <1>2. back \in Seq(S) /\ Len(back) = Len(s) - i
        /\ \A j \in 1..(Len(s) - i) : back[j] = s[i + j]
    BY SMT
  <1> HIDE DEF front, back
  <1>3. RemoveAt(s, i) = front \o back
    BY DEF RemoveAt, front, back
  <1> QED BY <1>1, <1>2, <1>3, SMT

\* A queue without duplicates holds, after a removal, all but that element.
LEMMA RemoveAtElements ==
    ASSUME NEW S, NEW s \in Seq(S), NEW i \in 1..Len(s), IsInjective(s)
    PROVE  /\ ToSet(RemoveAt(s, i)) = ToSet(s) \ {s[i]}
           /\ IsInjective(RemoveAt(s, i))
  <1> DEFINE t == RemoveAt(s, i)
             n == Len(s)
  <1>1. t \in Seq(S) /\ Len(t) = n - 1
        /\ \A j \in 1..(n - 1) : t[j] = IF j < i THEN s[j] ELSE s[j+1]
    BY RemoveAtPlaces
  <1>2. n \in Nat /\ DOMAIN s = 1..n /\ i \in 1..n
    OBVIOUS
  <1>3. \A a, b \in 1..n : s[a] = s[b] => a = b
    BY DEF IsInjective
  <1> HIDE DEF t, n
  <1>4. DOMAIN t = 1..(n - 1)
    BY <1>1, <1>2
  <1>5. \A j \in 1..(n - 1) : t[j] \in ToSet(s) /\ t[j] # s[i]
    <2> SUFFICES ASSUME NEW j \in 1..(n - 1)
                 PROVE  t[j] \in ToSet(s) /\ t[j] # s[i]
      OBVIOUS
    <2>1. PICK k \in 1..n : t[j] = s[k] /\ k # i
      BY <1>1, <1>2
    <2> QED BY <1>2, <1>3, <2>1 DEF ToSet
  <1>6. ASSUME NEW j \in 1..n, j # i PROVE s[j] \in ToSet(t)
    <2>1. CASE j < i
      <3>1. t[j] = s[j] /\ j \in DOMAIN t
        BY <1>1, <1>2, <1>4, <2>1
      <3> QED BY <3>1 DEF ToSet
    <2>2. CASE j > i
      <3>1. t[j-1] = s[j] /\ j - 1 \in DOMAIN t
        BY <1>1, <1>2, <1>4, <2>2
      <3> QED BY <3>1 DEF ToSet
    <2> QED BY <1>2, <1>6, <2>1, <2>2
  <1>7. ToSet(t) = ToSet(s) \ {s[i]}
    BY <1>2, <1>4, <1>5, <1>6 DEF ToSet
  <1>8. \A a, b \in 1..(n - 1) : t[a] = t[b] => a = b
    BY <1>1, <1>2, <1>3
  <1>9. IsInjective(t)
    BY <1>4, <1>8 DEF IsInjective
  <1> QED BY <1>7, <1>9 DEF t

\* Walking down a vector without duplicates leaves all but its first element.
LEMMA TailElements ==
    ASSUME NEW S, NEW s \in Seq(S), s # <<>>, IsInjective(s)
    PROVE  /\ Head(s) \in ToSet(s) /\ Head(s) \in S
           /\ Tail(s) \in Seq(S)
           /\ ToSet(Tail(s)) = ToSet(s) \ {Head(s)}
           /\ IsInjective(Tail(s))
  <1> DEFINE t == Tail(s)
             n == Len(s)
  <1>1. n \in Nat /\ n > 0 /\ DOMAIN s = 1..n /\ Head(s) = s[1] /\ s[1] \in S
    BY EmptySeq
  <1>2. t \in Seq(S) /\ Len(t) = n - 1 /\ \A j \in 1..(n - 1) : t[j] = s[j+1]
    BY <1>1
  <1>3. \A a, b \in 1..n : s[a] = s[b] => a = b
    BY <1>1 DEF IsInjective
  <1> HIDE DEF t, n
  <1>4. DOMAIN t = 1..(n - 1)
    BY <1>1, <1>2
  <1>5. \A j \in 1..(n - 1) : t[j] \in ToSet(s) /\ t[j] # s[1]
    <2> SUFFICES ASSUME NEW j \in 1..(n - 1)
                 PROVE  t[j] \in ToSet(s) /\ t[j] # s[1]
      OBVIOUS
    <2>1. t[j] = s[j+1] /\ j + 1 \in 1..n /\ j + 1 # 1 /\ 1 \in 1..n
      BY <1>1, <1>2
    <2> QED BY <1>1, <1>3, <2>1 DEF ToSet
  <1>6. ASSUME NEW j \in 1..n, j # 1 PROVE s[j] \in ToSet(t)
    <2>1. t[j-1] = s[j] /\ j - 1 \in DOMAIN t
      BY <1>1, <1>2, <1>4, <1>6
    <2> QED BY <2>1 DEF ToSet
  <1>7. ToSet(t) = ToSet(s) \ {s[1]}
    BY <1>1, <1>4, <1>5, <1>6 DEF ToSet
  <1>8. \A a, b \in 1..(n - 1) : t[a] = t[b] => a = b
    BY <1>1, <1>2, <1>3
  <1>9. IsInjective(t)
    BY <1>4, <1>8 DEF IsInjective
  <1>10. s[1] \in ToSet(s)
    BY <1>1 DEF ToSet
  <1> QED BY <1>1, <1>2, <1>7, <1>9, <1>10 DEF t

\* An enumeration of a finite set lists each of its members exactly once.
LEMMA EnumerationElements ==
    ASSUME NEW T, IsFiniteSet(T), NEW w \in SetToSeqs(T)
    PROVE  w \in Seq(T) /\ ToSet(w) = T /\ IsInjective(w)
  <1> DEFINE n == Cardinality(T)
  <1>1. n \in Nat
    BY FS_CardinalityType
  <1>2. w \in [1..n -> T] /\ \A i, j \in 1..n : i # j => w[i] # w[j]
    BY DEF SetToSeqs
  <1>3. IsInjective(w)
    BY <1>2 DEF IsInjective
  <1>4. w \in Seq(T)
    BY <1>1, <1>2, IsASeq
  <1>5. IsFiniteSet(1..n) /\ Cardinality(1..n) = n
    BY <1>1, FS_Interval
  <1>6. w \in Injection(1..n, T)
    BY <1>2, <1>3 DEF Injection
  <1>7. w \in Surjection(1..n, T)
    BY <1>5, <1>6, FS_Injection
  <1>8. ToSet(w) = T
    BY <1>2, <1>7 DEF Surjection, ToSet
  <1> QED BY <1>3, <1>4, <1>8

-----------------------------------------------------------------------------
(* Order.                                                                  *)

\* p stands somewhere before q.
Ahead(s, p, q) == \E i, j \in DOMAIN s : i < j /\ s[i] = p /\ s[j] = q

\* Inserting e leaves the others in order, and e behind what precedes its place
\* and before what follows.
LEMMA InsertAtOrder ==
    ASSUME NEW S, NEW s \in Seq(S), NEW e \in S, NEW i \in 1..(Len(s) + 1),
           NEW p, NEW q, Ahead(InsertAt(s, i, e), p, q)
    PROVE  \/ Ahead(s, p, q)
           \/ p = e /\ \E j \in i..Len(s) : s[j] = q
           \/ q = e /\ \E j \in 1..(i-1) : s[j] = p
  <1> DEFINE t == InsertAt(s, i, e)
  <1>1. /\ t \in Seq(S) /\ Len(t) = Len(s) + 1
        /\ \A j \in 1..(Len(s) + 1) :
               t[j] = IF j < i THEN s[j] ELSE IF j = i THEN e ELSE s[j-1]
    BY InsertAtPlaces
  <1> HIDE DEF t
  <1>2. PICK a, b \in 1..(Len(s) + 1) : a < b /\ t[a] = p /\ t[b] = q
    BY <1>1 DEF Ahead, t
  <1>3. CASE a = i
    <2>1. b - 1 \in i..Len(s) /\ t[b] = s[b-1] /\ p = e
      BY <1>1, <1>2, <1>3
    <2> QED BY <1>2, <2>1
  <1>4. CASE b = i
    <2>1. a \in 1..(i-1) /\ t[a] = s[a] /\ q = e
      BY <1>1, <1>2, <1>4
    <2> QED BY <1>2, <2>1
  <1>5. CASE a # i /\ b # i
    <2> DEFINE From(j) == IF j < i THEN j ELSE j - 1
    <2>1. /\ From(a) \in 1..Len(s) /\ From(b) \in 1..Len(s)
          /\ From(a) < From(b)
          /\ s[From(a)] = p /\ s[From(b)] = q
      BY <1>1, <1>2, <1>5
    <2> QED BY <2>1 DEF Ahead
  <1> QED BY <1>3, <1>4, <1>5

\* Removing a place leaves the others in order.
LEMMA RemoveAtOrder ==
    ASSUME NEW S, NEW s \in Seq(S), NEW i \in 1..Len(s), NEW p, NEW q
    PROVE  /\ Ahead(RemoveAt(s, i), p, q) => Ahead(s, p, q)
           /\ Ahead(s, p, q) /\ p # s[i] /\ q # s[i]
                  => Ahead(RemoveAt(s, i), p, q)
  <1> DEFINE t == RemoveAt(s, i)
  <1>1. /\ t \in Seq(S) /\ Len(t) = Len(s) - 1
        /\ \A j \in 1..(Len(s) - 1) : t[j] = IF j < i THEN s[j] ELSE s[j+1]
    BY RemoveAtPlaces
  <1> HIDE DEF t
  <1>2. ASSUME Ahead(t, p, q) PROVE Ahead(s, p, q)
    <2>1. PICK a, b \in 1..(Len(s) - 1) : a < b /\ t[a] = p /\ t[b] = q
      BY <1>1, <1>2 DEF Ahead
    <2> DEFINE From(j) == IF j < i THEN j ELSE j + 1
    <2>2. /\ From(a) \in 1..Len(s) /\ From(b) \in 1..Len(s)
          /\ From(a) < From(b)
          /\ s[From(a)] = p /\ s[From(b)] = q
      BY <1>1, <2>1
    <2> QED BY <2>2 DEF Ahead
  <1>3. ASSUME Ahead(s, p, q), p # s[i], q # s[i] PROVE Ahead(t, p, q)
    <2>1. PICK a, b \in 1..Len(s) : a < b /\ s[a] = p /\ s[b] = q
      BY <1>3 DEF Ahead
    <2>2. a # i /\ b # i
      BY <1>3, <2>1
    <2> DEFINE To(j) == IF j < i THEN j ELSE j - 1
    <2>3. /\ To(a) \in 1..(Len(s) - 1) /\ To(b) \in 1..(Len(s) - 1)
          /\ To(a) < To(b)
          /\ t[To(a)] = p /\ t[To(b)] = q
      BY <1>1, <2>1, <2>2
    <2> QED BY <1>1, <2>3 DEF Ahead
  <1> QED BY <1>2, <1>3 DEF t

\* The places of a sequence after push_back.
LEMMA AppendPlaces ==
    ASSUME NEW S, NEW s \in Seq(S), NEW x \in S
    PROVE  /\ Append(s, x) \in Seq(S)
           /\ Len(Append(s, x)) = Len(s) + 1
           /\ Append(s, x) = [i \in 1..(Len(s) + 1) |->
                                 IF i = Len(s) + 1 THEN x ELSE s[i]]
  <1>1. Append(s, x) \in Seq(S) /\ Len(Append(s, x)) = Len(s) + 1
    OBVIOUS
  <1>2. \A i \in 1..(Len(s) + 1) :
            Append(s, x)[i] = IF i = Len(s) + 1 THEN x ELSE s[i]
    OBVIOUS
  <1>3. Append(s, x) \in [1..Len(Append(s, x)) -> S]
    BY <1>1, LenProperties
  <1> QED BY <1>1, <1>2, <1>3

\* Appending e puts it behind all others and leaves these in order.
LEMMA AppendOrder ==
    ASSUME NEW S, NEW s \in Seq(S), NEW e \in S
    PROVE  /\ ToSet(Append(s, e)) = ToSet(s) \cup {e}
           /\ IsInjective(s) /\ e \notin ToSet(s) => IsInjective(Append(s, e))
           /\ \A p, q : Ahead(s, p, q) => Ahead(Append(s, e), p, q)
           /\ \A p \in ToSet(s) : Ahead(Append(s, e), p, e)
  <1> DEFINE t == Append(s, e)
             n == Len(s)
  <1>1. n \in Nat /\ DOMAIN s = 1..n
    OBVIOUS
  <1>2. /\ DOMAIN t = 1..(n + 1) /\ t[n + 1] = e
        /\ \A j \in 1..n : t[j] = s[j]
    OBVIOUS
  <1> HIDE DEF t, n
  <1>3. ToSet(t) = ToSet(s) \cup {e}
    <2>1. ASSUME NEW x \in ToSet(t) PROVE x \in ToSet(s) \cup {e}
      <3>1. PICK j \in 1..(n + 1) : x = t[j]
        BY <1>2 DEF ToSet
      <3>2. j = n + 1 \/ j \in 1..n
        BY <1>1
      <3> QED BY <1>1, <1>2, <3>1, <3>2 DEF ToSet
    <2>2. ASSUME NEW x \in ToSet(s) PROVE x \in ToSet(t)
      <3>1. PICK j \in 1..n : x = s[j]
        BY <1>1 DEF ToSet
      <3>2. j \in 1..(n + 1)
        BY <1>1
      <3> QED BY <1>2, <3>1, <3>2 DEF ToSet
    <2>3. e \in ToSet(t)
      <3>1. n + 1 \in 1..(n + 1)
        BY <1>1
      <3> QED BY <1>2, <3>1 DEF ToSet
    <2> QED BY <2>1, <2>2, <2>3
  <1>4. ASSUME IsInjective(s), e \notin ToSet(s) PROVE IsInjective(t)
    <2>1. \A j \in 1..n : s[j] # e
      BY <1>1, <1>4 DEF ToSet
    <2>2. \A i, j \in 1..n : s[i] = s[j] => i = j
      BY <1>1, <1>4 DEF IsInjective
    <2>3. \A i, j \in 1..(n + 1) : t[i] = t[j] => i = j
      BY <1>1, <1>2, <2>1, <2>2
    <2> QED BY <1>2, <2>3 DEF IsInjective
  <1>5. ASSUME NEW p, NEW q, Ahead(s, p, q) PROVE Ahead(t, p, q)
    <2>1. PICK i, j \in 1..n : i < j /\ s[i] = p /\ s[j] = q
      BY <1>1, <1>5 DEF Ahead
    <2>2. i \in 1..(n + 1) /\ j \in 1..(n + 1)
      BY <1>1
    <2> QED BY <1>2, <2>1, <2>2 DEF Ahead
  <1>6. ASSUME NEW p \in ToSet(s) PROVE Ahead(t, p, e)
    <2>1. PICK i \in 1..n : s[i] = p
      BY <1>1 DEF ToSet
    <2>2. i \in 1..(n + 1) /\ n + 1 \in 1..(n + 1) /\ i < n + 1
      BY <1>1
    <2> QED BY <1>2, <2>1, <2>2 DEF Ahead
  <1> QED BY <1>3, <1>4, <1>5, <1>6 DEF t

\* An injective sequence is as long as its set of elements is large.
LEMMA InjectiveLength ==
    ASSUME NEW S, NEW s \in Seq(S), IsInjective(s)
    PROVE  /\ IsFiniteSet(ToSet(s))
           /\ Len(s) = Cardinality(ToSet(s))
  <1> DEFINE n == Len(s)
  <1>1. n \in Nat /\ s \in [1..n -> ToSet(s)] /\ DOMAIN s = 1..n
    BY DEF ToSet
  <1>2. s \in Bijection(1..n, ToSet(s))
    BY <1>1 DEF IsInjective, ToSet, Bijection, Injection, Surjection, IsInjective
  <1>3. IsFiniteSet(1..n) /\ Cardinality(1..n) = n
    BY <1>1, FS_Interval
  <1> QED BY <1>2, <1>3, FS_Bijection DEF ExistsBijection

-----------------------------------------------------------------------------
(* Induction over data.  The library's induction theorems are about an     *)
(* arbitrary operator; with a set in its place the provers can use one.    *)

\* The least element of a set of naturals: induction over data, by the least
\* counterexample, rests on it.
LEMMA LeastNat ==
    ASSUME NEW T, T \subseteq Nat, T # {}
    PROVE  \E m \in T : \A n \in T : m <= n
  <1> DEFINE R == OpToRel(<, Nat)
  <1>1. IsWellFoundedOn(R, Nat)
    BY NatLessThanWellFounded
  <1>2. R = {ss \in Nat \X Nat : ss[1] < ss[2]}
    BY DEF OpToRel
  <1> HIDE DEF R
  <1>3. PICK m \in T : \A n \in T : ~(<<n, m>> \in R)
    BY <1>1, WFMin
  <1>4. \A n \in T : ~(n < m)
    <2> SUFFICES ASSUME NEW n \in T, n < m PROVE FALSE
      OBVIOUS
    <2>1. <<n, m>> \in Nat \X Nat
      OBVIOUS
    <2>2. <<n, m>>[1] < <<n, m>>[2]
      OBVIOUS
    <2> QED BY <1>2, <1>3, <2>1, <2>2
  <1> QED BY <1>4

\* Induction, for a property given as the set of the numbers that have it.
LEMMA Induction ==
    ASSUME NEW T, 0 \in T, \A n \in Nat : n \in T => n + 1 \in T
    PROVE  Nat \subseteq T
  <1> DEFINE Bad == Nat \ T
  <1> SUFFICES ASSUME Bad # {} PROVE FALSE
    OBVIOUS
  <1>1. Bad \subseteq Nat
    OBVIOUS
  <1>2. PICK m \in Bad : \A n \in Bad : m <= n
    <2> HIDE DEF Bad
    <2> QED BY <1>1, LeastNat
  <1>3. m # 0 /\ m - 1 \in Nat
    BY <1>2
  <1>4. m - 1 \in T
    BY <1>2, <1>3
  <1>5. (m - 1) + 1 \in T
    BY <1>3, <1>4
  <1> QED BY <1>2, <1>3, <1>5

-----------------------------------------------------------------------------
(* Folds.                                                                  *)

\* What MapThenFoldSet's recursive function is: g folds F over the subsets of
\* S, beginning with b and taking the elements in the order of c.
IsFold(g, S, V, b, F, c) ==
    /\ g \in [SUBSET S -> V]
    /\ \A s \in SUBSET S : g[s] = IF s = {} THEN b
                                  ELSE F[<<c[s], g[s \ {c[s]}]>>]

\* There is such a function.
LEMMA FoldExists ==
    ASSUME NEW S, IsFiniteSet(S), NEW V, NEW b \in V, NEW F \in [S \X V -> V],
           NEW c, \A s \in SUBSET S : s # {} => c[s] \in s
    PROVE  \E g : IsFold(g, S, V, b, F, c)
  <1> DEFINE D(n) == {s \in SUBSET S : Cardinality(s) <= n}
             Body(g, s) == IF s = {} THEN b ELSE F[<<c[s], g[s \ {c[s]}]>>]
             Ok(g, n) == g \in [D(n) -> V] /\ \A s \in D(n) : g[s] = Body(g, s)
             Good == {n \in Nat : \E g : Ok(g, n)}
  <1>1. \A s \in SUBSET S : IsFiniteSet(s) /\ Cardinality(s) \in Nat
    BY FS_Subset, FS_CardinalityType
  <1>2. \A s \in SUBSET S : s # {} => /\ s \ {c[s]} \in SUBSET S
                                      /\ Cardinality(s \ {c[s]}) = Cardinality(s) - 1
    BY <1>1, FS_RemoveElement
  <1>3. \A s \in SUBSET S : s # {} => Cardinality(s) # 0
    BY <1>1, FS_EmptySet
  <1>4. 0 \in Good
    <2> DEFINE g == [s \in D(0) |-> b]
    <2>1. \A s \in D(0) : s = {}
      BY <1>1, <1>3
    <2>2. Ok(g, 0)
      BY <2>1
    <2> HIDE DEF Ok
    <2> QED BY <2>2
  <1>5. ASSUME NEW n \in Nat, n \in Good
        PROVE  n + 1 \in Good
    <2>1. PICK g : Ok(g, n)
      <3> HIDE DEF Ok
      <3> QED BY <1>5
    <2> DEFINE h == [s \in D(n + 1) |-> Body(g, s)]
    <2>2. ASSUME NEW s \in D(n + 1), s # {}
          PROVE  /\ s \ {c[s]} \in D(n) /\ s \ {c[s]} \in D(n + 1)
                 /\ c[s] \in S /\ g[s \ {c[s]}] \in V
      <3>1. s \ {c[s]} \in D(n) /\ s \ {c[s]} \in D(n + 1)
        BY <1>1, <1>2, <2>2
      <3> QED BY <2>1, <2>2, <3>1
    <2>3. \A s \in D(n) : s \in D(n + 1)
      BY <1>1
    <2>4. \A s \in D(n) : h[s] = g[s]
      BY <2>1, <2>3
    <2>5. h \in [D(n + 1) -> V]
      <3>1. ASSUME NEW s \in D(n + 1) PROVE Body(g, s) \in V
        BY <2>2
      <3> QED BY <3>1
    <2>6. ASSUME NEW s \in D(n + 1) PROVE h[s] = Body(h, s)
      BY <2>2, <2>4
    <2>7. Ok(h, n + 1)
      BY <2>5, <2>6
    <2> HIDE DEF Ok
    <2> QED BY <2>7
  <1>6. Nat \subseteq Good
    <2> HIDE DEF Good
    <2> QED BY <1>4, <1>5, Induction
  <1>7. PICK g : Ok(g, Cardinality(S))
    <2>1. Cardinality(S) \in Nat
      BY FS_CardinalityType
    <2> HIDE DEF Ok
    <2> QED BY <1>6, <2>1
  <1>8. D(Cardinality(S)) = SUBSET S
    BY FS_Subset
  <1> QED BY <1>7, <1>8 DEF IsFold

\* The order of the folds over a sequence.
Greatest(n) == [s \in SUBSET (1..n) |-> Max(s)]

\* A fold that takes the greatest element first goes through 1..n in order.
LEMMA GreatestElement ==
    ASSUME NEW n \in Nat
    PROVE  /\ \A s \in SUBSET (1..n) : s # {} => Max(s) \in s
           /\ \A k \in 1..n : Max(1..k) = k
  <1>1. ASSUME NEW s \in SUBSET (1..n), s # {}
        PROVE  \E x \in s : \A y \in s : x >= y
    <2> DEFINE T == {n - x : x \in s}
    <2>1. T \subseteq Nat /\ T # {}
      <3>1. \A x \in s : x \in Int /\ n - x \in Nat
        OBVIOUS
      <3>2. PICK x : x \in s
        BY <1>1
      <3> QED BY <3>1, <3>2
    <2>2. PICK m \in T : \A k \in T : m <= k
      <3> HIDE DEF T
      <3> QED BY <2>1, LeastNat
    <2>3. PICK x \in s : m = n - x
      BY <2>2
    <2>4. ASSUME NEW y \in s PROVE x >= y
      <3>1. n - y \in T
        OBVIOUS
      <3>2. m <= n - y
        BY <2>2, <3>1
      <3>3. x \in Int /\ y \in Int
        OBVIOUS
      <3> HIDE DEF T
      <3> QED BY <2>3, <3>2, <3>3
    <2> QED BY <2>4
  <1>2. \A s \in SUBSET (1..n) : s # {} => Max(s) \in s
    BY <1>1 DEF Max
  <1>3. ASSUME NEW k \in 1..n PROVE Max(1..k) = k
    <2>1. \A x \in 1..k : (\A y \in 1..k : x >= y) <=> x = k
      OBVIOUS
    <2> QED BY <2>1 DEF Max
  <1> QED BY <1>2, <1>3

-----------------------------------------------------------------------------
(* Sums.                                                                   *)

\* The step of an induction on the size of a subset.
LEMMA RemoveOne ==
    ASSUME NEW S, IsFiniteSet(S), NEW s \in SUBSET S, NEW n \in Nat,
           Cardinality(s) = n + 1, NEW x \in s
    PROVE  s \ {x} \in SUBSET S /\ Cardinality(s \ {x}) = n
  <1>1. IsFiniteSet(s)
    BY FS_Subset
  <1>2. Cardinality(s \ {x}) = Cardinality(s) - 1
    BY <1>1, FS_RemoveElement
  <1> QED BY <1>2

\* What SumFunctionOnSet's recursive function is.
IsSum(g, f, S) ==
    g = [s \in SUBSET S |-> IF s = {} THEN 0
                            ELSE LET x == CHOOSE x \in s : TRUE
                                 IN  f[x] + g[s \ {x}]]

LEMMA SumExists ==
    ASSUME NEW S, IsFiniteSet(S), NEW f, \A x \in S : f[x] \in Int
    PROVE  \E g \in [SUBSET S -> Int] : IsSum(g, f, S)
  <1> DEFINE F == [y \in S \X Int |-> f[y[1]] + y[2]]
             c == [s \in SUBSET S |-> CHOOSE x \in s : TRUE]
  <1>1. F \in [S \X Int -> Int]
    OBVIOUS
  <1>2. \A s \in SUBSET S : s # {} => c[s] \in s
    OBVIOUS
  <1>3. PICK g : IsFold(g, S, Int, 0, F, c)
    <2>1. 0 \in Int
      OBVIOUS
    <2> HIDE DEF F, c
    <2> QED BY <1>1, <1>2, <2>1, FoldExists
  <1>4. g \in [SUBSET S -> Int] /\ g[{}] = 0
    BY <1>3 DEF IsFold
  <1>5. ASSUME NEW s \in SUBSET S, s # {}
        PROVE  g[s] = LET x == CHOOSE x \in s : TRUE IN f[x] + g[s \ {x}]
    <2> DEFINE x == CHOOSE x \in s : TRUE
    <2>1. c[s] = x /\ x \in S /\ s \ {x} \in SUBSET S
      BY <1>5
    <2> HIDE DEF x
    <2>2. g[s \ {x}] \in Int
      BY <1>4, <2>1
    <2>3. g[s] = F[<<x, g[s \ {x}]>>]
      <3> HIDE DEF F, c
      <3> QED BY <1>3, <1>5, <2>1 DEF IsFold
    <2>4. g[s] = f[x] + g[s \ {x}]
      BY <2>1, <2>2, <2>3
    <2> QED BY <2>4 DEF x
  <1>6. IsSum(g, f, S)
    BY <1>4, <1>5 DEF IsSum
  <1> QED BY <1>4, <1>6

\* A sum over the subsets of T and one over those of S agree on both.
LEMMA SumUnique ==
    ASSUME NEW S, IsFiniteSet(S), NEW T \in SUBSET S, NEW f, NEW g,
           NEW h, IsSum(g, f, S), IsSum(h, f, T)
    PROVE  \A s \in SUBSET T : h[s] = g[s]
  <1> DEFINE Good == {n \in Nat : \A s \in SUBSET T :
                                      Cardinality(s) = n => h[s] = g[s]}
  <1>1. \A s \in SUBSET T : IsFiniteSet(s) /\ Cardinality(s) \in Nat
    BY FS_Subset, FS_CardinalityType
  <1>2. 0 \in Good
    <2>1. \A s \in SUBSET T : Cardinality(s) = 0 => s = {}
      BY <1>1, FS_EmptySet
    <2>2. g[{}] = 0 /\ h[{}] = 0
      BY DEF IsSum
    <2> QED BY <2>1, <2>2
  <1>3. ASSUME NEW n \in Nat, n \in Good
        PROVE  n + 1 \in Good
    <2> SUFFICES ASSUME NEW s \in SUBSET T, Cardinality(s) = n + 1
                 PROVE  h[s] = g[s]
      OBVIOUS
    <2>1. s # {}
      <3>1. n + 1 # 0
        OBVIOUS
      <3> QED BY <3>1, FS_EmptySet
    <2> DEFINE x == CHOOSE x \in s : TRUE
    <2>2. x \in s
      BY <2>1
    <2>3. s \ {x} \in SUBSET T /\ Cardinality(s \ {x}) = n
      <3>1. IsFiniteSet(T)
        BY FS_Subset
      <3> HIDE DEF x, Good
      <3> QED BY <2>2, <3>1, RemoveOne
    <2>4. h[s \ {x}] = g[s \ {x}]
      BY <1>3, <2>3
    <2>5. h[s] = f[x] + h[s \ {x}] /\ g[s] = f[x] + g[s \ {x}]
      BY <2>1 DEF IsSum
    <2> QED BY <2>4, <2>5
  <1>4. Nat \subseteq Good
    <2> HIDE DEF Good
    <2> QED BY <1>2, <1>3, Induction
  <1> QED BY <1>1, <1>4

LEMMA SumFunctionFold ==
    ASSUME NEW S, IsFiniteSet(S), NEW f, \A x \in S : f[x] \in Int
    PROVE  \E h : IsSum(h, f, S) /\ SumFunctionOnSet(f, S) = h[S]
  <1> DEFINE iter[s \in SUBSET S] == IF s = {} THEN 0
                                     ELSE LET x == CHOOSE x \in s : TRUE
                                          IN  f[x] + iter[s \ {x}]
  <1>1. SumFunctionOnSet(f, S) = iter[S]
    BY DEF SumFunctionOnSet, FoldFunctionOnSet, MapThenFoldSet
  <1>2. PICK g : IsSum(g, f, S)
    BY SumExists
  <1>3. IsSum(iter, f, S)
    <2>1. g = [s \in SUBSET S |-> IF s = {} THEN 0
                                  ELSE LET x == CHOOSE x \in s : TRUE
                                       IN  f[x] + g[s \ {x}]]
      BY <1>2 DEF IsSum
    <2>2. iter = [s \in SUBSET S |-> IF s = {} THEN 0
                                     ELSE LET x == CHOOSE x \in s : TRUE
                                          IN  f[x] + iter[s \ {x}]]
      BY <2>1
    <2> HIDE DEF iter
    <2> QED BY <2>2 DEF IsSum
  <1> HIDE DEF iter
  <1> QED BY <1>1, <1>3

\* Sums of integers are integers, and any element may be taken out first.
LEMMA SumRemove ==
    ASSUME NEW S, IsFiniteSet(S), NEW f, \A x \in S : f[x] \in Int
    PROVE  /\ SumFunctionOnSet(f, {}) = 0
           /\ SumFunctionOnSet(f, S) \in Int
           /\ \A x \in S : SumFunctionOnSet(f, S) =
                               f[x] + SumFunctionOnSet(f, S \ {x})
  <1>1. PICK g \in [SUBSET S -> Int] : IsSum(g, f, S)
    BY SumExists
  <1>2. ASSUME NEW T \in SUBSET S
        PROVE  SumFunctionOnSet(f, T) = g[T]
    <2>1. IsFiniteSet(T) /\ \A x \in T : f[x] \in Int
      BY FS_Subset
    <2>2. PICK h : IsSum(h, f, T) /\ SumFunctionOnSet(f, T) = h[T]
      BY <2>1, SumFunctionFold
    <2> QED BY <1>1, <2>2, SumUnique
  <1>3. \A s \in SUBSET S : IsFiniteSet(s) /\ Cardinality(s) \in Nat
    BY FS_Subset, FS_CardinalityType
  <1> DEFINE Good == {n \in Nat : \A s \in SUBSET S : Cardinality(s) = n =>
                                      \A x \in s : g[s] = f[x] + g[s \ {x}]}
  <1>4. 0 \in Good
    <2>1. \A s \in SUBSET S : Cardinality(s) = 0 => s = {}
      BY <1>3, FS_EmptySet
    <2> QED BY <2>1
  <1>5. ASSUME NEW n \in Nat, n \in Good
        PROVE  n + 1 \in Good
    <2> SUFFICES ASSUME NEW s \in SUBSET S, Cardinality(s) = n + 1, NEW x \in s
                 PROVE  g[s] = f[x] + g[s \ {x}]
      OBVIOUS
    <2> DEFINE c == CHOOSE y \in s : TRUE
    <2>1. c \in s /\ g[s] = f[c] + g[s \ {c}]
      BY <1>1 DEF IsSum
    <2> HIDE DEF c
    <2>2. CASE c = x
      BY <2>1, <2>2
    <2>3. CASE c # x
      <3>1. /\ s \ {c} \in SUBSET S /\ Cardinality(s \ {c}) = n
            /\ s \ {x} \in SUBSET S /\ Cardinality(s \ {x}) = n
        <4> HIDE DEF Good
        <4> QED BY <2>1, RemoveOne
      <3>2. /\ g[s \ {c}] = f[x] + g[(s \ {c}) \ {x}]
            /\ g[s \ {x}] = f[c] + g[(s \ {x}) \ {c}]
        BY <1>5, <2>1, <2>3, <3>1
      <3>3. (s \ {c}) \ {x} = (s \ {x}) \ {c} /\ (s \ {c}) \ {x} \in SUBSET S
        OBVIOUS
      <3>4. PICK r \in Int : r = g[(s \ {c}) \ {x}]
        BY <1>1, <3>3
      <3>5. /\ g[s \ {c}] = f[x] + r /\ g[s \ {x}] = f[c] + r
            /\ f[x] \in Int /\ f[c] \in Int
        BY <2>1, <3>2, <3>3, <3>4
      <3> QED BY <2>1, <3>5
    <2> QED BY <2>2, <2>3
  <1>6. Nat \subseteq Good
    <2> HIDE DEF Good
    <2> QED BY <1>4, <1>5, Induction
  <1>7. \A x \in S : g[S] = f[x] + g[S \ {x}]
    BY <1>3, <1>6
  <1>8. g[{}] = 0
    BY <1>1 DEF IsSum
  <1> QED BY <1>1, <1>2, <1>7, <1>8

\* A sum depends on nothing but the values that are added up.
LEMMA SumSame ==
    ASSUME NEW S, IsFiniteSet(S), NEW f, NEW g,
           \A x \in S : f[x] \in Int /\ g[x] = f[x]
    PROVE  SumFunctionOnSet(g, S) = SumFunctionOnSet(f, S)
  <1>1. PICK h : IsSum(h, f, S) /\ SumFunctionOnSet(f, S) = h[S]
    BY SumFunctionFold
  <1>2. PICK k : IsSum(k, g, S) /\ SumFunctionOnSet(g, S) = k[S]
    BY SumFunctionFold
  <1>3. ASSUME NEW s \in SUBSET S
        PROVE  (IF s = {} THEN 0
                ELSE LET x == CHOOSE x \in s : TRUE IN g[x] + k[s \ {x}]) =
               (IF s = {} THEN 0
                ELSE LET x == CHOOSE x \in s : TRUE IN f[x] + k[s \ {x}])
    <2>1. s # {} => (CHOOSE x \in s : TRUE) \in S
      OBVIOUS
    <2> QED BY <2>1
  <1>4. IsSum(k, f, S)
    BY <1>2, <1>3 DEF IsSum
  <1> QED BY <1>1, <1>2, <1>4, SumUnique

\* A sum whose every value grows by one grows by the number of them.
LEMMA SumPlusOne ==
    ASSUME NEW S, IsFiniteSet(S), NEW f, NEW g,
           \A x \in S : f[x] \in Int /\ g[x] = f[x] + 1
    PROVE  SumFunctionOnSet(g, S) = SumFunctionOnSet(f, S) + Cardinality(S)
  <1> DEFINE Sum(h, s) == SumFunctionOnSet(h, s)
             Good == {n \in Nat : \A s \in SUBSET S :
                          Cardinality(s) = n => Sum(g, s) = Sum(f, s) + n}
  <1>1. ASSUME NEW s \in SUBSET S
        PROVE  /\ IsFiniteSet(s) /\ Cardinality(s) \in Nat
               /\ \A x \in s : f[x] \in Int /\ g[x] \in Int /\ g[x] = f[x] + 1
    BY FS_Subset, FS_CardinalityType
  <1>2. ASSUME NEW s \in SUBSET S
        PROVE  /\ Sum(f, s) \in Int
               /\ \A x \in s : /\ Sum(f, s) = f[x] + Sum(f, s \ {x})
                               /\ Sum(g, s) = g[x] + Sum(g, s \ {x})
    <2>1. /\ IsFiniteSet(s)
          /\ \A x \in s : f[x] \in Int
          /\ \A x \in s : g[x] \in Int
      BY <1>1
    <2> QED BY <2>1, SumRemove
  <1>3. Sum(f, {}) = 0 /\ Sum(g, {}) = 0
    BY FS_EmptySet, SumRemove
  <1> HIDE DEF Sum
  <1>4. 0 \in Good
    <2>1. \A s \in SUBSET S : Cardinality(s) = 0 => s = {}
      BY <1>1, FS_EmptySet
    <2>2. Sum(g, {}) = Sum(f, {}) + 0
      BY <1>3
    <2> QED BY <2>1, <2>2
  <1>5. ASSUME NEW n \in Nat, n \in Good PROVE n + 1 \in Good
    <2> SUFFICES ASSUME NEW s \in SUBSET S, Cardinality(s) = n + 1
                 PROVE  Sum(g, s) = Sum(f, s) + (n + 1)
      OBVIOUS
    <2>1. PICK x : x \in s
      <3>1. n + 1 # 0
        OBVIOUS
      <3> QED BY <3>1, FS_EmptySet
    <2>2. s \ {x} \in SUBSET S /\ Cardinality(s \ {x}) = n
      <3> HIDE DEF Good
      <3> QED BY <2>1, RemoveOne
    <2>3. Sum(g, s \ {x}) = Sum(f, s \ {x}) + n
      BY <1>5, <2>2
    <2>4. PICK a \in Int : a = Sum(f, s \ {x})
      BY <1>2, <2>2
    <2>5. f[x] \in Int /\ g[x] = f[x] + 1
      BY <1>1, <2>1
    <2>6. Sum(f, s) = f[x] + a /\ Sum(g, s) = (f[x] + 1) + (a + n)
      BY <1>2, <2>1, <2>3, <2>4, <2>5
    <2> QED BY <2>4, <2>5, <2>6
  <1>6. Nat \subseteq Good
    <2> HIDE DEF Good
    <2> QED BY <1>4, <1>5, Induction
  <1>7. Cardinality(S) \in Good
    BY <1>1, <1>6
  <1> QED BY <1>7 DEF Sum

\* A sum of naturals is a natural.
LEMMA SumNatural ==
    ASSUME NEW S, IsFiniteSet(S), NEW f, \A x \in S : f[x] \in Nat
    PROVE  SumFunctionOnSet(f, S) \in Nat
  <1> DEFINE Sum(s) == SumFunctionOnSet(f, s)
             Good == {n \in Nat : \A s \in SUBSET S :
                                      Cardinality(s) = n => Sum(s) \in Nat}
  <1>1. ASSUME NEW s \in SUBSET S
        PROVE  IsFiniteSet(s) /\ Cardinality(s) \in Nat
    BY FS_Subset, FS_CardinalityType
  <1>2. ASSUME NEW s \in SUBSET S
        PROVE  \A x \in s : Sum(s) = f[x] + Sum(s \ {x})
    <2>1. IsFiniteSet(s) /\ \A x \in s : f[x] \in Int
      BY <1>1
    <2> QED BY <2>1, SumRemove
  <1>3. Sum({}) = 0
    BY FS_EmptySet, SumRemove
  <1> HIDE DEF Sum
  <1>4. 0 \in Good
    <2>1. \A s \in SUBSET S : Cardinality(s) = 0 => s = {}
      BY <1>1, FS_EmptySet
    <2>2. Sum({}) \in Nat
      BY <1>3
    <2> QED BY <2>1, <2>2
  <1>5. ASSUME NEW n \in Nat, n \in Good PROVE n + 1 \in Good
    <2> SUFFICES ASSUME NEW s \in SUBSET S, Cardinality(s) = n + 1
                 PROVE  Sum(s) \in Nat
      OBVIOUS
    <2>1. PICK x : x \in s
      <3>1. n + 1 # 0
        OBVIOUS
      <3> QED BY <3>1, FS_EmptySet
    <2>2. s \ {x} \in SUBSET S /\ Cardinality(s \ {x}) = n
      <3> HIDE DEF Good
      <3> QED BY <2>1, RemoveOne
    <2>3. Sum(s \ {x}) \in Nat /\ f[x] \in Nat
      BY <1>5, <2>1, <2>2
    <2> QED BY <1>2, <2>1, <2>3
  <1>6. Nat \subseteq Good
    <2> HIDE DEF Good
    <2> QED BY <1>4, <1>5, Induction
  <1> QED BY <1>1, <1>6 DEF Sum

-----------------------------------------------------------------------------
(* The greatest element.                                                   *)

LEMMA MaxBounds ==
    ASSUME NEW S, IsFiniteSet(S), S \subseteq Int
    PROVE  \A x \in S : Max(S) \in S /\ x <= Max(S)
  <1> DEFINE HasMax(s) == \E x \in s : \A y \in s : x >= y
             Good == {n \in Nat : \A s \in SUBSET S :
                                      Cardinality(s) = n + 1 => HasMax(s)}
  <1>1. \A s \in SUBSET S : IsFiniteSet(s) /\ Cardinality(s) \in Nat
    BY FS_Subset, FS_CardinalityType
  <1>2. \A s \in SUBSET S : Cardinality(s) = 0 <=> s = {}
    BY <1>1, FS_EmptySet
  <1>3. \A s \in SUBSET S : \A x \in s : /\ s \ {x} \in SUBSET S
                                       /\ Cardinality(s \ {x}) = Cardinality(s) - 1
    BY <1>1, FS_RemoveElement
  <1>4. 0 \in Good
    <2> SUFFICES ASSUME NEW s \in SUBSET S, Cardinality(s) = 0 + 1
                 PROVE  HasMax(s)
      OBVIOUS
    <2>1. PICK x : x \in s
      BY <1>2
    <2>2. Cardinality(s \ {x}) = 0 /\ s \ {x} \in SUBSET S
      BY <1>3, <2>1
    <2>3. s = {x} /\ x \in Int
      BY <1>2, <2>1, <2>2
    <2> QED BY <2>3
  <1>5. ASSUME NEW n \in Nat, n \in Good PROVE n + 1 \in Good
    <2> SUFFICES ASSUME NEW s \in SUBSET S, Cardinality(s) = (n + 1) + 1
                 PROVE  HasMax(s)
      OBVIOUS
    <2>1. PICK x : x \in s
      BY <1>2
    <2>2. s \ {x} \in SUBSET S /\ Cardinality(s \ {x}) = n + 1
      BY <1>3, <2>1
    <2>3. PICK z \in s \ {x} : \A y \in s \ {x} : z >= y
      BY <1>5, <2>2
    <2>4. x \in Int /\ z \in Int /\ \A y \in s : y \in Int
      BY <2>1
    <2>5. CASE x >= z
      <3>1. \A y \in s : x >= y
        BY <2>3, <2>4, <2>5
      <3> QED BY <2>1, <3>1
    <2>6. CASE ~(x >= z)
      <3>1. \A y \in s : z >= y
        BY <2>3, <2>4, <2>6
      <3> QED BY <3>1
    <2> QED BY <2>5, <2>6
  <1>6. Nat \subseteq Good
    <2> HIDE DEF Good
    <2> QED BY <1>4, <1>5, Induction
  <1> SUFFICES ASSUME S # {} PROVE \A x \in S : Max(S) \in S /\ x <= Max(S)
    OBVIOUS
  <1>7. Cardinality(S) \in Nat /\ Cardinality(S) # 0 /\ S \in SUBSET S
    BY <1>1, <1>2
  <1>8. Cardinality(S) - 1 \in Nat /\ (Cardinality(S) - 1) + 1 = Cardinality(S)
    BY <1>7
  <1>9. HasMax(S)
    BY <1>6, <1>7, <1>8
  <1>10. Max(S) \in S /\ \A y \in S : Max(S) >= y
    BY <1>9 DEF Max
  <1> QED BY <1>10

-----------------------------------------------------------------------------
(* Remainders.                                                             *)

\* Counting up, the remainder goes round.
LEMMA RemainderNext ==
    ASSUME NEW q \in Nat, q >= 1, NEW d \in Nat
    PROVE  /\ 0 % q = 0 /\ d % q \in 0..(q - 1)
           /\ (d + 1) % q = IF d % q = q - 1 THEN 0 ELSE (d % q) + 1
  <1> DEFINE Good == {n \in Nat : \E k \in Int, r \in 0..(q - 1) : n = q * k + r}
  <1>1. ASSUME NEW n \in Nat, NEW k \in Int, NEW r \in 0..(q - 1), n = q * k + r
        PROVE  n % q = r
    BY <1>1
  <1>2. ASSUME NEW n \in Nat, NEW k \in Int, NEW r \in 0..(q - 1), n = q * k + r
        PROVE  IF r = q - 1 THEN n + 1 = q * (k + 1) + 0 ELSE n + 1 = q * k + (r + 1)
    BY <1>2
  <1>3. 0 \in Good
    <2>1. 0 = q * 0 + 0 /\ 0 \in 0..(q - 1) /\ 0 \in Int
      OBVIOUS
    <2> QED BY <2>1
  <1>4. ASSUME NEW n \in Nat, n \in Good PROVE n + 1 \in Good
    <2>1. PICK k \in Int, r \in 0..(q - 1) : n = q * k + r
      BY <1>4
    <2>2. CASE r = q - 1
      <3>1. n + 1 = q * (k + 1) + 0 /\ 0 \in 0..(q - 1) /\ k + 1 \in Int
        BY <1>2, <2>1, <2>2
      <3> QED BY <3>1
    <2>3. CASE r # q - 1
      <3>1. n + 1 = q * k + (r + 1) /\ r + 1 \in 0..(q - 1)
        BY <1>2, <2>1, <2>3
      <3> QED BY <3>1
    <2> QED BY <2>2, <2>3
  <1>5. Nat \subseteq Good
    <2> HIDE DEF Good
    <2> QED BY <1>3, <1>4, Induction
  <1>6. PICK k \in Int, r \in 0..(q - 1) : d = q * k + r
    BY <1>5
  <1>7. d % q = r
    BY <1>1, <1>6
  <1>8. CASE r = q - 1
    <2>1. /\ d + 1 = q * (k + 1) + 0 /\ 0 \in 0..(q - 1) /\ k + 1 \in Int
          /\ d + 1 \in Nat
      BY <1>2, <1>6, <1>8
    <2>2. (d + 1) % q = 0
      BY <1>1, <2>1
    <2> QED BY <1>7, <1>8, <2>2
  <1>9. CASE r # q - 1
    <2>1. d + 1 = q * k + (r + 1) /\ r + 1 \in 0..(q - 1) /\ d + 1 \in Nat
      BY <1>2, <1>6, <1>9
    <2>2. (d + 1) % q = r + 1
      BY <1>1, <2>1
    <2> QED BY <1>7, <1>9, <2>2
  <1> QED BY <1>8, <1>9

=============================================================================
