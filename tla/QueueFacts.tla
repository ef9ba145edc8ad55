----------------------------- MODULE QueueFacts -----------------------------
(***************************************************************************)
(* What push_back, pop_front and remove do to the waiter lists of           *)
(* src/core, in terms of who is in the list and of nobody being in it       *)
(* twice.  The proofs about the primitives use nothing else about them.     *)
(***************************************************************************)
EXTENDS SequencesExt, SequenceTheorems, TLAPS

InQueue(q, t) == \E i \in 1..Len(q) : q[i] = t

NoDuplicates(q) == \A i, j \in 1..Len(q) : q[i] = q[j] => i = j

\* An empty list has no members and a list with a first element has it.
LEMMA EmptyFacts ==
  /\ NoDuplicates(<<>>)
  /\ \A t : ~InQueue(<<>>, t)
  /\ \A S : \A q \in Seq(S) : q # <<>> => Head(q) \in S /\ InQueue(q, Head(q))
  BY DEF InQueue, NoDuplicates

\* Members of a sequence over S are in S.
LEMMA MemberFacts ==
  ASSUME NEW S, NEW q \in Seq(S), NEW t, InQueue(q, t)
  PROVE  t \in S /\ q # <<>>
  BY DEF InQueue

\* list_push_back adds the new element.
LEMMA PushFacts ==
  ASSUME NEW S, NEW q \in Seq(S), NEW e \in S
  PROVE  /\ Append(q, e) \in Seq(S) /\ Append(q, e) # <<>>
         /\ \A t : InQueue(Append(q, e), t) <=> InQueue(q, t) \/ t = e
         /\ NoDuplicates(q) /\ ~InQueue(q, e) => NoDuplicates(Append(q, e))
<1> DEFINE r == Append(q, e)
<1>1. /\ r \in Seq(S) /\ Len(r) = Len(q) + 1 /\ Len(q) \in Nat
      /\ \A i \in 1..Len(q) : r[i] = q[i]
      /\ r[Len(q) + 1] = e
  OBVIOUS
<1> HIDE DEF r
<1>2. ASSUME NEW t PROVE InQueue(r, t) <=> InQueue(q, t) \/ t = e
  BY <1>1 DEF InQueue
<1>3. ASSUME NoDuplicates(q), ~InQueue(q, e) PROVE NoDuplicates(r)
  <2> SUFFICES ASSUME NEW i \in 1..Len(r), NEW j \in 1..Len(r), r[i] = r[j] PROVE i = j
    BY DEF NoDuplicates
  <2>1. CASE i \in 1..Len(q) /\ j \in 1..Len(q)
    BY <1>1, <1>3, <2>1 DEF NoDuplicates
  <2>2. CASE i = Len(q) + 1 /\ j \in 1..Len(q)
    BY <1>1, <1>3, <2>2 DEF InQueue
  <2>3. CASE j = Len(q) + 1 /\ i \in 1..Len(q)
    BY <1>1, <1>3, <2>3 DEF InQueue
  <2> QED
    BY <1>1, <2>1, <2>2, <2>3
<1>4. r # <<>>
  BY <1>1
<1> QED
  BY <1>1, <1>2, <1>3, <1>4 DEF r

\* list_remove of the element at place k takes that one out and nothing else.
LEMMA RemoveFacts ==
  ASSUME NEW S, NEW q \in Seq(S), NEW k \in 1..Len(q), NoDuplicates(q)
  PROVE  /\ RemoveAt(q, k) \in Seq(S)
         /\ \A t : InQueue(RemoveAt(q, k), t) <=> InQueue(q, t) /\ t # q[k]
         /\ NoDuplicates(RemoveAt(q, k))
<1> DEFINE a == SubSeq(q, 1, k - 1)
           b == SubSeq(q, k + 1, Len(q))
           r == RemoveAt(q, k)
           From(j) == IF j < k THEN j ELSE j + 1
<1>1. a \in Seq(S) /\ Len(a) = k - 1 /\ \A j \in 1..(k - 1) : a[j] = q[j]
  OBVIOUS
<1>2. b \in Seq(S) /\ Len(b) = Len(q) - k /\ \A j \in 1..(Len(q) - k) : b[j] = q[k + j]
  OBVIOUS
<1>3. r = a \o b
  BY DEF RemoveAt
<1> HIDE DEF a, b, r
<1>4. /\ r \in Seq(S) /\ Len(r) = Len(a) + Len(b)
      /\ \A j \in 1..(Len(a) + Len(b)) :
           r[j] = IF j <= Len(a) THEN a[j] ELSE b[j - Len(a)]
  BY <1>1, <1>2, <1>3, ConcatProperties
<1>5. Len(q) \in Nat /\ Len(r) = Len(q) - 1
  BY <1>1, <1>2, <1>4
<1>6. ASSUME NEW j \in 1..Len(r) PROVE r[j] = q[From(j)] /\ From(j) \in 1..Len(q) /\ From(j) # k
  <2>1. CASE j < k
    BY <1>1, <1>2, <1>4, <1>5, <2>1
  <2>2. CASE j >= k
    <3>1. j - (k - 1) \in 1..(Len(q) - k) /\ k + (j - (k - 1)) = j + 1
      BY <1>5, <2>2
    <3> QED
      BY <1>1, <1>2, <1>4, <1>5, <2>2, <3>1
  <2> QED
    BY <2>1, <2>2
<1>7. ASSUME NEW i \in 1..Len(q), i # k PROVE \E j \in 1..Len(r) : From(j) = i
  <2>1. CASE i < k
    BY <1>5, <2>1
  <2>2. CASE i > k
    <3>1. i - 1 \in 1..Len(r) /\ From(i - 1) = i
      BY <1>5, <2>2
    <3> QED
      BY <3>1
  <2> QED
    BY <1>7, <2>1, <2>2
<1>8. ASSUME NEW i \in 1..Len(r), NEW j \in 1..Len(r), From(i) = From(j) PROVE i = j
  BY <1>5, <1>8
<1> HIDE DEF From
<1>9. ASSUME NEW t PROVE InQueue(r, t) <=> InQueue(q, t) /\ t # q[k]
  <2>1. ASSUME InQueue(r, t) PROVE InQueue(q, t) /\ t # q[k]
    BY <1>6, <2>1 DEF InQueue, NoDuplicates
  <2>2. ASSUME InQueue(q, t), t # q[k] PROVE InQueue(r, t)
    BY <1>6, <1>7, <2>2 DEF InQueue
  <2> QED
    BY <2>1, <2>2
<1>10. NoDuplicates(r)
  BY <1>6, <1>8 DEF NoDuplicates
<1> QED
  BY <1>4, <1>9, <1>10 DEF r

\* list_pop_front takes the first element out and nothing else.
LEMMA PopFacts ==
  ASSUME NEW S, NEW q \in Seq(S), q # <<>>, NoDuplicates(q)
  PROVE  /\ Tail(q) \in Seq(S)
         /\ \A t : InQueue(Tail(q), t) <=> InQueue(q, t) /\ t # Head(q)
         /\ NoDuplicates(Tail(q))
<1>1. /\ Tail(q) \in Seq(S) /\ Len(q) \in Nat \ {0} /\ Len(Tail(q)) = Len(q) - 1
      /\ \A i \in 1..(Len(q) - 1) : Tail(q)[i] = q[i + 1]
      /\ Head(q) = q[1]
  OBVIOUS
<1>2. ASSUME NEW t PROVE InQueue(Tail(q), t) <=> InQueue(q, t) /\ t # Head(q)
  <2>1. ASSUME InQueue(Tail(q), t) PROVE InQueue(q, t) /\ t # Head(q)
    <3>1. PICK i \in 1..(Len(q) - 1) : t = q[i + 1]
      BY <1>1, <2>1 DEF InQueue
    <3>2. i + 1 \in 1..Len(q) /\ i + 1 # 1 /\ 1 \in 1..Len(q)
      BY <1>1
    <3> QED
      BY <1>1, <3>1, <3>2 DEF InQueue, NoDuplicates
  <2>2. ASSUME InQueue(q, t), t # Head(q) PROVE InQueue(Tail(q), t)
    <3>1. PICK i \in 1..Len(q) : t = q[i]
      BY <2>2 DEF InQueue
    <3>2. i - 1 \in 1..(Len(q) - 1) /\ (i - 1) + 1 = i
      BY <1>1, <2>2, <3>1
    <3> QED
      BY <1>1, <3>1, <3>2 DEF InQueue
  <2> QED
    BY <2>1, <2>2
<1>3. NoDuplicates(Tail(q))
  <2> SUFFICES ASSUME NEW i \in 1..(Len(q) - 1), NEW j \in 1..(Len(q) - 1), q[i + 1] = q[j + 1]
               PROVE  i = j
    BY <1>1 DEF NoDuplicates
  <2>1. i + 1 \in 1..Len(q) /\ j + 1 \in 1..Len(q)
    BY <1>1
  <2> QED
    BY <2>1 DEF NoDuplicates
<1> QED
  BY <1>1, <1>2, <1>3
=============================================================================
