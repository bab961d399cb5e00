------------------------ MODULE DashboardOrderProofs ------------------------
(***************************************************************************)
(* What the dashboard's list and detail show, for any requests, any number *)
(* of calls and messages under way and any faults but calls that overtake  *)
(* one another: the messages on their way, taken in their order, bring the *)
(* page to what the log has.                                               *)
(***************************************************************************)
EXTENDS DashboardProofs

-----------------------------------------------------------------------------
(* Finite sets of numbers in their order.                                  *)

LEMMA NthRank ==
    ASSUME NEW S \in SUBSET Nat, IsFiniteSet(S), NEW n \in 1..Cardinality(S)
    PROVE  Nth(S, n) \in S /\ Cardinality({j \in S : j <= Nth(S, n)}) = n
  <1> DEFINE upTo(k) == {j \in S : j <= k}
             rank == [k \in S |-> Cardinality(upTo(k))]
             N == Cardinality(S)
  <1>1. N \in Nat
    BY FS_CardinalityType
  <1>2. ASSUME NEW k \in S
        PROVE  IsFiniteSet(upTo(k)) /\ Cardinality(upTo(k)) \in 1..N
    <2>1. IsFiniteSet(upTo(k)) /\ Cardinality(upTo(k)) <= N
      BY FS_Subset
    <2>2. Cardinality(upTo(k)) \in Nat
      BY <2>1, FS_CardinalityType
    <2>3. upTo(k) # {}
      <3>1. k \in upTo(k)
        OBVIOUS
      <3> QED
        BY <3>1
    <2>4. Cardinality(upTo(k)) # 0
      BY <2>1, <2>3, FS_EmptySet
    <2> QED
      BY <1>1, <2>1, <2>2, <2>4
  <1>3. ASSUME NEW j \in S, NEW k \in S, j < k
        PROVE  rank[j] # rank[k]
    <2>0. j \in Nat /\ k \in Nat /\ \A i \in S : i \in Nat
      OBVIOUS
    <2>1. upTo(j) \in SUBSET upTo(k)
      <3>1. \A i \in S : i <= j => i <= k
        BY <2>0, <1>3
      <3> QED
        BY <3>1
    <2>2. k \in upTo(k) /\ k \notin upTo(j)
      BY <2>0, <1>3
    <2>3. upTo(j) # upTo(k)
      BY <2>2
    <2> QED
      BY <1>2, <2>1, <2>3, FS_Subset
  <1>4. rank \in [S -> 1..N]
    BY <1>2
  <1>5. \A j, k \in S : rank[j] = rank[k] => j = k
    <2> HIDE DEF rank
    <2> QED
      BY <1>3
  <1>6. rank \in Injection(S, 1..N)
    <2> HIDE DEF rank, N
    <2> QED
      BY <1>4, <1>5 DEF Injection, IsInjective
  <1>7. IsFiniteSet(1..N) /\ Cardinality(1..N) = N
    BY <1>1, FS_Interval
  <1>8. rank \in Surjection(S, 1..N)
    <2> HIDE DEF rank, upTo
    <2> QED
      BY <1>6, <1>7, FS_Injection
  <1>9. \E k \in S : rank[k] = n
    <2> HIDE DEF rank, N
    <2> QED
      BY <1>8 DEF Surjection, N
  <1>10. \E k \in S : Cardinality({j \in S : j <= k}) = n
    BY <1>9
  <1> QED
    BY <1>10 DEF Nth

LEMMA NthOnto ==
    ASSUME NEW S \in SUBSET Nat, IsFiniteSet(S), NEW k \in S
    PROVE  \E n \in 1..Cardinality(S) : Nth(S, n) = k
  <1> DEFINE N == Cardinality(S)
             nth == [n \in 1..N |-> Nth(S, n)]
  <1>1. N \in Nat
    BY FS_CardinalityType
  <1>2. \A n \in 1..N : Nth(S, n) \in S /\ Cardinality({j \in S : j <= Nth(S, n)}) = n
    BY NthRank
  <1>3. IsFiniteSet(1..N) /\ Cardinality(1..N) = N
    BY <1>1, FS_Interval
  <1>4. nth \in [1..N -> S]
    BY <1>2
  <1>5. \A m, n \in 1..N : nth[m] = nth[n] => m = n
    BY <1>2
  <1>6. nth \in Injection(1..N, S)
    <2> HIDE DEF nth, N
    <2> QED
      BY <1>4, <1>5 DEF Injection, IsInjective
  <1>7. nth \in Surjection(1..N, S)
    <2> HIDE DEF nth
    <2> QED
      BY <1>3, <1>6, FS_Injection
  <1>8. \E n \in 1..N : nth[n] = k
    <2> HIDE DEF nth, N
    <2> QED
      BY <1>7 DEF Surjection
  <1> QED
    BY <1>8

-----------------------------------------------------------------------------
(* Lists of requests.                                                      *)

IdsOf(list) == {list[n].id : n \in DOMAIN list}

\* A list without doubles.
ListOK(list) ==
    /\ list \in Seq(Summary)
    /\ \A m, n \in DOMAIN list : list[m].id = list[n].id => m = n

\* The entries of a list are in the other one.
From(list, other) == \A n \in DOMAIN list : \E m \in DOMAIN other : list[n] = other[m]

LEMMA EmptyList == ListOK(<<>>) /\ IdsOf(<<>>) = {}
  BY DEF ListOK, IdsOf

LEMMA ListShape ==
    ASSUME NEW s, ListOK(s)
    PROVE  /\ Len(s) \in Nat /\ DOMAIN s = 1..Len(s)
           /\ \A n \in DOMAIN s : s[n] \in Summary
           /\ IdsOf(s) \in SUBSET Ids
           /\ Len(s) = Cardinality(IdsOf(s))
  <1>1. Len(s) \in Nat /\ DOMAIN s = 1..Len(s) /\ \A n \in DOMAIN s : s[n] \in Summary
    BY DEF ListOK
  <1>2. IdsOf(s) \in SUBSET Ids
    BY <1>1 DEF IdsOf, Summary
  <1> DEFINE f == [n \in 1..Len(s) |-> s[n].id]
  <1>3. f \in [1..Len(s) -> IdsOf(s)] /\ \A y \in IdsOf(s) : \E n \in 1..Len(s) : f[n] = y
    BY <1>1 DEF IdsOf
  <1>4. \A m, n \in 1..Len(s) : f[m] = f[n] => m = n
    BY <1>1 DEF ListOK
  <1> HIDE DEF f
  <1>5. f \in Bijection(1..Len(s), IdsOf(s))
    BY <1>3, <1>4 DEF Bijection, Injection, Surjection, IsInjective
  <1>6. ExistsBijection(1..Len(s), IdsOf(s))
    BY <1>5 DEF ExistsBijection
  <1>7. Cardinality(IdsOf(s)) = Len(s)
    BY <1>1, <1>6, FS_CountingElements
  <1> QED
    BY <1>1, <1>2, <1>7

LEMMA FirstOfList ==
    ASSUME NEW s, ListOK(s)
    PROVE  FirstId(s) \in IdsOf(s) \union {None}
  <1>1. CASE s # <<>>
    <2>1. 1 \in DOMAIN s /\ Head(s) = s[1]
      BY <1>1 DEF ListOK
    <2> QED
      BY <1>1, <2>1 DEF FirstId, IdsOf
  <1> QED
    BY <1>1 DEF FirstId

\* A sequence given by a function is one.
LEMMA FunctionSeq ==
    ASSUME NEW S, NEW n \in Nat, NEW f \in [1..n -> S]
    PROVE  f \in Seq(S) /\ Len(f) = n /\ DOMAIN f = 1..n
  OBVIOUS

LEMMA WithoutList ==
    ASSUME NEW s, ListOK(s), NEW id
    PROVE  LET t == Without(s, id) IN
           ListOK(t) /\ From(t, s) /\ IdsOf(t) = IdsOf(s) \ {id}
  <1> DEFINE kept == {k \in DOMAIN s : s[k].id # id}
             N == Cardinality(kept)
             t == Without(s, id)
  <1>1. Len(s) \in Nat /\ DOMAIN s = 1..Len(s) /\ \A n \in DOMAIN s : s[n] \in Summary
    BY ListShape
  <1>2. IsFiniteSet(kept) /\ kept \in SUBSET Nat /\ N \in Nat
    <2>1. IsFiniteSet(1..Len(s))
      BY <1>1, FS_Interval
    <2>2. kept \in SUBSET (1..Len(s))
      BY <1>1
    <2> QED
      BY <2>1, <2>2, FS_Subset, FS_CardinalityType
  <1>3. t = [n \in 1..N |-> s[Nth(kept, n)]]
    BY DEF Without
  <1> HIDE DEF N, t
  <1>4. \A n \in 1..N : Nth(kept, n) \in kept
    <2> HIDE DEF kept
    <2> QED
      BY <1>2, NthRank DEF N
  <1>5. \A m, n \in 1..N : Nth(kept, m) = Nth(kept, n) => m = n
    <2> HIDE DEF kept
    <2>1. \A n \in 1..N : Cardinality({j \in kept : j <= Nth(kept, n)}) = n
      BY <1>2, NthRank DEF N
    <2> QED
      BY <2>1
  <1>6. \A k \in kept : \E n \in 1..N : Nth(kept, n) = k
    <2> HIDE DEF kept
    <2> QED
      BY <1>2, NthOnto DEF N
  <1>7. /\ t \in [1..N -> Summary]
        /\ \A n \in 1..N : t[n] = s[Nth(kept, n)] /\ Nth(kept, n) \in DOMAIN s /\ t[n].id # id
    BY <1>1, <1>3, <1>4
  <1>8. t \in Seq(Summary) /\ DOMAIN t = 1..N
    BY <1>2, <1>7, FunctionSeq
  <1>9. \A m, n \in DOMAIN t : t[m].id = t[n].id => m = n
    <2> HIDE DEF kept
    <2> QED
      BY <1>5, <1>7, <1>8 DEF ListOK
  <1>10. From(t, s)
    BY <1>7, <1>8 DEF From
  <1>11. IdsOf(t) \subseteq IdsOf(s) \ {id}
    BY <1>7, <1>8 DEF IdsOf
  <1>12. ASSUME NEW i \in IdsOf(s), i # id
         PROVE  i \in IdsOf(t)
    <2>1. PICK k \in DOMAIN s : s[k].id = i
      BY DEF IdsOf
    <2>2. PICK n \in 1..N : Nth(kept, n) = k
      BY <1>6, <1>12, <2>1
    <2> QED
      BY <1>7, <1>8, <2>1, <2>2 DEF IdsOf
  <1> QED
    BY <1>8, <1>9, <1>10, <1>11, <1>12 DEF ListOK, t

LEMMA ConcatSeq ==
    ASSUME NEW S, NEW a \in Seq(S), NEW b \in Seq(S)
    PROVE  /\ a \o b \in Seq(S) /\ Len(a \o b) = Len(a) + Len(b)
           /\ \A n \in 1..Len(a) : (a \o b)[n] = a[n]
           /\ \A n \in 1..Len(b) : (a \o b)[n + Len(a)] = b[n]
  OBVIOUS

LEMMA PrependSeq ==
    ASSUME NEW S, NEW x \in S, NEW w \in Seq(S)
    PROVE  /\ <<x>> \o w \in Seq(S) /\ Len(<<x>> \o w) = Len(w) + 1
           /\ (<<x>> \o w)[1] = x
           /\ \A n \in 1..Len(w) : (<<x>> \o w)[n + 1] = w[n]
  <1>1. <<x>> \in Seq(S) /\ Len(<<x>>) = 1 /\ <<x>>[1] = x
    OBVIOUS
  <1>2. Len(w) \in Nat
    OBVIOUS
  <1> DEFINE one == <<x>>
  <1>3. one \in Seq(S) /\ Len(one) = 1 /\ one[1] = x
    BY <1>1
  <1> HIDE DEF one
  <1>4. /\ one \o w \in Seq(S) /\ Len(one \o w) = Len(one) + Len(w)
        /\ \A n \in 1..Len(one) : (one \o w)[n] = one[n]
        /\ \A n \in 1..Len(w) : (one \o w)[n + Len(one)] = w[n]
    BY <1>3, ConcatSeq
  <1>5. (one \o w)[1] = x
    BY <1>3, <1>4
  <1>6. \A n \in 1..Len(w) : (one \o w)[n + 1] = w[n]
    BY <1>3, <1>4
  <1>7. one \o w \in Seq(S) /\ Len(one \o w) = Len(w) + 1
    BY <1>2, <1>3, <1>4
  <1> QED
    BY <1>5, <1>6, <1>7 DEF one

\* The list a started event leaves.
StartedList(list, id) ==
    LET all == <<[id |-> id, status |-> "Pending"]>> \o Without(list, id)
    IN SubSeq(all, 1, IF Len(all) > PageLimit THEN PageLimit ELSE Len(all))

LEMMA StartedListIs ==
    ASSUME NEW s, ListOK(s), NEW id \in Ids
    PROVE  LET t == StartedList(s, id) IN
           /\ ListOK(t)
           /\ IdsOf(t) \subseteq IdsOf(s) \union {id}
           /\ id \in IdsOf(t)
           /\ PageLimit >= Cardinality(Ids) => IdsOf(t) = IdsOf(s) \union {id}
           /\ \A n \in DOMAIN t :
                \/ t[n] = [id |-> id, status |-> "Pending"]
                \/ t[n].id # id /\ \E m \in DOMAIN s : t[n] = s[m]
  <1> DEFINE r == [id |-> id, status |-> "Pending"]
             w == Without(s, id)
             all == <<r>> \o w
             size == IF Len(all) > PageLimit THEN PageLimit ELSE Len(all)
             t == SubSeq(all, 1, size)
  <1>0. PageLimit \in Nat \ {0} /\ IsFiniteSet(Ids)
    BY DashboardAssumption
  <1>1. ListOK(w) /\ From(w, s) /\ IdsOf(w) = IdsOf(s) \ {id}
    BY WithoutList
  <1>2. r \in Summary /\ r.id = id
    BY DEF Summary, Statuses
  <1> HIDE DEF r, w
  <1>3. /\ Len(w) \in Nat /\ DOMAIN w = 1..Len(w) /\ w \in Seq(Summary)
        /\ \A n \in DOMAIN w : w[n] \in Summary /\ w[n].id # id
    <2>1. \A n \in DOMAIN w : w[n].id \in IdsOf(w)
      BY DEF IdsOf
    <2>2. w \in Seq(Summary)
      BY <1>1 DEF ListOK
    <2> QED
      BY <1>1, <2>1, <2>2, ListShape
  <1>4. /\ all \in Seq(Summary) /\ Len(all) = Len(w) + 1
        /\ all[1] = r /\ \A n \in 1..Len(w) : all[n + 1] = w[n]
    BY <1>2, <1>3, PrependSeq
  <1> HIDE DEF all
  <1>5. size \in 1..Len(all) /\ size <= PageLimit /\ (PageLimit >= Len(all) => size = Len(all))
    BY <1>0, <1>3, <1>4
  <1> HIDE DEF size
  <1>6. /\ t \in Seq(Summary) /\ DOMAIN t = 1..size
        /\ \A n \in 1..size : t[n] = all[n]
    BY <1>3, <1>4, <1>5
  <1> HIDE DEF t
  <1>7. ASSUME NEW n \in 1..Len(all)
        PROVE  \/ n = 1 /\ all[n] = r
               \/ n > 1 /\ n - 1 \in DOMAIN w /\ all[n] = w[n - 1] /\ all[n].id # id
    <2>1. CASE n > 1
      <3>1. n - 1 \in 1..Len(w) /\ (n - 1) + 1 = n
        BY <1>3, <1>4, <2>1
      <3> QED
        BY <1>3, <1>4, <2>1, <3>1
    <2> QED
      BY <1>3, <1>4, <2>1
  <1>8. \A m, n \in 1..Len(all) : all[m].id = all[n].id => m = n
    <2> SUFFICES ASSUME NEW m \in 1..Len(all), NEW n \in 1..Len(all), all[m].id = all[n].id
                 PROVE  m = n
      OBVIOUS
    <2>1. CASE m = 1 \/ n = 1
      BY <1>2, <1>7, <2>1
    <2>2. CASE m > 1 /\ n > 1
      <3>1. m - 1 \in DOMAIN w /\ n - 1 \in DOMAIN w /\ w[m - 1].id = w[n - 1].id
        BY <1>7, <2>2
      <3>2. m - 1 = n - 1
        BY <1>1, <3>1 DEF ListOK
      <3> QED
        BY <1>3, <1>4, <3>2
    <2> QED
      BY <1>3, <1>4, <2>1, <2>2
  <1>9. ListOK(t)
    BY <1>5, <1>6, <1>8 DEF ListOK
  <1>10. \A n \in DOMAIN t : t[n] = r \/ (t[n].id # id /\ \E m \in DOMAIN s : t[n] = s[m])
    <2> SUFFICES ASSUME NEW n \in DOMAIN t
                 PROVE  t[n] = r \/ (t[n].id # id /\ \E m \in DOMAIN s : t[n] = s[m])
      OBVIOUS
    <2>1. n \in 1..Len(all) /\ t[n] = all[n]
      BY <1>3, <1>4, <1>5, <1>6
    <2>2. CASE all[n] = r
      BY <2>1, <2>2
    <2>3. CASE n - 1 \in DOMAIN w /\ all[n] = w[n - 1] /\ all[n].id # id
      BY <1>1, <2>1, <2>3 DEF From
    <2> QED
      BY <1>7, <2>1, <2>2, <2>3
  <1>11. id \in IdsOf(t)
    BY <1>2, <1>4, <1>5, <1>6 DEF IdsOf
  <1>12. IdsOf(t) \subseteq IdsOf(s) \union {id}
    BY <1>2, <1>10 DEF IdsOf
  <1>13. ASSUME PageLimit >= Cardinality(Ids), NEW i \in IdsOf(s)
         PROVE  i \in IdsOf(t)
    <2>1. Len(all) <= Cardinality(Ids)
      <3>1. Len(w) = Cardinality(IdsOf(w))
        BY <1>1, ListShape
      <3>2. IdsOf(w) \in SUBSET (Ids \ {id})
        BY <1>1, ListShape
      <3>3. IsFiniteSet(Ids \ {id}) /\ Cardinality(Ids \ {id}) = Cardinality(Ids) - 1
        BY <1>0, FS_RemoveElement
      <3>4. Cardinality(IdsOf(w)) <= Cardinality(Ids \ {id})
        BY <3>2, <3>3, FS_Subset
      <3>5. Cardinality(Ids) \in Nat
        BY <1>0, FS_CardinalityType
      <3> QED
        BY <1>3, <1>4, <3>1, <3>3, <3>4, <3>5
    <2>2. size = Len(all)
      <3>1. Cardinality(Ids) \in Nat
        BY <1>0, FS_CardinalityType
      <3> QED
        BY <1>0, <1>3, <1>4, <1>5, <1>13, <2>1, <3>1
    <2>3. CASE i = id
      BY <1>11, <2>3
    <2>4. CASE i # id
      <3>1. PICK m \in DOMAIN w : w[m].id = i
        BY <1>1, <2>4 DEF IdsOf
      <3>2. m + 1 \in 1..size /\ all[m + 1] = w[m]
        BY <1>3, <1>4, <2>2, <3>1
      <3> QED
        BY <1>6, <3>1, <3>2 DEF IdsOf
    <2> QED
      BY <2>3, <2>4
  <1>14. StartedList(s, id) = t
    BY DEF StartedList, t, size, all, w, r
  <1> QED
    BY <1>9, <1>10, <1>11, <1>12, <1>13, <1>14 DEF r

\* The list a completed event leaves.
CompletedList(list, id, status) ==
    [n \in DOMAIN list |-> IF list[n].id = id THEN [id |-> id, status |-> status] ELSE list[n]]

LEMMA CompletedListIs ==
    ASSUME NEW s, ListOK(s), NEW id \in Ids, NEW status \in Statuses
    PROVE  LET t == CompletedList(s, id, status) IN
           /\ ListOK(t) /\ IdsOf(t) = IdsOf(s)
           /\ \A n \in DOMAIN t :
                \/ t[n] = [id |-> id, status |-> status]
                \/ t[n].id # id /\ \E m \in DOMAIN s : t[n] = s[m]
  <1> DEFINE t == CompletedList(s, id, status)
  <1>1. Len(s) \in Nat /\ DOMAIN s = 1..Len(s) /\ \A n \in DOMAIN s : s[n] \in Summary
    BY ListShape
  <1>2. /\ t \in [1..Len(s) -> Summary]
        /\ \A n \in DOMAIN s : t[n] = IF s[n].id = id THEN [id |-> id, status |-> status] ELSE s[n]
    BY <1>1 DEF CompletedList, Summary
  <1> HIDE DEF t
  <1>3. t \in Seq(Summary) /\ DOMAIN t = DOMAIN s
    BY <1>1, <1>2, FunctionSeq
  <1>4. \A n \in DOMAIN s : t[n].id = s[n].id
    BY <1>2
  <1>5. ListOK(t) /\ IdsOf(t) = IdsOf(s)
    BY <1>3, <1>4 DEF ListOK, IdsOf
  <1> QED
    BY <1>2, <1>3, <1>5 DEF t

\* The list the server answers with.
LogOK ==
    \A i \in Ids :
        /\ log[i] \in Detail \union {None}
        /\ log[i] # None => log[i].id = i
        /\ exchange[i] = "new" => log[i] = None
        /\ log[i] # None /\ exchange[i] \in {"announce", "running"} =>
             log[i].status = "Pending"

LongList == RecentLimit >= Cardinality(Ids)

LEMMA RecentRowsList ==
    ASSUME LogOK
    PROVE  LET t == RecentRows IN
           /\ ListOK(t)
           /\ \A n \in DOMAIN t : log[t[n].id] # None /\ t[n].status = log[t[n].id].status
           /\ LongList => \A i \in Ids : log[i] # None => i \in IdsOf(t)
  <1> DEFINE saved == {i \in Ids : log[i] # None}
             count == Cardinality(saved)
             size == IF count > RecentLimit THEN RecentLimit ELSE count
             newest(k) == Nth(saved, count + 1 - k)
             t == RecentRows
  <1>0. IsFiniteSet(Ids) /\ Ids \subseteq Nat /\ RecentLimit \in Nat \ {0}
    BY DashboardAssumption
  <1>1. /\ IsFiniteSet(saved) /\ saved \in SUBSET Nat /\ count \in Nat
        /\ count <= Cardinality(Ids) /\ Cardinality(Ids) \in Nat
    BY <1>0, FS_Subset, FS_CardinalityType
  <1>2. \A i \in saved : log[i] \in Detail /\ log[i].status \in Statuses
    BY DEF LogOK, Detail
  <1>3. t = [k \in 1..size |-> [id |-> newest(k), status |-> log[newest(k)].status]]
    BY DEF RecentRows
  <1>4. \A i \in saved : i \in Ids /\ log[i] # None
    OBVIOUS
  <1>5. \A i \in Ids : log[i] # None => i \in saved
    OBVIOUS
  <1> HIDE DEF saved, count, t
  <1>6. size \in Nat /\ size <= count /\ (LongList => size = count)
    BY <1>0, <1>1 DEF LongList
  <1> HIDE DEF size
  <1>7. ASSUME NEW k \in 1..size
        PROVE  newest(k) \in saved /\ Cardinality({j \in saved : j <= newest(k)}) = count + 1 - k
    <2>1. count + 1 - k \in 1..count
      BY <1>1, <1>6
    <2> QED
      BY <1>1, <2>1, NthRank DEF count
  <1>8. /\ t \in [1..size -> Summary]
        /\ \A k \in 1..size : t[k].id = newest(k) /\ t[k].status = log[newest(k)].status
    BY <1>2, <1>3, <1>4, <1>7 DEF Summary
  <1>9. t \in Seq(Summary) /\ DOMAIN t = 1..size
    BY <1>6, <1>8, FunctionSeq
  <1>10. ASSUME NEW j \in 1..size, NEW k \in 1..size, newest(j) = newest(k)
         PROVE  j = k
    <2>1. count + 1 - j = count + 1 - k
      BY <1>7, <1>10
    <2> QED
      BY <1>1, <1>6, <2>1
  <1>11. ListOK(t)
    <2> HIDE DEF newest
    <2> QED
      BY <1>8, <1>9, <1>10 DEF ListOK
  <1>12. \A n \in DOMAIN t : log[t[n].id] # None /\ t[n].status = log[t[n].id].status
    <2> HIDE DEF newest
    <2> QED
      BY <1>4, <1>7, <1>8, <1>9
  <1>13. ASSUME LongList, NEW i \in Ids, log[i] # None
         PROVE  i \in IdsOf(t)
    <2>1. PICK n \in 1..count : Nth(saved, n) = i
      BY <1>1, <1>5, <1>13, NthOnto DEF count
    <2> DEFINE k == count + 1 - n
    <2>2. k \in 1..size /\ count + 1 - k = n
      BY <1>1, <1>6, <1>13
    <2>3. newest(k) = i
      BY <2>1, <2>2
    <2> HIDE DEF k, newest
    <2> QED
      BY <1>8, <1>9, <2>2, <2>3 DEF IdsOf
  <1> QED
    BY <1>11, <1>12, <1>13 DEF t

-----------------------------------------------------------------------------
(* What the messages say of requests.                                      *)

IsDetail(m) == IsAnswer(m) /\ m.call.op = "detail"
IsList(m) == IsAnswer(m) /\ m.call.op = "list" /\ m.ok
IsEvent(m, kind, i) == m.kind = kind /\ m.id = i

\* m puts i on the list.
Shows(m, i) == IsEvent(m, "started", i) \/ (IsList(m) /\ i \in IdsOf(m.data))

\* m takes i from the list.
Removes(m, i) ==
    /\ IsAnswer(m) /\ m.ok
    /\ \/ m.call.op = "list" /\ i \notin IdsOf(m.data)
       \/ m.call.op = "delete" /\ m.call.id = i
       \/ m.call.op = "truncate"

\* Details and deletions are of a request.
CallTyped(c) == c \in Calls /\ (c.op \in {"detail", "delete"} => c.id \in Ids)

AnswerTyped(m) ==
    /\ CallTyped(m.call)
    /\ m.ok \in BOOLEAN
    /\ IsList(m) => ListOK(m.data)
    /\ IsDetail(m) => m.data \in Detail \union {None} /\ (m.data # None => m.data.id = m.call.id)

EventTyped(m) ==
    /\ m.kind \in {"started", "chunk", "completed"}
    /\ m.id \in Ids
    /\ m.kind = "chunk" => m.chunk \in 1..MaxChunks
    /\ m.kind = "completed" => m.status \in Statuses

MessageTyped(m) == IF IsAnswer(m) THEN AnswerTyped(m) ELSE EventTyped(m)

-----------------------------------------------------------------------------
(* What taking a message does to the list, the selection and the detail.   *)

PageTyped(p) ==
    /\ ListOK(p.requests)
    /\ p.selectedRequestId \in Ids \union {None}
    /\ p.selectedRequest \in Detail \union {None}

KeepsContent(p, q) ==
    /\ q.requests = p.requests
    /\ q.selectedRequestId = p.selectedRequestId
    /\ q.selectedRequest = p.selectedRequest

\* The list gains what the message shows and loses what it removes, or what it is
\* too long for.
ListTaken(m, p, q) ==
    /\ IdsOf(q.requests) \subseteq IdsOf(p.requests) \union {i \in Ids : Shows(m, i)}
    /\ \A i \in IdsOf(p.requests) :
         i \in IdsOf(q.requests) \/ Removes(m, i) \/ ~(PageLimit >= Cardinality(Ids))
    /\ \A i \in Ids : Shows(m, i) => i \in IdsOf(q.requests)

\* Each status comes from the message or was there before.
StatusTaken(m, p, q) ==
    \A n \in DOMAIN q.requests :
        \/ /\ ~IsList(m)
           /\ ~IsEvent(m, "started", q.requests[n].id)
           /\ ~IsEvent(m, "completed", q.requests[n].id)
           /\ \E l \in DOMAIN p.requests : q.requests[n] = p.requests[l]
        \/ IsList(m) /\ \E l \in DOMAIN m.data : q.requests[n] = m.data[l]
        \/ IsEvent(m, "started", q.requests[n].id) /\ q.requests[n].status = "Pending"
        \/ IsEvent(m, "completed", q.requests[n].id) /\ q.requests[n].status = m.status

\* The selection moves where there is none or its request goes, and then no
\* detail is shown that was not shown before.
SelectionTaken(m, p, q) ==
    \/ q.selectedRequestId = p.selectedRequestId
    \/ /\ ~IsDetail(m)
       /\ q.selectedRequestId \in IdsOf(q.requests) \union {None}
       /\ \/ p.selectedRequestId = None /\ q.selectedRequest = p.selectedRequest
          \/ Removes(m, p.selectedRequestId) /\ q.selectedRequest = None

DetailTaken(m, p, q) ==
    IF IsDetail(m) THEN q.selectedRequest = m.data
    ELSE \/ q.selectedRequest \in {None, p.selectedRequest}
         \/ /\ IsEvent(m, "chunk", p.selectedRequestId)
            /\ p.selectedRequest # None /\ q.selectedRequest # None
            /\ q.selectedRequest.id = p.selectedRequest.id

Taken(m, p, q) ==
    /\ PageTyped(q)
    /\ ListTaken(m, p, q)
    /\ StatusTaken(m, p, q)
    /\ SelectionTaken(m, p, q)
    /\ DetailTaken(m, p, q)

LEMMA KeptContent ==
    ASSUME NEW p, IsPage(p), NEW isOpen
    PROVE  /\ KeepsContent(p, RenderDetail(p))
           /\ KeepsContent(p, BeginDetail(p))
           /\ KeepsContent(p, SetOpen(p, isOpen))
  BY DEF IsPage, KeepsContent, RenderDetail, BeginDetail, SetOpen

LEMMA TakenContent ==
    ASSUME NEW m, NEW p, NEW q, NEW r, Taken(m, p, q), KeepsContent(q, r)
    PROVE  Taken(m, p, r)
  BY DEF Taken, KeepsContent, PageTyped, ListTaken, StatusTaken, SelectionTaken, DetailTaken

\* Messages without effect on the content.
LEMMA TakenNothing ==
    ASSUME NEW m, NEW p, PageTyped(p), ~IsList(m), ~IsDetail(m),
           \A i \in Ids : ~IsEvent(m, "started", i) /\ ~IsEvent(m, "completed", i)
    PROVE  Taken(m, p, p)
  <1>1. \A n \in DOMAIN p.requests : p.requests[n].id \in Ids
    BY ListShape DEF PageTyped, Summary
  <1>2. IdsOf(p.requests) \subseteq Ids
    BY ListShape DEF PageTyped
  <1> QED
    BY <1>1, <1>2 DEF Taken, ListTaken, StatusTaken, SelectionTaken, DetailTaken, Shows

\* The list is what the answer has.
LEMMA RefreshedList ==
    ASSUME NEW m, NEW p, NEW q, PageTyped(p), IsList(m), ListOK(m.data),
           q.requests = m.data,
           \/ /\ q.selectedRequest = p.selectedRequest
              /\ q.selectedRequestId = p.selectedRequestId
           \/ /\ q.selectedRequest = p.selectedRequest
              /\ p.selectedRequestId = None
              /\ q.selectedRequestId \in IdsOf(m.data) \union {None}
           \/ /\ q.selectedRequest = None
              /\ Removes(m, p.selectedRequestId)
              /\ q.selectedRequestId \in IdsOf(m.data) \union {None}
    PROVE  Taken(m, p, q)
  <1>1. IdsOf(m.data) \subseteq Ids
    BY ListShape
  <1>2. PageTyped(q)
    BY <1>1 DEF PageTyped
  <1>3. ~IsDetail(m) /\ \A i : Shows(m, i) \/ Removes(m, i)
    BY DEF IsDetail, IsList, Shows, Removes
  <1>4. ~IsDetail(m) /\ \A i : Shows(m, i) <=> i \in IdsOf(m.data)
    BY DEF IsDetail, IsList, Shows, IsEvent, IsAnswer
  <1>5. ListTaken(m, p, q)
    BY <1>1, <1>3, <1>4 DEF ListTaken
  <1>6. StatusTaken(m, p, q)
    BY DEF StatusTaken
  <1>7. SelectionTaken(m, p, q) /\ DetailTaken(m, p, q)
    BY <1>3 DEF SelectionTaken, DetailTaken
  <1> QED
    BY <1>2, <1>5, <1>6, <1>7 DEF Taken

LEMMA RefreshTaken ==
    ASSUME NEW m, NEW p, IsPage(p), PageTyped(p), AnswerTyped(m), IsList(m)
    PROVE  Taken(m, p, RefreshRequests(p, m.data))
  <1> DEFINE loaded == [p EXCEPT !.requests = m.data]
             kept == IF p.selectedRequestId \in {None} \union Listed(loaded)
                       THEN loaded ELSE ClearSelected(loaded)
             chosen == IF kept.selectedRequestId # None THEN kept
                         ELSE [kept EXCEPT !.selectedRequestId = FirstId(m.data)]
             q == RefreshRequests(p, m.data)
  <1>1. ListOK(m.data) /\ FirstId(m.data) \in IdsOf(m.data) \union {None}
    BY FirstOfList DEF AnswerTyped
  <1>2. /\ IsPage(loaded) /\ loaded.requests = m.data
        /\ loaded.selectedRequestId = p.selectedRequestId
        /\ loaded.selectedRequest = p.selectedRequest
    BY DEF IsPage
  <1>3. Listed(loaded) = IdsOf(m.data)
    BY <1>2 DEF Listed, IdsOf
  <1>4. q = RenderDetail(chosen)
    BY DEF RefreshRequests
  <1> HIDE DEF loaded
  <1>5. CASE p.selectedRequestId \in {None} \union IdsOf(m.data)
    <2>1. kept = loaded
      BY <1>3, <1>5
    <2> HIDE DEF kept
    <2>2. IsPage(chosen)
      BY <1>2, <2>1 DEF IsPage
    <2>3. /\ chosen.requests = m.data
          /\ chosen.selectedRequest = p.selectedRequest
          /\ IF p.selectedRequestId # None THEN chosen.selectedRequestId = p.selectedRequestId
             ELSE chosen.selectedRequestId = FirstId(m.data)
      BY <1>2, <2>1 DEF IsPage
    <2> HIDE DEF chosen
    <2>4. KeepsContent(chosen, q)
      BY <1>4, <2>2, KeptContent
    <2> HIDE DEF q
    <2>5. /\ q.requests = m.data
          /\ q.selectedRequest = p.selectedRequest
          /\ \/ q.selectedRequestId = p.selectedRequestId
             \/ /\ p.selectedRequestId = None
                /\ q.selectedRequestId \in IdsOf(m.data) \union {None}
      BY <1>1, <2>3, <2>4 DEF KeepsContent
    <2>6. Taken(m, p, q)
      BY <1>1, <2>5, RefreshedList
    <2> QED
      BY <2>6 DEF q
  <1>6. CASE p.selectedRequestId \notin {None} \union IdsOf(m.data)
    <2>1. kept = ClearSelected(loaded)
      BY <1>3, <1>6
    <2> HIDE DEF kept
    <2>2. /\ IsPage(kept) /\ kept.requests = m.data
          /\ kept.selectedRequestId = None /\ kept.selectedRequest = None
      BY <1>2, <2>1 DEF IsPage, ClearSelected
    <2>3. /\ IsPage(chosen) /\ chosen.requests = m.data
          /\ chosen.selectedRequest = None
          /\ chosen.selectedRequestId = FirstId(m.data)
      BY <2>2 DEF IsPage
    <2> HIDE DEF chosen
    <2>4. KeepsContent(chosen, q)
      BY <1>4, <2>3, KeptContent
    <2> HIDE DEF q
    <2>5. /\ q.requests = m.data
          /\ q.selectedRequest = None
          /\ q.selectedRequestId \in IdsOf(m.data) \union {None}
      BY <1>1, <2>3, <2>4 DEF KeepsContent
    <2>6. Removes(m, p.selectedRequestId)
      BY <1>6 DEF Removes, IsList
    <2>7. Taken(m, p, q)
      BY <1>1, <2>5, <2>6, RefreshedList
    <2> QED
      BY <2>7 DEF q
  <1> QED
    BY <1>5, <1>6

LEMMA EndDetailTaken ==
    ASSUME NEW m, NEW p, IsPage(p), PageTyped(p), AnswerTyped(m), IsDetail(m)
    PROVE  Taken(m, p, EndDetail(p, m.data))
  <1> DEFINE r == [p EXCEPT !.selectedRequest = m.data, !.isRequestDetailLoading = FALSE]
             q == EndDetail(p, m.data)
  <1>1. /\ IsPage(r) /\ r.requests = p.requests
        /\ r.selectedRequestId = p.selectedRequestId /\ r.selectedRequest = m.data
    BY DEF IsPage
  <1>2. q = RenderDetail(r)
    BY DEF EndDetail
  <1> HIDE DEF r
  <1>3. KeepsContent(r, q)
    BY <1>1, <1>2, KeptContent
  <1> HIDE DEF q
  <1>4. /\ q.requests = p.requests /\ q.selectedRequestId = p.selectedRequestId
        /\ q.selectedRequest = m.data /\ m.data \in Detail \union {None}
    BY <1>1, <1>3 DEF KeepsContent, AnswerTyped
  <1>5. /\ ~IsList(m)
        /\ \A i : ~IsEvent(m, "started", i) /\ ~IsEvent(m, "completed", i) /\ ~Shows(m, i)
    BY DEF IsDetail, IsList, IsAnswer, IsEvent, Shows
  <1>6. ListTaken(m, p, q) /\ StatusTaken(m, p, q)
    BY <1>4, <1>5 DEF ListTaken, StatusTaken
  <1>7. SelectionTaken(m, p, q) /\ DetailTaken(m, p, q)
    BY <1>4 DEF SelectionTaken, DetailTaken
  <1>8. PageTyped(q)
    BY <1>4 DEF PageTyped
  <1>9. Taken(m, p, q)
    BY <1>6, <1>7, <1>8 DEF Taken
  <1> QED
    BY <1>9 DEF q

LEMMA EndDeleteTaken ==
    ASSUME NEW m, NEW p, IsPage(p), PageTyped(p), AnswerTyped(m), IsAnswer(m),
           m.call.op = "delete"
    PROVE  Taken(m, p, EndDelete(p, m.call.id, m.ok))
  <1> DEFINE id == m.call.id
             rest == Without(p.requests, id)
             removed == RemoveRequest(p, id)
             r == IF m.ok THEN SetOpen(removed, FALSE) ELSE p
             s == [r EXCEPT !.isDeletingRequest = FALSE]
             q == EndDelete(p, id, m.ok)
  <1>1. /\ ~IsList(m) /\ ~IsDetail(m)
        /\ \A i : ~IsEvent(m, "started", i) /\ ~IsEvent(m, "completed", i) /\ ~Shows(m, i)
    BY DEF IsDetail, IsList, IsAnswer, IsEvent, Shows
  <1>2. /\ ListOK(rest) /\ From(rest, p.requests) /\ IdsOf(rest) = IdsOf(p.requests) \ {id}
        /\ FirstId(rest) \in IdsOf(rest) \union {None}
    BY WithoutList, FirstOfList DEF PageTyped
  <1>3. /\ IsPage(removed) /\ removed.requests = rest
        /\ IF p.selectedRequestId = id
             THEN removed.selectedRequestId = FirstId(rest) /\ removed.selectedRequest = None
             ELSE /\ removed.selectedRequestId = p.selectedRequestId
                  /\ removed.selectedRequest = p.selectedRequest
    BY DEF IsPage, RemoveRequest
  <1>4. q = RenderDetail(s)
    BY DEF EndDelete
  <1>5. m.ok => Removes(m, id)
    BY DEF Removes
  <1> HIDE DEF removed, rest, id
  <1>6. /\ IsPage(r)
        /\ m.ok => KeepsContent(removed, r)
        /\ ~m.ok => r = p
    BY <1>3, SetOpenPage, KeptContent
  <1> HIDE DEF r
  <1>7. IsPage(s) /\ KeepsContent(r, s)
    BY <1>6 DEF IsPage, KeepsContent
  <1> HIDE DEF s
  <1>8. KeepsContent(r, q)
    BY <1>4, <1>7, KeptContent DEF KeepsContent
  <1> HIDE DEF q
  <1>9. Taken(m, p, q)
    <2>1. CASE ~m.ok
      BY <1>1, <1>6, <1>8, <2>1, TakenNothing, TakenContent
    <2>2. CASE m.ok
      <3>1. /\ q.requests = rest
            /\ IF p.selectedRequestId = id
                 THEN q.selectedRequestId = FirstId(rest) /\ q.selectedRequest = None
                 ELSE /\ q.selectedRequestId = p.selectedRequestId
                      /\ q.selectedRequest = p.selectedRequest
        BY <1>3, <1>6, <1>8, <2>2 DEF KeepsContent
      <3>2. PageTyped(q)
        <4>1. IdsOf(rest) \subseteq Ids
          BY <1>2, ListShape
        <4> QED
          BY <1>2, <3>1, <4>1 DEF PageTyped
      <3>3. ListTaken(m, p, q)
        BY <1>1, <1>2, <1>5, <2>2, <3>1 DEF ListTaken
      <3>4. StatusTaken(m, p, q)
        BY <1>1, <1>2, <3>1 DEF StatusTaken, From
      <3>5. SelectionTaken(m, p, q) /\ DetailTaken(m, p, q)
        BY <1>1, <1>2, <1>5, <2>2, <3>1 DEF SelectionTaken, DetailTaken
      <3> QED
        BY <3>2, <3>3, <3>4, <3>5 DEF Taken
    <2> QED
      BY <2>1, <2>2
  <1> QED
    BY <1>9 DEF q, id

LEMMA EndTruncateTaken ==
    ASSUME NEW m, NEW p, IsPage(p), PageTyped(p), AnswerTyped(m), IsAnswer(m),
           m.call.op = "truncate"
    PROVE  Taken(m, p, EndTruncate(p, m.ok))
  <1> DEFINE r == IF m.ok THEN [ClearSelected(p) EXCEPT !.requests = <<>>] ELSE p
             s == [r EXCEPT !.isTruncatingRequests = FALSE]
             q == EndTruncate(p, m.ok)
  <1>1. /\ ~IsList(m) /\ ~IsDetail(m)
        /\ \A i : ~IsEvent(m, "started", i) /\ ~IsEvent(m, "completed", i) /\ ~Shows(m, i)
        /\ m.ok => \A i : Removes(m, i)
    BY DEF IsDetail, IsList, IsAnswer, IsEvent, Shows, Removes
  <1>2. /\ IsPage(r)
        /\ m.ok => /\ r.requests = <<>> /\ r.selectedRequestId = None
                   /\ r.selectedRequest = None
        /\ ~m.ok => r = p
    BY DEF IsPage, ClearSelected
  <1>3. q = RenderDetail(s)
    BY DEF EndTruncate
  <1> HIDE DEF r
  <1>4. IsPage(s) /\ KeepsContent(r, s)
    BY <1>2 DEF IsPage, KeepsContent
  <1> HIDE DEF s
  <1>5. KeepsContent(r, q)
    BY <1>3, <1>4, KeptContent DEF KeepsContent
  <1> HIDE DEF q
  <1>6. Taken(m, p, q)
    <2>1. CASE ~m.ok
      BY <1>1, <1>2, <1>5, <2>1, TakenNothing, TakenContent
    <2>2. CASE m.ok
      <3>1. q.requests = <<>> /\ q.selectedRequestId = None /\ q.selectedRequest = None
        BY <1>2, <1>5, <2>2 DEF KeepsContent
      <3>2. PageTyped(q) /\ IdsOf(q.requests) = {} /\ DOMAIN q.requests = {}
        BY <3>1, EmptyList DEF PageTyped
      <3>3. ListTaken(m, p, q) /\ StatusTaken(m, p, q)
        BY <1>1, <2>2, <3>2 DEF ListTaken, StatusTaken
      <3>4. SelectionTaken(m, p, q) /\ DetailTaken(m, p, q)
        BY <1>1, <2>2, <3>1 DEF SelectionTaken, DetailTaken
      <3> QED
        BY <3>2, <3>3, <3>4 DEF Taken
    <2> QED
      BY <2>1, <2>2
  <1> QED
    BY <1>6 DEF q

LEMMA AnsweredTaken ==
    ASSUME NEW m, NEW p, IsPage(p), PageTyped(p), IsAnswer(m), AnswerTyped(m)
    PROVE  Taken(m, p, Answered(p, m))
  <1> DEFINE q == Answered(p, m)
  <1>1. CASE m.call.op = "list"
    <2>1. q = IF m.ok THEN RefreshRequests(p, m.data) ELSE p
      BY <1>1 DEF Answered
    <2> HIDE DEF q
    <2>2. CASE m.ok
      BY <1>1, <2>1, <2>2, RefreshTaken DEF IsList, q
    <2>3. CASE ~m.ok
      <3>1. /\ ~IsList(m) /\ ~IsDetail(m)
            /\ \A i \in Ids : ~IsEvent(m, "started", i) /\ ~IsEvent(m, "completed", i)
        BY <1>1, <2>3 DEF IsDetail, IsList, IsAnswer, IsEvent
      <3> QED
        BY <2>1, <2>3, <3>1, TakenNothing DEF q
    <2> QED
      BY <2>2, <2>3
  <1>2. CASE m.call.op = "detail"
    <2>1. q = EndDetail(p, m.data)
      BY <1>2 DEF Answered
    <2> HIDE DEF q
    <2> QED
      BY <1>2, <2>1, EndDetailTaken DEF IsDetail, q
  <1>3. CASE m.call.op = "delete"
    <2>1. q = EndDelete(p, m.call.id, m.ok)
      BY <1>3 DEF Answered
    <2> HIDE DEF q
    <2> QED
      BY <1>3, <2>1, EndDeleteTaken DEF q
  <1>4. CASE m.call.op = "truncate"
    <2>1. q = EndTruncate(p, m.ok)
      BY <1>4 DEF Answered
    <2> HIDE DEF q
    <2> QED
      BY <1>4, <2>1, EndTruncateTaken DEF q
  <1>5. CASE m.call.op \notin {"list", "detail", "delete", "truncate"}
    <2>1. q = p
      BY <1>5 DEF Answered
    <2>2. /\ ~IsList(m) /\ ~IsDetail(m)
          /\ \A i \in Ids : ~IsEvent(m, "started", i) /\ ~IsEvent(m, "completed", i)
      BY <1>5 DEF IsDetail, IsList, IsAnswer, IsEvent
    <2> HIDE DEF q
    <2> QED
      BY <2>1, <2>2, TakenNothing DEF q
  <1> QED
    BY <1>1, <1>2, <1>3, <1>4, <1>5

LEMMA StartedTaken ==
    ASSUME NEW m, NEW p, IsPage(p), PageTyped(p), EventTyped(m), m.kind = "started"
    PROVE  Taken(m, p, Started(p, m.id))
  <1> DEFINE id == m.id
             list == StartedList(p.requests, id)
             r == [p EXCEPT !.requests = list]
             q == Started(p, id)
  <1>1. /\ ~IsList(m) /\ ~IsDetail(m) /\ id \in Ids
        /\ \A i : IsEvent(m, "started", i) <=> i = id
        /\ \A i : ~IsEvent(m, "completed", i) /\ (Shows(m, i) <=> i = id)
    BY DEF IsDetail, IsList, IsAnswer, IsEvent, Shows, EventTyped
  <1>2. /\ ListOK(list)
        /\ IdsOf(list) \subseteq IdsOf(p.requests) \union {id}
        /\ id \in IdsOf(list)
        /\ PageLimit >= Cardinality(Ids) => IdsOf(list) = IdsOf(p.requests) \union {id}
        /\ \A n \in DOMAIN list :
             \/ list[n] = [id |-> id, status |-> "Pending"]
             \/ list[n].id # id /\ \E k \in DOMAIN p.requests : list[n] = p.requests[k]
    BY <1>1, StartedListIs DEF PageTyped
  <1>3. q = RenderDetail(r)
    BY DEF Started, StartedList
  <1> HIDE DEF list, id
  <1>4. /\ IsPage(r) /\ r.requests = list
        /\ r.selectedRequestId = p.selectedRequestId
        /\ r.selectedRequest = p.selectedRequest
    BY DEF IsPage
  <1> HIDE DEF r
  <1>5. KeepsContent(r, q)
    BY <1>3, <1>4, KeptContent
  <1> HIDE DEF q
  <1>6. /\ q.requests = list /\ q.selectedRequestId = p.selectedRequestId
        /\ q.selectedRequest = p.selectedRequest
    BY <1>4, <1>5 DEF KeepsContent
  <1>7. PageTyped(q)
    BY <1>2, <1>6 DEF PageTyped
  <1>8. ListTaken(m, p, q)
    BY <1>1, <1>2, <1>6 DEF ListTaken
  <1>9. StatusTaken(m, p, q)
    <2> SUFFICES ASSUME NEW n \in DOMAIN list
                 PROVE  \/ /\ list[n].id # id
                           /\ \E k \in DOMAIN p.requests : list[n] = p.requests[k]
                        \/ list[n].id = id /\ list[n].status = "Pending"
      BY <1>1, <1>6 DEF StatusTaken
    <2> QED
      BY <1>2
  <1>10. SelectionTaken(m, p, q) /\ DetailTaken(m, p, q)
    BY <1>1, <1>6 DEF SelectionTaken, DetailTaken
  <1>11. Taken(m, p, q)
    BY <1>7, <1>8, <1>9, <1>10 DEF Taken
  <1> QED
    BY <1>11 DEF q, id

LEMMA ChunkTaken ==
    ASSUME NEW m, NEW p, IsPage(p), PageTyped(p), EventTyped(m), m.kind = "chunk"
    PROVE  Taken(m, p, Chunk(p, m.id, m.chunk))
  <1>1. /\ ~IsList(m) /\ ~IsDetail(m)
        /\ \A i : ~IsEvent(m, "started", i) /\ ~IsEvent(m, "completed", i) /\ ~Shows(m, i)
    BY DEF IsDetail, IsList, IsAnswer, IsEvent, Shows
  <1>2. CASE m.id = p.selectedRequestId /\ p.selectedRequest # None
    <2> DEFINE d == [p.selectedRequest EXCEPT !.body = Append(@, m.chunk)]
               r == [p EXCEPT !.selectedRequest.body = Append(@, m.chunk)]
               q == Chunk(p, m.id, m.chunk)
    <2>1. p.selectedRequest \in Detail /\ m.chunk \in 1..MaxChunks
      BY <1>2 DEF PageTyped, EventTyped
    <2>2. d \in Detail /\ d.id = p.selectedRequest.id
      <3>1. p.selectedRequest.body \in Seq(1..MaxChunks)
        BY <2>1 DEF Detail
      <3>2. Append(p.selectedRequest.body, m.chunk) \in Seq(1..MaxChunks)
        BY <2>1, <3>1
      <3> QED
        BY <2>1, <3>2 DEF Detail
    <2>3. /\ IsPage(r) /\ r.requests = p.requests
          /\ r.selectedRequestId = p.selectedRequestId /\ r.selectedRequest = d
      BY DEF IsPage
    <2>4. q = RenderDetail(r)
      BY <1>2 DEF Chunk
    <2> HIDE DEF r, d
    <2>5. KeepsContent(r, q)
      BY <2>3, <2>4, KeptContent
    <2> HIDE DEF q
    <2>6. /\ q.requests = p.requests /\ q.selectedRequestId = p.selectedRequestId
          /\ q.selectedRequest = d
      BY <2>3, <2>5 DEF KeepsContent
    <2>7. PageTyped(q)
      BY <2>2, <2>6 DEF PageTyped
    <2>8. ListTaken(m, p, q) /\ StatusTaken(m, p, q)
      BY <1>1, <2>6 DEF ListTaken, StatusTaken
    <2>9. SelectionTaken(m, p, q)
      BY <2>6 DEF SelectionTaken
    <2>10. DetailTaken(m, p, q)
      <3>1. d # None
        BY <2>2, DashboardAssumption
      <3>2. IsEvent(m, "chunk", p.selectedRequestId)
        BY <1>2 DEF IsEvent
      <3> QED
        BY <1>1, <1>2, <2>2, <2>6, <3>1, <3>2 DEF DetailTaken
    <2>11. Taken(m, p, q)
      BY <2>7, <2>8, <2>9, <2>10 DEF Taken
    <2> QED
      BY <2>11 DEF q
  <1>3. CASE ~(m.id = p.selectedRequestId /\ p.selectedRequest # None)
    <2>1. Chunk(p, m.id, m.chunk) = p
      BY <1>3 DEF Chunk
    <2> QED
      BY <1>1, <2>1, TakenNothing
  <1> QED
    BY <1>2, <1>3

LEMMA CompletedTaken ==
    ASSUME NEW m, NEW p, IsPage(p), PageTyped(p), EventTyped(m), m.kind = "completed"
    PROVE  Taken(m, p, Completed(p, m.id, m.status))
  <1> DEFINE id == m.id
             list == CompletedList(p.requests, id, m.status)
             r == [p EXCEPT !.requests = list]
             s == RenderDetail(r)
             q == Completed(p, id, m.status)
  <1>1. /\ ~IsList(m) /\ ~IsDetail(m) /\ id \in Ids
        /\ \A i : IsEvent(m, "completed", i) <=> i = id
        /\ \A i : ~IsEvent(m, "started", i) /\ ~Shows(m, i)
    BY DEF IsDetail, IsList, IsAnswer, IsEvent, Shows, EventTyped
  <1>2. /\ ListOK(list) /\ IdsOf(list) = IdsOf(p.requests)
        /\ \A n \in DOMAIN list :
             \/ list[n] = [id |-> id, status |-> m.status]
             \/ list[n].id # id /\ \E k \in DOMAIN p.requests : list[n] = p.requests[k]
    BY <1>1, CompletedListIs DEF PageTyped, EventTyped
  <1>3. q = IF id = p.selectedRequestId THEN BeginDetail(s) ELSE s
    BY DEF Completed, CompletedList
  <1> HIDE DEF list, id
  <1>4. /\ IsPage(r) /\ r.requests = list
        /\ r.selectedRequestId = p.selectedRequestId
        /\ r.selectedRequest = p.selectedRequest
    BY DEF IsPage
  <1> HIDE DEF r
  <1>5. IsPage(s) /\ KeepsContent(r, s)
    BY <1>4, KeptContent DEF RenderDetail, IsPage
  <1> HIDE DEF s
  <1>6. KeepsContent(r, q)
    BY <1>3, <1>5, KeptContent DEF KeepsContent
  <1> HIDE DEF q
  <1>7. /\ q.requests = list /\ q.selectedRequestId = p.selectedRequestId
        /\ q.selectedRequest = p.selectedRequest
    BY <1>4, <1>6 DEF KeepsContent
  <1>8. PageTyped(q)
    BY <1>2, <1>7 DEF PageTyped
  <1>9. ListTaken(m, p, q)
    BY <1>1, <1>2, <1>7 DEF ListTaken
  <1>10. StatusTaken(m, p, q)
    <2> SUFFICES ASSUME NEW n \in DOMAIN list
                 PROVE  \/ /\ list[n].id # id
                           /\ \E k \in DOMAIN p.requests : list[n] = p.requests[k]
                        \/ list[n].id = id /\ list[n].status = m.status
      BY <1>1, <1>7 DEF StatusTaken
    <2> QED
      BY <1>2
  <1>11. SelectionTaken(m, p, q) /\ DetailTaken(m, p, q)
    BY <1>1, <1>7 DEF SelectionTaken, DetailTaken
  <1>12. Taken(m, p, q)
    BY <1>8, <1>9, <1>10, <1>11 DEF Taken
  <1> QED
    BY <1>12 DEF q, id

-----------------------------------------------------------------------------
(* Sequences as they grow and shrink.                                      *)

\* t is s and x behind it, at n.
Grown(s, t, n, x) ==
    /\ DOMAIN t \subseteq Nat /\ n \notin DOMAIN s
    /\ DOMAIN t = DOMAIN s \union {n}
    /\ t[n] = x
    /\ \A j \in DOMAIN s : t[j] = s[j] /\ j < n

\* t is s without its k-th element.
Shrunk(s, t, k) ==
    /\ DOMAIN s \subseteq Nat /\ DOMAIN t \subseteq Nat
    /\ \A j \in DOMAIN t : Skip(k, j) \in DOMAIN s \ {k} /\ t[j] = s[Skip(k, j)]
    /\ \A j \in DOMAIN s : j # k => \E l \in DOMAIN t : Skip(k, l) = j
    /\ \A i, j \in DOMAIN t : i < j <=> Skip(k, i) < Skip(k, j)
    /\ k = 1 => \A j \in DOMAIN s : j # k => j > k

LEMMA AppendGrows ==
    ASSUME NEW s, IsSeq(s), NEW x
    PROVE  \E n : Grown(s, Append(s, x), n, x)
  <1> DEFINE t == Append(s, x)
  <1>1. /\ Len(s) \in Nat /\ DOMAIN s = 1..Len(s) /\ DOMAIN t = 1..(Len(s) + 1)
        /\ \A j \in 1..Len(s) : t[j] = s[j]
        /\ t[Len(s) + 1] = x
    BY AppendSeq
  <1> HIDE DEF t
  <1>2. Grown(s, t, Len(s) + 1, x)
    BY <1>1 DEF Grown
  <1> QED
    BY <1>2 DEF t

LEMMA RemoveShrinks ==
    ASSUME NEW s, IsSeq(s), NEW k \in DOMAIN s
    PROVE  Shrunk(s, RemoveAt(s, k), k)
  <1> DEFINE t == RemoveAt(s, k)
             n == Len(s)
  <1>1. /\ n \in Nat /\ DOMAIN s = 1..n /\ DOMAIN t = 1..(n - 1)
        /\ \A j \in 1..(n - 1) : t[j] = s[Skip(k, j)]
    BY RemoveAtSeq
  <1> HIDE DEF t, n
  <1>2. k \in 1..n
    BY <1>1
  <1>3. \A j \in 1..(n - 1) : Skip(k, j) \in 1..n /\ Skip(k, j) # k
    BY <1>1, <1>2 DEF Skip
  <1>4. ASSUME NEW j \in 1..n, j # k
        PROVE  \E l \in 1..(n - 1) : Skip(k, l) = j
    <2>1. CASE j < k
      <3>1. j \in 1..(n - 1) /\ Skip(k, j) = j
        BY <1>1, <1>2, <2>1 DEF Skip
      <3> QED
        BY <3>1
    <2>2. CASE j > k
      <3>1. j - 1 \in 1..(n - 1) /\ Skip(k, j - 1) = j
        BY <1>1, <1>2, <2>2 DEF Skip
      <3> QED
        BY <3>1
    <2> QED
      BY <1>2, <1>4, <2>1, <2>2
  <1>5. \A i, j \in 1..(n - 1) : i < j <=> Skip(k, i) < Skip(k, j)
    BY <1>1, <1>2 DEF Skip
  <1>6. k = 1 => \A j \in 1..n : j # k => j > k
    BY <1>1
  <1>7. DOMAIN s \subseteq Nat /\ DOMAIN t \subseteq Nat
    BY <1>1
  <1> QED
    BY <1>1, <1>3, <1>4, <1>5, <1>6, <1>7 DEF Shrunk, t

-----------------------------------------------------------------------------
(* The kinds of steps.                                                     *)

ServerTyped ==
    /\ faults \in FaultSets
    /\ log \in [Ids -> Detail \union {None}]
    /\ exchange \in [Ids -> Stages]
    /\ sent \in [Ids -> 0..MaxChunks]
    /\ boot \in BootSteps
    /\ connectionState \in {"connecting", "connected", "reconnecting", "failed"}
    /\ missed \subseteq Views \X Ids

NetTyped ==
    /\ \A k \in DOMAIN calls : CallTyped(calls[k])
    /\ \A k \in DOMAIN inbox : MessageTyped(inbox[k])

TypeInv ==
    /\ DashboardInv
    /\ ServerTyped
    /\ LogOK
    /\ NetTyped
    /\ PageTyped(page)

Missed(i) == <<"list", i>> \in missed' /\ <<"detail", i>> \in missed'

\* An event about i is on its way to the tab, or the tab has missed it.
Told(i, kind) ==
    Missed(i) \/ \E n \in DOMAIN inbox' \ DOMAIN inbox : IsEvent(inbox'[n], kind, i)

\* What may become of a request while calls and messages stay where they are.
RowMoves(i) ==
    \/ exchange'[i] = exchange[i] /\ log'[i] \in {log[i], None}
    \/ /\ exchange[i] = "new" /\ exchange'[i] = "announce"
       /\ log'[i] # None /\ log'[i].status = "Pending"
    \/ exchange[i] = "announce" /\ exchange'[i] = "running" /\ log'[i] = log[i] /\ Told(i, "started")
    \/ /\ exchange[i] = "running" /\ exchange'[i] = "announceEnd"
       /\ log[i] = None => log'[i] = None
    \/ exchange[i] = "announceEnd" /\ exchange'[i] = "over" /\ log'[i] = log[i] /\ Told(i, "completed")
    \/ exchange[i] = "running" /\ exchange'[i] = "over" /\ log'[i] = log[i]
    \/ /\ exchange[i] \in {"announce", "announceEnd"} /\ exchange'[i] = "over"
       /\ log'[i] = log[i] /\ Missed(i)

\* The events that come of it.
NewEvent(e) ==
    /\ EventTyped(e) /\ ~IsAnswer(e)
    /\ e.kind = "started" => exchange[e.id] = "announce" /\ exchange'[e.id] = "running"
    /\ e.kind = "chunk" => exchange[e.id] = "running" /\ exchange'[e.id] = "running"
    /\ e.kind = "completed" =>
         /\ exchange[e.id] = "announceEnd" /\ exchange'[e.id] = "over"
         /\ log'[e.id] = log[e.id] /\ (log[e.id] # None => e.status = log[e.id].status)

\* The exchanges go on, other clients delete, the hub connects.
ServerStep ==
    /\ UNCHANGED <<calls, faults>> /\ KeepsContent(page, page')
    /\ missed \subseteq missed'
    /\ \A i \in Ids : RowMoves(i)
    /\ \/ UNCHANGED inbox
       \/ \E n, e : Grown(inbox, inbox', n, e) /\ NewEvent(e)

\* The server answers call k, or the call fails.
AnswerStep(k) ==
    /\ UNCHANGED <<page, faults, exchange>>
    /\ k \in DOMAIN calls /\ Shrunk(calls, calls', k)
    /\ InOrder => k = 1
    /\ \E n, a : /\ Grown(inbox, inbox', n, a)
                 /\ IsAnswer(a) /\ AnswerTyped(a) /\ a.call = calls[k]
                 /\ \/ /\ a.ok = (calls[k].op # "detail" \/ log[calls[k].id] # None)
                       /\ a.data = Reply(calls[k])
                       /\ log' = RowsAfter(calls[k])
                       /\ missed' = missed \ Covers(calls[k])
                    \/ /\ ~a.ok /\ a.data = None
                       /\ log' \in {log, RowsAfter(calls[k])}
                       /\ UNCHANGED missed

\* The user makes a call; opening a detail selects its request.
AskStep(c) ==
    /\ UNCHANGED <<inbox, faults, exchange, log, missed>>
    /\ CallTyped(c) /\ \E n : Grown(calls, calls', n, c)
    /\ \/ KeepsContent(page, page') /\ c.op # "detail"
       \/ /\ c.op = "detail" /\ c.id \in Listed(page)
          /\ page'.requests = page.requests
          /\ page'.selectedRequestId = c.id /\ page'.selectedRequest = None

\* Message k reaches the page; what is called then is a detail of the selection.
TakeStep(k) ==
    /\ UNCHANGED <<faults, exchange, log, missed>>
    /\ k \in DOMAIN inbox /\ Shrunk(inbox, inbox', k)
    /\ InOrder => k = 1
    /\ Taken(inbox[k], page, page')
    /\ \/ UNCHANGED calls /\ ~IsEvent(inbox[k], "completed", page.selectedRequestId)
       \/ \E n, c : /\ Grown(calls, calls', n, c) /\ CallTyped(c)
                    /\ c.op = "detail" => c.id = page'.selectedRequestId
                    /\ IsEvent(inbox[k], "completed", page.selectedRequestId) => c.op = "detail"

\* Event k is lost.
LoseStep(k) ==
    /\ UNCHANGED <<calls, page, faults, exchange, log>>
    /\ k \in DOMAIN inbox /\ Shrunk(inbox, inbox', k) /\ ~IsAnswer(inbox[k])
    /\ missed' = missed \union (Views \X {inbox[k].id})

Step ==
    \/ ServerStep
    \/ \E k : AnswerStep(k)
    \/ \E c : AskStep(c)
    \/ \E k : TakeStep(k)
    \/ \E k : LoseStep(k)

LEMMA BroadcastStep ==
    ASSUME TypeInv, NEW i \in Ids, NEW kind, NEW status, NEW chunk,
           Broadcast(i, kind, status, chunk), NewEvent(Event(kind, i, status, chunk))
    PROVE  /\ missed \subseteq missed'
           /\ Told(i, kind)
           /\ \/ UNCHANGED inbox
              \/ \E n, e : Grown(inbox, inbox', n, e) /\ NewEvent(e)
  <1> DEFINE e == Event(kind, i, status, chunk)
  <1>1. CASE connectionState = "connected"
    <2>1. inbox' = Append(inbox, e) /\ UNCHANGED missed
      BY <1>1 DEF Broadcast
    <2>2. IsEvent(e, kind, i) /\ NewEvent(e)
      BY DEF IsEvent, Event
    <2> HIDE DEF e
    <2>3. PICK n : Grown(inbox, inbox', n, e)
      BY <2>1, AppendGrows DEF TypeInv, DashboardInv, NetInv, InboxOK
    <2>4. n \in DOMAIN inbox' \ DOMAIN inbox /\ inbox'[n] = e
      BY <2>3 DEF Grown
    <2> QED
      BY <2>1, <2>2, <2>3, <2>4 DEF Told
  <1>2. CASE connectionState # "connected"
    <2>1. missed' = missed \union (Views \X {i}) /\ UNCHANGED inbox
      BY <1>2 DEF Broadcast
    <2> QED
      BY <2>1 DEF Told, Missed, Views
  <1> QED
    BY <1>1, <1>2

LEMMA SamePlace ==
    ASSUME UNCHANGED <<log, exchange>>
    PROVE  \A i \in Ids : RowMoves(i)
  BY DEF RowMoves

LEMMA SameContent == \A p : KeepsContent(p, p)
  BY DEF KeepsContent

\* A step of one exchange leaves the rows of the others alone.
LEMMA OneRow ==
    ASSUME NEW i \in Ids, RowMoves(i),
           \A j \in Ids : j # i => exchange'[j] = exchange[j] /\ log'[j] = log[j]
    PROVE  \A j \in Ids : RowMoves(j)
  <1>1. ASSUME NEW j \in Ids, j # i PROVE RowMoves(j)
    BY <1>1 DEF RowMoves
  <1> QED
    BY <1>1

LEMMA ExchangeStep ==
    ASSUME TypeInv, NEW i \in Ids, Exchange(i)
    PROVE  ServerStep
  <1>0. /\ exchange \in [Ids -> Stages] /\ log \in [Ids -> Detail \union {None}]
        /\ sent \in [Ids -> 0..MaxChunks]
    BY DEF TypeInv, ServerTyped
  <1>1. CASE Add(i)
    <2>1. /\ exchange' = [exchange EXCEPT ![i] = "announce"] /\ exchange[i] = "new"
          /\ log' = [log EXCEPT ![i] = [id |-> i, status |-> "Pending", body |-> <<>>]]
          /\ UNCHANGED <<calls, inbox, page, missed, faults>>
      BY <1>1 DEF Add, Advance, net
    <2>2. [id |-> i, status |-> "Pending", body |-> <<>>] \in Detail
      BY DEF Detail, Statuses
    <2>3. RowMoves(i)
      BY <1>0, <2>1, <2>2, DashboardAssumption DEF RowMoves
    <2>4. \A j \in Ids : RowMoves(j)
      BY <1>0, <2>1, <2>3, OneRow
    <2> QED
      BY <2>1, <2>4, SameContent DEF ServerStep
  <1>2. CASE AnnounceStart(i)
    <2>1. /\ exchange' = [exchange EXCEPT ![i] = "running"] /\ exchange[i] = "announce"
          /\ Broadcast(i, "started", "Pending", 0)
          /\ UNCHANGED <<calls, page, log, faults>>
      BY <1>2 DEF AnnounceStart, Advance
    <2>2. NewEvent(Event("started", i, "Pending", 0))
      BY <1>0, <2>1 DEF NewEvent, Event, EventTyped, IsAnswer
    <2>3. /\ missed \subseteq missed' /\ Told(i, "started")
          /\ UNCHANGED inbox \/ \E n, e : Grown(inbox, inbox', n, e) /\ NewEvent(e)
      BY <2>1, <2>2, BroadcastStep
    <2>4. RowMoves(i)
      BY <1>0, <2>1, <2>3 DEF RowMoves
    <2>5. \A j \in Ids : RowMoves(j)
      BY <1>0, <2>1, <2>4, OneRow
    <2> QED
      BY <2>1, <2>3, <2>5, SameContent DEF ServerStep
  <1>3. CASE SendChunk(i)
    <2>1. /\ exchange[i] = "running" /\ sent[i] < MaxChunks
          /\ Broadcast(i, "chunk", "Pending", sent[i] + 1)
          /\ UNCHANGED <<calls, page, log, exchange, faults>>
      BY <1>3 DEF SendChunk
    <2>2. NewEvent(Event("chunk", i, "Pending", sent[i] + 1))
      <3>1. sent[i] + 1 \in 1..MaxChunks
        BY <1>0, <2>1, DashboardAssumption
      <3> QED
        BY <2>1, <3>1 DEF NewEvent, Event, EventTyped, IsAnswer
    <2>3. /\ missed \subseteq missed'
          /\ UNCHANGED inbox \/ \E n, e : Grown(inbox, inbox', n, e) /\ NewEvent(e)
      BY <2>1, <2>2, BroadcastStep
    <2> QED
      BY <2>1, <2>3, SameContent, SamePlace DEF ServerStep
  <1>4. ASSUME NEW status \in {"Completed", "Failed"}, Finish(i, status)
        PROVE  ServerStep
    <2>1. /\ exchange' = [exchange EXCEPT ![i] = "announceEnd"] /\ exchange[i] = "running"
          /\ \A j \in Ids : j # i => log'[j] = log[j]
          /\ log[i] = None => log'[i] = None
          /\ UNCHANGED <<calls, inbox, page, missed, faults>>
      BY <1>0, <1>4 DEF Finish, Advance, net
    <2>2. RowMoves(i)
      BY <1>0, <2>1 DEF RowMoves
    <2>3. \A j \in Ids : RowMoves(j)
      BY <1>0, <2>1, <2>2, OneRow
    <2> QED
      BY <2>1, <2>3, SameContent DEF ServerStep
  <1>5. ASSUME NEW status \in {"Completed", "Failed"}, AnnounceEnd(i, status)
        PROVE  ServerStep
    <2>1. /\ exchange' = [exchange EXCEPT ![i] = "over"] /\ exchange[i] = "announceEnd"
          /\ log[i] # None => log[i].status = status
          /\ Broadcast(i, "completed", status, 0)
          /\ UNCHANGED <<calls, page, log, faults>>
      BY <1>5 DEF AnnounceEnd, Advance
    <2>2. NewEvent(Event("completed", i, status, 0))
      BY <1>0, <2>1 DEF NewEvent, Event, EventTyped, IsAnswer, Statuses
    <2>3. /\ missed \subseteq missed' /\ Told(i, "completed")
          /\ UNCHANGED inbox \/ \E n, e : Grown(inbox, inbox', n, e) /\ NewEvent(e)
      BY <2>1, <2>2, BroadcastStep
    <2>4. RowMoves(i)
      BY <1>0, <2>1, <2>3 DEF RowMoves
    <2>5. \A j \in Ids : RowMoves(j)
      BY <1>0, <2>1, <2>4, OneRow
    <2> QED
      BY <2>1, <2>3, <2>5, SameContent DEF ServerStep
  <1>6. CASE Die(i)
    <2>1. /\ exchange' = [exchange EXCEPT ![i] = "over"]
          /\ exchange[i] \in {"announce", "running", "announceEnd"}
          /\ missed' = IF exchange[i] = "running" THEN missed ELSE missed \union (Views \X {i})
          /\ UNCHANGED <<calls, inbox, page, log, faults>>
      BY <1>6 DEF Die, net
    <2>2. missed \subseteq missed' /\ (exchange[i] # "running" => Missed(i))
      BY <2>1 DEF Missed, Views
    <2>3. RowMoves(i)
      BY <1>0, <2>1, <2>2 DEF RowMoves
    <2>4. \A j \in Ids : RowMoves(j)
      BY <1>0, <2>1, <2>3, OneRow
    <2> QED
      BY <2>1, <2>2, <2>4, SameContent DEF ServerStep
  <1> QED
    BY <1>1, <1>2, <1>3, <1>4, <1>5, <1>6 DEF Exchange

LEMMA ProcessStep ==
    ASSUME TypeInv, NEW k \in DOMAIN calls, Serve(k) \/ Fail(k)
    PROVE  AnswerStep(k)
  <1> DEFINE c == calls[k]
  <1>1. /\ CallTyped(c) /\ Shrunk(calls, RemoveAt(calls, k), k)
        /\ InOrder /\ (k = 1 \/ May("overtake")) => k = 1
        /\ LogOK /\ IsSeq(inbox)
    BY RemoveShrinks DEF TypeInv, NetTyped, DashboardInv, NetInv, CallsOK, InboxOK, InOrder
  <1>2. CASE Serve(k)
    <2> DEFINE ok == c.op # "detail" \/ log[c.id] # None
               a == Answer(c, ok, Reply(c))
    <2>1. /\ calls' = RemoveAt(calls, k) /\ inbox' = Append(inbox, a)
          /\ log' = RowsAfter(c) /\ missed' = missed \ Covers(c)
          /\ k = 1 \/ May("overtake")
          /\ UNCHANGED <<page, faults, exchange>>
      BY <1>2 DEF Serve
    <2>2. IsAnswer(a) /\ a.call = c /\ a.ok = ok /\ a.data = Reply(c)
      BY DEF Answer, IsAnswer
    <2>3. ok \in BOOLEAN
      OBVIOUS
    <2> HIDE DEF ok, a
    <2>4. AnswerTyped(a)
      <3>1. ASSUME IsList(a) PROVE ListOK(a.data)
        <4>1. a.data = RecentRows
          BY <2>2, <3>1 DEF IsList, Reply
        <4> QED
          BY <1>1, <4>1, RecentRowsList
      <3>2. ASSUME IsDetail(a)
            PROVE  a.data \in Detail \union {None} /\ (a.data # None => a.data.id = a.call.id)
        <4>1. a.data = log[c.id] /\ c.id \in Ids
          BY <1>1, <2>2, <3>2 DEF IsDetail, Reply, CallTyped
        <4> QED
          BY <1>1, <2>2, <4>1 DEF LogOK
      <3> QED
        BY <1>1, <2>2, <2>3, <3>1, <3>2 DEF AnswerTyped
    <2>5. PICK n : Grown(inbox, inbox', n, a)
      BY <1>1, <2>1, AppendGrows
    <2> QED
      BY <1>1, <2>1, <2>2, <2>4, <2>5 DEF AnswerStep, ok
  <1>3. CASE Fail(k)
    <2> DEFINE a == Answer(c, FALSE, None)
    <2>1. /\ calls' = RemoveAt(calls, k) /\ inbox' = Append(inbox, a)
          /\ log' \in {log, RowsAfter(c)}
          /\ k = 1 \/ May("overtake")
          /\ UNCHANGED <<page, faults, exchange, missed>>
      BY <1>3 DEF Fail
    <2>2. IsAnswer(a) /\ a.call = c /\ ~a.ok /\ a.ok \in BOOLEAN /\ a.data = None
      BY DEF Answer, IsAnswer
    <2> HIDE DEF a
    <2>3. AnswerTyped(a)
      BY <1>1, <2>2 DEF AnswerTyped, IsList, IsDetail
    <2>4. PICK n : Grown(inbox, inbox', n, a)
      BY <1>1, <2>1, AppendGrows
    <2> QED
      BY <1>1, <2>1, <2>2, <2>3, <2>4 DEF AnswerStep
  <1> QED
    BY <1>2, <1>3

LEMMA CallsGrow ==
    ASSUME TypeInv, NEW c, calls' = Append(calls, c)
    PROVE  \E n : Grown(calls, calls', n, c)
  BY AppendGrows DEF TypeInv, DashboardInv, NetInv, CallsOK

LEMMA UserStep ==
    ASSUME TypeInv, User
    PROVE  ServerStep \/ \E c : AskStep(c)
  <1>0. IsPage(page) /\ page.selectedRequestId \in Ids \union {None}
    BY DEF TypeInv, DashboardInv, PageOK, PageTyped
  <1>1. CASE ClickRefresh
    <2> DEFINE c == Call("list", None, "user")
    <2>1. CallTyped(c) /\ c.op # "detail"
      BY DEF CallTyped, Call, Calls, Ops
    <2>2. /\ calls' = Append(calls, c)
          /\ UNCHANGED <<inbox, page, faults, exchange, log, missed>>
      BY <1>1 DEF ClickRefresh, Fetch, server
    <2> HIDE DEF c
    <2> QED
      BY <2>1, <2>2, CallsGrow, SameContent DEF AskStep
  <1>2. CASE CloseDetail
    <2>1. /\ page' = SetOpen(page, FALSE)
          /\ UNCHANGED <<calls, inbox, faults, exchange, log, missed>>
      BY <1>2 DEF CloseDetail, net, server
    <2> QED
      BY <1>0, <2>1, KeptContent, SamePlace DEF ServerStep
  <1>3. CASE ClickDelete
    <2> DEFINE c == Call("delete", page.selectedRequestId, "user")
               r == [page EXCEPT !.isDeletingRequest = TRUE]
    <2>1. /\ calls' = Append(calls, c) /\ page' = RenderDetail(r)
          /\ page.selectedRequestId # None
          /\ UNCHANGED <<inbox, faults, exchange, log, missed>>
      BY <1>3 DEF ClickDelete, Fetch, server
    <2>2. CallTyped(c) /\ c.op # "detail"
      BY <1>0, <2>1 DEF CallTyped, Call, Calls, Ops
    <2>3. IsPage(r) /\ KeepsContent(page, r)
      BY <1>0 DEF IsPage, KeepsContent
    <2> HIDE DEF c, r
    <2>4. KeepsContent(page, page')
      BY <2>1, <2>3, KeptContent DEF KeepsContent
    <2> QED
      BY <2>1, <2>2, <2>4, CallsGrow DEF AskStep
  <1>4. CASE ClickTruncate
    <2> DEFINE c == Call("truncate", None, "user")
    <2>1. /\ calls' = Append(calls, c)
          /\ page' = [page EXCEPT !.isTruncatingRequests = TRUE]
          /\ UNCHANGED <<inbox, faults, exchange, log, missed>>
      BY <1>4 DEF ClickTruncate, Fetch, server
    <2>2. CallTyped(c) /\ c.op # "detail"
      BY DEF CallTyped, Call, Calls, Ops
    <2>3. KeepsContent(page, page')
      BY <1>0, <2>1 DEF IsPage, KeepsContent
    <2> HIDE DEF c
    <2> QED
      BY <2>1, <2>2, <2>3, CallsGrow DEF AskStep
  <1>5. ASSUME NEW i \in Ids, ClickRequest(i)
        PROVE  \E c : AskStep(c)
    <2> DEFINE c == Call("detail", i, "user")
               r == [page EXCEPT !.selectedRequestId = i]
               s == [SetOpen(r, TRUE) EXCEPT !.selectedRequest = None]
    <2>1. /\ calls' = Append(calls, c) /\ page' = BeginDetail(s) /\ i \in Listed(page)
          /\ UNCHANGED <<inbox, faults, exchange, log, missed>>
      BY <1>5 DEF ClickRequest, OpenDetail, Fetch, server
    <2>2. CallTyped(c) /\ c.op = "detail" /\ c.id = i
      BY DEF CallTyped, Call, Calls, Ops
    <2>3. /\ IsPage(r) /\ r.requests = page.requests /\ r.selectedRequestId = i
      BY <1>0 DEF IsPage
    <2> HIDE DEF c, r
    <2>4. /\ IsPage(s) /\ s.requests = page.requests /\ s.selectedRequestId = i
          /\ s.selectedRequest = None
      BY <2>3 DEF SetOpen, IsPage
    <2> HIDE DEF s
    <2>5. KeepsContent(s, page')
      BY <2>1, <2>4, KeptContent
    <2>6. /\ page'.requests = page.requests
          /\ page'.selectedRequestId = i /\ page'.selectedRequest = None
      BY <2>4, <2>5 DEF KeepsContent
    <2> QED
      BY <2>1, <2>2, <2>6, CallsGrow DEF AskStep
  <1> QED
    BY <1>1, <1>2, <1>3, <1>4, <1>5 DEF User

\* What initialize calls after an answer.
LEMMA ContinueStep ==
    ASSUME TypeInv, NEW m, CallTyped(m.call), CallOK(m.call), NEW p, IsPage(p), PageTyped(p), Continue(m, p)
    PROVE  /\ KeepsContent(p, page')
           /\ \/ UNCHANGED calls
              \/ \E n, c : /\ Grown(calls, calls', n, c) /\ CallTyped(c)
                           /\ c.op = "detail" => c.id = p.selectedRequestId
  <1>1. CASE page' = p /\ UNCHANGED calls
    BY <1>1, SameContent
  <1>2. ASSUME NEW op \in {"list", "configs"}, BootCall(p, op, None)
        PROVE  /\ KeepsContent(p, page')
               /\ \E n, c : /\ Grown(calls, calls', n, c) /\ CallTyped(c)
                            /\ c.op = "detail" => c.id = p.selectedRequestId
    <2> DEFINE c == Call(op, None, "boot")
    <2>1. page' = p /\ calls' = Append(calls, c)
      BY <1>2 DEF BootCall
    <2>2. CallTyped(c) /\ c.op # "detail"
      BY DEF CallTyped, Call, Calls, Ops
    <2> HIDE DEF c
    <2> QED
      BY <2>1, <2>2, CallsGrow, SameContent
  <1>3. CASE BootDetail(p) /\ p.selectedRequestId # None
    <2> DEFINE c == Call("detail", p.selectedRequestId, "boot")
    <2>1. page' = BeginDetail(p) /\ calls' = Append(calls, c)
      BY <1>3 DEF BootDetail, BootCall
    <2>2. CallTyped(c) /\ c.id = p.selectedRequestId
      BY <1>3 DEF CallTyped, Call, Calls, Ops, PageTyped
    <2> HIDE DEF c
    <2> QED
      BY <2>1, <2>2, CallsGrow, KeptContent
  <1>4. CASE m.call.from = "user" \/ m.call.op = "detail" \/ ~m.ok
    BY <1>1, <1>4 DEF Continue, Wire
  <1>5. CASE m.call.from # "user" /\ m.ok /\ m.call.op \in {"config", "list"}
    BY <1>2, <1>5 DEF Continue
  <1>6. CASE m.call.from # "user" /\ m.ok /\ m.call.op = "configs"
    <2>1. BootDetail(p)
      BY <1>6 DEF Continue
    <2>2. p.selectedRequestId = None => page' = p /\ UNCHANGED calls
      BY <2>1 DEF BootDetail, Wire
    <2> QED
      BY <1>1, <1>3, <2>1, <2>2
  <1> QED
    BY <1>4, <1>5, <1>6 DEF CallTyped, Calls, Ops, CallOK

LEMMA ReceiveStep ==
    ASSUME TypeInv, NEW k \in DOMAIN inbox,
           ReceiveAnswer(k) \/ ReceiveStarted(k) \/ ReceiveChunk(k) \/ ReceiveCompleted(k)
    PROVE  TakeStep(k)
  <1> DEFINE m == inbox[k]
  <1>1. /\ MessageTyped(m) /\ IsPage(page) /\ PageTyped(page)
        /\ IsAnswer(m) => CallOK(m.call)
        /\ Shrunk(inbox, RemoveAt(inbox, k), k)
    BY RemoveShrinks DEF TypeInv, NetTyped, DashboardInv, PageOK, NetInv, InboxOK
  <1>3. ASSUME InOrder, Receivable(k)
        PROVE  k = 1
    BY <1>3 DEF Receivable, InOrder
  <1>4. CASE ReceiveAnswer(k)
    <2> DEFINE q == Answered(page, m)
    <2>1. /\ IsAnswer(m) /\ Continue(m, q) /\ inbox' = RemoveAt(inbox, k)
          /\ UNCHANGED <<faults, exchange, log, missed>>
          /\ InOrder => k = 1
      BY <1>3, <1>4 DEF ReceiveAnswer, server
    <2>2. AnswerTyped(m) /\ CallTyped(m.call) /\ CallOK(m.call)
      BY <1>1, <2>1 DEF MessageTyped, AnswerTyped
    <2>3. Taken(m, page, q)
      BY <1>1, <2>1, <2>2, AnsweredTaken
    <2>4. IsPage(q)
      BY AnsweredPage DEF TypeInv, DashboardInv, PageOK
    <2>5. PageTyped(q)
      BY <2>3 DEF Taken
    <2>6. ~IsEvent(m, "completed", page.selectedRequestId)
      BY <2>1 DEF IsAnswer, IsEvent
    <2> HIDE DEF q, m
    <2>7. /\ KeepsContent(q, page')
          /\ \/ UNCHANGED calls
             \/ \E n, c : /\ Grown(calls, calls', n, c) /\ CallTyped(c)
                          /\ c.op = "detail" => c.id = q.selectedRequestId
      BY <2>1, <2>2, <2>4, <2>5, ContinueStep
    <2>8. Taken(m, page, page') /\ page'.selectedRequestId = q.selectedRequestId
      BY <2>3, <2>7, TakenContent DEF KeepsContent
    <2> QED
      BY <1>1, <2>1, <2>6, <2>7, <2>8 DEF TakeStep, m
  <1>5. CASE ReceiveStarted(k)
    <2>1. /\ m.kind = "started" /\ page' = Started(page, m.id) /\ inbox' = RemoveAt(inbox, k)
          /\ UNCHANGED <<calls, faults, exchange, log, missed>>
          /\ InOrder => k = 1
      BY <1>3, <1>5 DEF ReceiveStarted, server
    <2>2. EventTyped(m) /\ ~IsEvent(m, "completed", page.selectedRequestId)
      BY <1>1, <2>1 DEF MessageTyped, IsAnswer, IsEvent
    <2>3. Taken(m, page, page')
      BY <1>1, <2>1, <2>2, StartedTaken
    <2> QED
      BY <1>1, <2>1, <2>2, <2>3 DEF TakeStep
  <1>6. CASE ReceiveChunk(k)
    <2>1. /\ m.kind = "chunk" /\ page' = Chunk(page, m.id, m.chunk) /\ inbox' = RemoveAt(inbox, k)
          /\ UNCHANGED <<calls, faults, exchange, log, missed>>
          /\ InOrder => k = 1
      BY <1>3, <1>6 DEF ReceiveChunk, server
    <2>2. EventTyped(m) /\ ~IsEvent(m, "completed", page.selectedRequestId)
      BY <1>1, <2>1 DEF MessageTyped, IsAnswer, IsEvent
    <2>3. Taken(m, page, page')
      BY <1>1, <2>1, <2>2, ChunkTaken
    <2> QED
      BY <1>1, <2>1, <2>2, <2>3 DEF TakeStep
  <1>7. CASE ReceiveCompleted(k)
    <2> DEFINE c == Call("detail", m.id, "user")
    <2>1. /\ m.kind = "completed" /\ page' = Completed(page, m.id, m.status)
          /\ calls' = IF m.id = page.selectedRequestId THEN Append(calls, c) ELSE calls
          /\ inbox' = RemoveAt(inbox, k)
          /\ UNCHANGED <<faults, exchange, log, missed>>
          /\ InOrder => k = 1
      BY <1>3, <1>7 DEF ReceiveCompleted, server
    <2>2. EventTyped(m) /\ ~IsAnswer(m)
      BY <1>1, <2>1 DEF MessageTyped, IsAnswer
    <2>3. Taken(m, page, page')
      BY <1>1, <2>1, <2>2, CompletedTaken
    <2>4. CallTyped(c) /\ c.op = "detail" /\ c.id = m.id
      BY <2>2 DEF CallTyped, Call, Calls, Ops, EventTyped
    <2>5. ~Removes(m, page.selectedRequestId) /\ (page.selectedRequestId = None => m.id # None)
      BY <2>2, DashboardAssumption DEF Removes, EventTyped
    <2>6. m.id = page.selectedRequestId => page'.selectedRequestId = m.id
      BY <2>3, <2>5 DEF Taken, SelectionTaken
    <2> HIDE DEF c
    <2>7. CASE m.id = page.selectedRequestId
      <3>1. PICK n : Grown(calls, calls', n, c)
        BY <2>1, <2>7, CallsGrow
      <3> QED
        BY <1>1, <2>1, <2>3, <2>4, <2>6, <2>7, <3>1 DEF TakeStep
    <2>8. CASE m.id # page.selectedRequestId
      <3>1. ~IsEvent(m, "completed", page.selectedRequestId) /\ UNCHANGED calls
        BY <2>1, <2>8 DEF IsEvent
      <3> QED
        BY <1>1, <2>1, <2>3, <3>1 DEF TakeStep
    <2> QED
      BY <2>7, <2>8
  <1> QED
    BY <1>4, <1>5, <1>6, <1>7

LEMMA StepKinds ==
    ASSUME TypeInv, [Next]_vars
    PROVE  Step
  <1>1. CASE UNCHANGED vars
    <2>1. UNCHANGED <<calls, inbox, page, faults, exchange, log, missed>>
      BY <1>1 DEF vars, net, server
    <2> QED
      BY <2>1, SameContent, SamePlace DEF Step, ServerStep
  <1>2. ASSUME NEW i \in Ids, Exchange(i)
        PROVE  Step
    BY <1>2, ExchangeStep DEF Step
  <1>3. ASSUME NEW i \in Ids, DeletedElsewhere(i)
        PROVE  Step
    <2>1. /\ log' = [log EXCEPT ![i] = None]
          /\ UNCHANGED <<calls, inbox, page, faults, exchange, missed>>
      BY <1>3 DEF DeletedElsewhere, net
    <2>2. \A j \in Ids : RowMoves(j)
      BY <2>1 DEF RowMoves, TypeInv, ServerTyped
    <2> QED
      BY <2>1, <2>2, SameContent DEF Step, ServerStep
  <1>4. CASE Process
    BY <1>4, ProcessStep DEF Step, Process
  <1>5. CASE Receive
    BY <1>5, ReceiveStep DEF Step, Receive
  <1>6. CASE User
    BY <1>6, UserStep DEF Step
  <1>7. CASE Connect \/ GiveUpConnecting \/ Disconnect
    <2>1. UNCHANGED <<calls, inbox, page, faults, exchange, log, missed>>
      BY <1>7 DEF Connect, GiveUpConnecting, Disconnect, net, server
    <2> QED
      BY <2>1, SameContent, SamePlace DEF Step, ServerStep
  <1>8. ASSUME NEW k \in DOMAIN inbox, Lose(k)
        PROVE  Step
    <2>1. Shrunk(inbox, RemoveAt(inbox, k), k)
      BY RemoveShrinks DEF TypeInv, DashboardInv, NetInv, InboxOK
    <2>2. LoseStep(k)
      BY <1>8, <2>1 DEF Lose, LoseStep, server
    <2> QED
      BY <2>2 DEF Step
  <1> QED
    BY <1>1, <1>2, <1>3, <1>4, <1>5, <1>6, <1>7, <1>8 DEF Next

-----------------------------------------------------------------------------
(* Types.                                                                  *)

RowsTyped ==
    /\ log \in [Ids -> Detail \union {None}]
    /\ exchange \in [Ids -> Stages]
    /\ sent \in [Ids -> 0..MaxChunks]
    /\ LogOK

RestTyped ==
    /\ faults \in FaultSets
    /\ boot \in BootSteps
    /\ connectionState \in {"connecting", "connected", "reconnecting", "failed"}
    /\ missed \subseteq Views \X Ids

LEMMA RowsAfterTyped ==
    ASSUME RowsTyped, NEW c, CallTyped(c), log' \in {log, RowsAfter(c)},
           UNCHANGED <<exchange, sent>>
    PROVE  RowsTyped'
  <1>1. CASE c.op = "delete"
    <2>1. RowsAfter(c) = [log EXCEPT ![c.id] = None]
      BY <1>1 DEF RowsAfter
    <2> QED
      BY <2>1 DEF RowsTyped, LogOK
  <1>2. CASE c.op = "truncate"
    <2>1. RowsAfter(c) = [i \in Ids |-> None]
      BY <1>2 DEF RowsAfter
    <2> QED
      BY <2>1 DEF RowsTyped, LogOK
  <1>3. CASE c.op \notin {"delete", "truncate"}
    <2>1. RowsAfter(c) = log
      BY <1>3 DEF RowsAfter
    <2> QED
      BY <2>1 DEF RowsTyped, LogOK
  <1> QED
    BY <1>1, <1>2, <1>3

LEMMA SameRows ==
    ASSUME RowsTyped, UNCHANGED <<log, exchange, sent>>
    PROVE  RowsTyped'
  BY DEF RowsTyped, LogOK

LEMMA AddTyped ==
    ASSUME RowsTyped, NEW i \in Ids, Add(i)
    PROVE  RowsTyped'
  <1> DEFINE d == [id |-> i, status |-> "Pending", body |-> <<>>]
  <1>1. d \in Detail /\ d.id = i /\ d.status = "Pending"
    BY DEF Detail, Statuses
  <1>2. /\ exchange' = [exchange EXCEPT ![i] = "announce"]
        /\ log' = [log EXCEPT ![i] = d] /\ UNCHANGED sent
    BY DEF Add, Advance
  <1> HIDE DEF d
  <1> QED
    BY <1>1, <1>2 DEF RowsTyped, LogOK, Stages

LEMMA FinishTyped ==
    ASSUME RowsTyped, NEW i \in Ids, NEW status \in {"Completed", "Failed"}, Finish(i, status)
    PROVE  RowsTyped'
  <1> DEFINE chunks == [k \in 1..sent[i] |-> k]
             body == IF status = "Completed" THEN chunks ELSE log[i].body
             row == [[log[i] EXCEPT !.status = status] EXCEPT !.body = body]
  <1>1. /\ exchange' = [exchange EXCEPT ![i] = "announceEnd"] /\ exchange[i] = "running"
        /\ log' = [log EXCEPT ![i] = IF log[i] = None THEN None ELSE row] /\ UNCHANGED sent
    BY DEF Finish, Advance
  <1>2. ASSUME log[i] # None
        PROVE  row \in Detail /\ row.id = i
    <2>1. log[i] \in Detail /\ log[i].id = i
      BY <1>2 DEF RowsTyped, LogOK
    <2>2. chunks \in Seq(1..MaxChunks)
      <3>1. sent[i] \in Nat /\ sent[i] <= MaxChunks /\ MaxChunks \in Nat
        BY DashboardAssumption DEF RowsTyped
      <3>2. chunks \in [1..sent[i] -> 1..MaxChunks]
        BY <3>1
      <3> HIDE DEF chunks
      <3> QED
        BY <3>1, <3>2, FunctionSeq
    <2>3. body \in Seq(1..MaxChunks)
      BY <2>1, <2>2 DEF Detail
    <2> HIDE DEF body, chunks
    <2> QED
      BY <2>1, <2>3 DEF Detail, Statuses
  <1> HIDE DEF row
  <1> QED
    BY <1>1, <1>2 DEF RowsTyped, LogOK, Stages

LEMMA RowsTypedStay ==
    ASSUME TypeInv, [Next]_vars
    PROVE  RowsTyped'
  <1>0. RowsTyped
    BY DEF TypeInv, ServerTyped, RowsTyped
  <1>1. CASE UNCHANGED vars
    BY <1>0, <1>1, SameRows DEF vars, server
  <1>2. ASSUME NEW i \in Ids, Exchange(i)
        PROVE  RowsTyped'
    <2>1. CASE Add(i)
      BY <1>0, <2>1, AddTyped
    <2>2. ASSUME NEW status \in {"Completed", "Failed"}, Finish(i, status)
          PROVE  RowsTyped'
      BY <1>0, <2>2, FinishTyped
    <2>3. ASSUME NEW to \in {"running", "over"}, exchange[i] # "new",
                 to = "running" => exchange[i] = "announce",
                 exchange' = [exchange EXCEPT ![i] = to], UNCHANGED <<log, sent>>
          PROVE  RowsTyped'
      BY <1>0, <2>3 DEF RowsTyped, LogOK, Stages
    <2>4. CASE AnnounceStart(i)
      BY <2>3, <2>4 DEF AnnounceStart, Advance
    <2>5. ASSUME NEW status \in {"Completed", "Failed"}, AnnounceEnd(i, status)
          PROVE  RowsTyped'
      BY <2>3, <2>5 DEF AnnounceEnd, Advance
    <2>6. CASE Die(i)
      BY <2>3, <2>6 DEF Die
    <2>7. CASE SendChunk(i)
      <3>1. /\ sent' = [sent EXCEPT ![i] = @ + 1] /\ sent[i] < MaxChunks
            /\ UNCHANGED <<log, exchange>>
        BY <2>7 DEF SendChunk
      <3>2. sent' \in [Ids -> 0..MaxChunks]
        BY <1>0, <3>1, DashboardAssumption DEF RowsTyped
      <3> QED
        BY <1>0, <3>1, <3>2 DEF RowsTyped, LogOK
    <2> QED
      BY <1>2, <2>1, <2>2, <2>4, <2>5, <2>6, <2>7 DEF Exchange
  <1>3. ASSUME NEW i \in Ids, DeletedElsewhere(i)
        PROVE  RowsTyped'
    BY <1>0, <1>3 DEF DeletedElsewhere, RowsTyped, LogOK
  <1>4. CASE Process
    <2>1. PICK k \in DOMAIN calls : Serve(k) \/ Fail(k)
      BY <1>4 DEF Process
    <2>2. CallTyped(calls[k])
      BY DEF TypeInv, NetTyped
    <2> QED
      BY <1>0, <2>1, <2>2, RowsAfterTyped DEF Serve, Fail
  <1>5. CASE Receive
    BY <1>0, <1>5, SameRows
       DEF Receive, ReceiveAnswer, ReceiveStarted, ReceiveChunk, ReceiveCompleted, server
  <1>6. CASE User
    BY <1>0, <1>6, SameRows
       DEF User, ClickRefresh, ClickRequest, CloseDetail, ClickDelete, ClickTruncate, server
  <1>7. CASE Connect \/ GiveUpConnecting \/ Disconnect
    BY <1>0, <1>7, SameRows DEF Connect, GiveUpConnecting, Disconnect, server
  <1>8. ASSUME NEW k \in DOMAIN inbox, Lose(k)
        PROVE  RowsTyped'
    BY <1>0, <1>8, SameRows DEF Lose, server
  <1> QED
    BY <1>1, <1>2, <1>3, <1>4, <1>5, <1>6, <1>7, <1>8 DEF Next

LEMMA RestTypedStays ==
    ASSUME TypeInv, [Next]_vars
    PROVE  RestTyped'
  <1>0. RestTyped
    BY DEF TypeInv, ServerTyped, RestTyped
  <1>1. CASE UNCHANGED vars
    BY <1>0, <1>1 DEF vars, RestTyped
  <1>2. ASSUME UNCHANGED <<faults, boot, connectionState>>,
               missed' \subseteq missed \union (Views \X Ids)
        PROVE  RestTyped'
    BY <1>0, <1>2 DEF RestTyped
  <1>3. ASSUME NEW i \in Ids, NEW kind, NEW status, NEW chunk,
               UNCHANGED <<faults, boot, connectionState>>, Broadcast(i, kind, status, chunk)
        PROVE  RestTyped'
    BY <1>2, <1>3 DEF Broadcast
  <1>4. ASSUME NEW i \in Ids, Exchange(i)
        PROVE  RestTyped'
    <2>1. CASE Add(i) \/ (\E status \in {"Completed", "Failed"} : Finish(i, status)) \/ Die(i)
      BY <1>2, <2>1 DEF Add, Finish, Die
    <2>2. CASE AnnounceStart(i)
      BY <1>3, <2>2 DEF AnnounceStart
    <2>3. CASE SendChunk(i)
      BY <1>3, <2>3 DEF SendChunk
    <2>4. ASSUME NEW status \in {"Completed", "Failed"}, AnnounceEnd(i, status)
          PROVE  RestTyped'
      BY <1>3, <2>4 DEF AnnounceEnd
    <2> QED
      BY <1>4, <2>1, <2>2, <2>3, <2>4 DEF Exchange
  <1>5. ASSUME NEW i \in Ids, DeletedElsewhere(i)
        PROVE  RestTyped'
    BY <1>2, <1>5 DEF DeletedElsewhere
  <1>6. CASE Process
    BY <1>2, <1>6 DEF Process, Serve, Fail
  <1>7. CASE User
    BY <1>2, <1>7
       DEF User, ClickRefresh, ClickRequest, CloseDetail, ClickDelete, ClickTruncate
  <1>8. ASSUME NEW k \in DOMAIN inbox, ReceiveStarted(k) \/ ReceiveChunk(k) \/ ReceiveCompleted(k)
        PROVE  RestTyped'
    BY <1>2, <1>8 DEF ReceiveStarted, ReceiveChunk, ReceiveCompleted
  <1>9. ASSUME NEW k \in DOMAIN inbox, ReceiveAnswer(k)
        PROVE  RestTyped'
    <2> DEFINE m == inbox[k]
               p == Answered(page, m)
    <2>1. /\ Continue(m, p) /\ UNCHANGED <<faults, connectionState, missed>>
          /\ CallTyped(m.call) /\ CallOK(m.call)
      BY <1>9 DEF ReceiveAnswer, TypeInv, NetTyped, MessageTyped, AnswerTyped,
                  DashboardInv, NetInv, InboxOK
    <2> HIDE DEF m, p
    <2>2. boot' \in BootSteps
      <3>1. CASE m.call.from = "user"
        BY <1>0, <2>1, <3>1 DEF Continue, RestTyped
      <3>2. CASE m.call.from # "user" /\ (m.call.op = "detail" \/ ~m.ok)
        BY <2>1, <3>2 DEF Continue, Wire, BootSteps
      <3>3. CASE m.call.from # "user" /\ m.ok /\ m.call.op \in {"config", "list"}
        BY <2>1, <3>3 DEF Continue, BootCall, BootSteps
      <3>4. CASE m.call.from # "user" /\ m.ok /\ m.call.op = "configs"
        BY <2>1, <3>4 DEF Continue, BootDetail, BootCall, Wire, BootSteps
      <3> QED
        BY <2>1, <3>1, <3>2, <3>3, <3>4 DEF CallTyped, Calls, Ops, CallOK
    <2> QED
      BY <1>0, <2>1, <2>2 DEF RestTyped
  <1>10. CASE Receive
    BY <1>8, <1>9, <1>10 DEF Receive
  <1>11. CASE Connect \/ GiveUpConnecting \/ Disconnect
    BY <1>0, <1>11 DEF Connect, GiveUpConnecting, Disconnect, RestTyped
  <1>12. ASSUME NEW k \in DOMAIN inbox, Lose(k)
         PROVE  RestTyped'
    <2>1. inbox[k].id \in Ids
      BY <1>12 DEF Lose, TypeInv, NetTyped, MessageTyped, EventTyped
    <2> QED
      BY <1>2, <1>12, <2>1 DEF Lose
  <1> QED
    BY <1>1, <1>4, <1>5, <1>6, <1>7, <1>10, <1>11, <1>12 DEF Next

LEMMA NetTypedStays ==
    ASSUME TypeInv, Step
    PROVE  NetTyped' /\ PageTyped(page')
  <1>0. /\ \A k \in DOMAIN calls : CallTyped(calls[k])
        /\ \A k \in DOMAIN inbox : MessageTyped(inbox[k])
        /\ PageTyped(page)
    BY DEF TypeInv, NetTyped
  <1>1. CASE ServerStep
    <2>1. NetTyped'
      <3>1. UNCHANGED calls
        BY <1>1 DEF ServerStep
      <3>2. CASE UNCHANGED inbox
        BY <1>0, <3>1, <3>2 DEF NetTyped
      <3>3. ASSUME NEW n, NEW e, Grown(inbox, inbox', n, e), NewEvent(e)
            PROVE  NetTyped'
        <4>1. MessageTyped(e)
          BY <3>3 DEF NewEvent, MessageTyped
        <4> QED
          BY <1>0, <3>1, <3>3, <4>1 DEF NetTyped, Grown
      <3> QED
        BY <1>1, <3>2, <3>3 DEF ServerStep
    <2>2. PageTyped(page')
      BY <1>0, <1>1 DEF ServerStep, KeepsContent, PageTyped
    <2> QED
      BY <2>1, <2>2
  <1>2. ASSUME NEW k, AnswerStep(k)
        PROVE  NetTyped' /\ PageTyped(page')
    <2>1. /\ UNCHANGED page /\ Shrunk(calls, calls', k)
          /\ \E n, a : Grown(inbox, inbox', n, a) /\ IsAnswer(a) /\ AnswerTyped(a)
      BY <1>2 DEF AnswerStep
    <2>2. PICK n, a : Grown(inbox, inbox', n, a) /\ MessageTyped(a)
      BY <2>1 DEF MessageTyped
    <2> QED
      BY <1>0, <2>1, <2>2 DEF NetTyped, Grown, Shrunk
  <1>3. ASSUME NEW c, AskStep(c)
        PROVE  NetTyped' /\ PageTyped(page')
    <2>1. PICK n : Grown(calls, calls', n, c) /\ CallTyped(c) /\ UNCHANGED inbox
      BY <1>3 DEF AskStep
    <2>2. NetTyped'
      BY <1>0, <2>1 DEF NetTyped, Grown
    <2>3. c.op = "detail" => c.id \in Ids
      BY <2>1 DEF CallTyped
    <2>4. PageTyped(page')
      BY <1>0, <1>3, <2>3 DEF AskStep, KeepsContent, PageTyped
    <2> QED
      BY <2>2, <2>4
  <1>4. ASSUME NEW k, TakeStep(k)
        PROVE  NetTyped' /\ PageTyped(page')
    <2>1. /\ Shrunk(inbox, inbox', k) /\ PageTyped(page')
          /\ UNCHANGED calls \/ \E n, c : Grown(calls, calls', n, c) /\ CallTyped(c)
      BY <1>4 DEF TakeStep, Taken
    <2>2. \A j \in DOMAIN inbox' : MessageTyped(inbox'[j])
      BY <1>0, <2>1 DEF Shrunk
    <2>3. \A j \in DOMAIN calls' : CallTyped(calls'[j])
      BY <1>0, <2>1 DEF Grown
    <2> QED
      BY <2>1, <2>2, <2>3 DEF NetTyped
  <1>5. ASSUME NEW k, LoseStep(k)
        PROVE  NetTyped' /\ PageTyped(page')
    BY <1>0, <1>5 DEF LoseStep, Shrunk, NetTyped
  <1> QED
    BY <1>1, <1>2, <1>3, <1>4, <1>5 DEF Step

LEMMA TypeInvStays ==
    ASSUME TypeInv, [Next]_vars
    PROVE  TypeInv'
  <1>1. DashboardInv'
    BY NextInv DEF TypeInv
  <1>2. RowsTyped' /\ RestTyped'
    BY RowsTypedStay, RestTypedStays
  <1>3. NetTyped' /\ PageTyped(page')
    BY StepKinds, NetTypedStays
  <1> QED
    BY <1>1, <1>2, <1>3 DEF TypeInv, ServerTyped, RowsTyped, RestTyped

LEMMA TypeInvInit ==
    ASSUME Init
    PROVE  TypeInv
  <1>1. DashboardInv
    BY InitInv
  <1>2. RowsTyped
    <2> DEFINE chunks == [k \in 1..MaxChunks |-> k]
               row(i) == [id |-> i, status |-> "Completed", body |-> chunks]
    <2>1. chunks \in Seq(1..MaxChunks)
      <3>1. MaxChunks \in Nat /\ chunks \in [1..MaxChunks -> 1..MaxChunks]
        BY DashboardAssumption
      <3> HIDE DEF chunks
      <3> QED
        BY <3>1, FunctionSeq
    <2> HIDE DEF chunks
    <2>2. \A i \in Ids : row(i) \in Detail /\ row(i).id = i
      BY <2>1 DEF Detail, Statuses
    <2>3. /\ log = [i \in Ids |-> IF i \in Past THEN row(i) ELSE None]
          /\ exchange = [i \in Ids |-> IF i \in Past THEN "over" ELSE "new"]
          /\ sent = [i \in Ids |-> 0]
      BY DEF Init, chunks
    <2> HIDE DEF row
    <2>4. LogOK
      BY <2>2, <2>3 DEF LogOK
    <2>5. sent \in [Ids -> 0..MaxChunks]
      BY <2>3, DashboardAssumption
    <2> QED
      BY <2>2, <2>3, <2>4, <2>5 DEF RowsTyped, Stages
  <1>3. RestTyped
    BY DashboardAssumption DEF Init, RestTyped, BootSteps
  <1>4. NetTyped
    <2>1. calls = <<Call("config", None, "boot")>> /\ inbox = <<>>
      BY DEF Init
    <2>2. CallTyped(Call("config", None, "boot"))
      BY DEF CallTyped, Call, Calls, Ops
    <2> QED
      BY <2>1, <2>2 DEF NetTyped
  <1>5. PageTyped(page)
    <2>1. page.requests = <<>> /\ page.selectedRequestId = None /\ page.selectedRequest = None
      BY DEF Init
    <2> QED
      BY <2>1, EmptyList DEF PageTyped
  <1> QED
    BY <1>1, <1>2, <1>3, <1>4, <1>5 DEF TypeInv, ServerTyped, RowsTyped, RestTyped

LEMMA TypeInvHolds == Spec => []TypeInv
  <1>1. Init => TypeInv
    BY TypeInvInit
  <1>2. TypeInv /\ [Next]_vars => TypeInv'
    BY TypeInvStays
  <1> QED
    BY <1>1, <1>2, PTL DEF Spec

\* Every handler leaves the page, the calls and the messages well-formed.
THEOREM TypesHold == Spec => []TypeOK
  <1>1. ASSUME TypeInv PROVE TypeOK
    <2>1. ServerTyped
      BY <1>1 DEF TypeInv
    <2>2. /\ \A k \in DOMAIN calls : calls[k] \in Calls
          /\ \A k \in DOMAIN inbox :
               IF IsAnswer(inbox[k]) THEN inbox[k].call \in Calls ELSE inbox[k].id \in Ids
      BY <1>1 DEF TypeInv, NetTyped, CallTyped, MessageTyped, AnswerTyped, EventTyped
    <2>3. /\ page.requests \in Seq(Summary)
          /\ page.selectedRequestId \in Ids \union {None}
          /\ page.selectedRequest \in Detail \union {None}
      BY <1>1 DEF TypeInv, PageTyped, ListOK
    <2>4. /\ page.isRequestDetailOpen \in BOOLEAN
          /\ page.isRequestDetailLoading \in BOOLEAN
          /\ page.isDeletingRequest \in BOOLEAN
          /\ page.isTruncatingRequests \in BOOLEAN
          /\ page.deleteEnabled \in BOOLEAN
      BY <1>1 DEF TypeInv, DashboardInv, PageOK, IsPage
    <2> QED
      BY <2>1, <2>2, <2>3, <2>4 DEF TypeOK, ServerTyped
  <1> QED
    BY <1>1, TypeInvHolds, PTL

\* However lists and started events are interleaved, and in whatever order they
\* come, no request is in the list twice.
THEOREM NoDoubles == Spec => []ListedOnce
  <1>1. ASSUME TypeInv PROVE ListedOnce
    <2>1. ListOK(page.requests)
      BY <1>1 DEF TypeInv, PageTyped
    <2>2. Listed(page) = IdsOf(page.requests)
      BY DEF Listed, IdsOf
    <2> QED
      BY <2>1, <2>2, ListShape DEF ListedOnce
  <1> QED
    BY <1>1, TypeInvHolds, PTL

-----------------------------------------------------------------------------
(* What every step does to rows and to what is known of them.              *)

\* Deleted: it had a row.
Gone(i) == log[i] = None /\ exchange[i] # "new"

OnPage(p, i) == i \in IdsOf(p.requests) \/ i = p.selectedRequestId

\* By the time message k is taken, the page may have i.
Seen(s, p, k, i) == OnPage(p, i) \/ \E j \in DOMAIN s : j < k /\ Shows(s[j], i)

\* What the server's answer says, and what becomes of the rows.
AnswerTells(k, n, a) ==
    /\ Grown(inbox, inbox', n, a) /\ IsAnswer(a) /\ AnswerTyped(a) /\ a.call = calls[k]
    /\ \A i \in Ids : log'[i] \in {log[i], None}
    /\ missed' \subseteq missed
    /\ IsList(a) => /\ log' = log
                    /\ \A m \in DOMAIN a.data :
                         /\ log[a.data[m].id] # None
                         /\ a.data[m].status = log[a.data[m].id].status
                    /\ LongList => \A i \in Ids : log[i] # None => i \in IdsOf(a.data)
    /\ \A i \in Ids : Removes(a, i) => log'[i] = None \/ ~LongList
    /\ IsDetail(a) => log' = log /\ a.data \in {None, log[a.call.id]}
    /\ \A i \in Ids : <<"list", i>> \in missed \ missed' => IsList(a)
    /\ \A i \in Ids : <<"detail", i>> \in missed \ missed' =>
         IsDetail(a) /\ a.call.id = i /\ a.data = log[i]

LEMMA AnswerFacts ==
    ASSUME TypeInv, NEW k, AnswerStep(k)
    PROVE  \E n, a : AnswerTells(k, n, a)
  <1> DEFINE c == calls[k]
  <1>0. /\ CallTyped(c) /\ LogOK /\ log \in [Ids -> Detail \union {None}]
    BY DEF AnswerStep, TypeInv, NetTyped, ServerTyped
  <1>1. PICK n, a :
          /\ Grown(inbox, inbox', n, a)
          /\ IsAnswer(a) /\ AnswerTyped(a) /\ a.call = c
          /\ \/ /\ a.ok = (c.op # "detail" \/ log[c.id] # None)
                /\ a.data = Reply(c)
                /\ log' = RowsAfter(c)
                /\ missed' = missed \ Covers(c)
             \/ /\ ~a.ok /\ a.data = None
                /\ log' \in {log, RowsAfter(c)}
                /\ UNCHANGED missed
    BY DEF AnswerStep
  <1> HIDE DEF c
  <1>2. /\ \A i \in Ids : RowsAfter(c)[i] \in {log[i], None}
        /\ c.op \in {"list", "detail"} => RowsAfter(c) = log
        /\ c.op = "delete" => RowsAfter(c)[c.id] = None
        /\ c.op = "truncate" => \A i \in Ids : RowsAfter(c)[i] = None
    <2>1. CASE c.op = "delete"
      <3>1. RowsAfter(c) = [log EXCEPT ![c.id] = None] /\ c.id \in Ids
        BY <1>0, <2>1 DEF RowsAfter, CallTyped
      <3> QED
        BY <1>0, <2>1, <3>1
    <2>2. CASE c.op = "truncate"
      BY <2>2 DEF RowsAfter
    <2>3. CASE c.op \notin {"delete", "truncate"}
      <3>1. RowsAfter(c) = log
        BY <2>3 DEF RowsAfter
      <3> QED
        BY <2>3, <3>1
    <2> QED
      BY <2>1, <2>2, <2>3
  <1>3. \A i \in Ids : log'[i] \in {log[i], None}
    BY <1>1, <1>2
  <1>4. ASSUME IsList(a)
        PROVE  /\ log' = log /\ c.op = "list"
               /\ \A m \in DOMAIN a.data :
                    /\ log[a.data[m].id] # None
                    /\ a.data[m].status = log[a.data[m].id].status
               /\ LongList => \A i \in Ids : log[i] # None => i \in IdsOf(a.data)
    <2>1. c.op = "list" /\ a.ok
      BY <1>1, <1>4 DEF IsList
    <2>2. a.data = RecentRows
      BY <1>1, <2>1 DEF Reply
    <2> QED
      BY <1>0, <1>1, <1>2, <2>1, <2>2, RecentRowsList
  <1>5. ASSUME NEW i \in Ids, Removes(a, i)
        PROVE  log'[i] = None \/ ~LongList
    <2>1. a.ok /\ log' = RowsAfter(c)
      BY <1>1, <1>5 DEF Removes
    <2>2. CASE c.op = "list"
      <3>1. IsList(a) /\ i \notin IdsOf(a.data)
        BY <1>1, <1>5, <2>1, <2>2 DEF IsList, Removes
      <3> QED
        BY <1>4, <3>1
    <2> QED
      BY <1>1, <1>2, <1>5, <2>1, <2>2 DEF Removes
  <1>6. ASSUME IsDetail(a)
        PROVE  log' = log /\ a.data \in {None, log[a.call.id]} /\ c.op = "detail"
    <2>1. c.op = "detail"
      BY <1>1, <1>6 DEF IsDetail
    <2> QED
      BY <1>1, <1>2, <2>1 DEF Reply
  <1>7. missed' \subseteq missed
    BY <1>1
  <1>8. ASSUME NEW i \in Ids, NEW v \in Views, <<v, i>> \in missed \ missed'
        PROVE  \/ v = "list" /\ IsList(a)
               \/ v = "detail" /\ IsDetail(a) /\ a.call.id = i /\ a.data = log[i]
    <2>1. /\ <<v, i>> \in Covers(c) /\ a.data = Reply(c)
          /\ a.ok = (c.op # "detail" \/ log[c.id] # None)
      BY <1>1, <1>8
    <2>2. CASE c.op = "list"
      BY <1>1, <2>1, <2>2 DEF Covers, IsList
    <2>3. CASE c.op = "detail"
      BY <1>1, <2>1, <2>3 DEF Covers, IsDetail, Reply
    <2> QED
      BY <2>1, <2>2, <2>3 DEF Covers
  <1> QED
    BY <1>1, <1>3, <1>4, <1>5, <1>6, <1>7, <1>8 DEF AnswerTells, c, Views

\* Steps but those of the server leave the rows alone, except for what goes.
LEMMA RowsGoOn ==
    ASSUME TypeInv, Step, NEW i \in Ids
    PROVE  /\ exchange[i] # "new" => exchange'[i] # "new"
           /\ Gone(i) => log'[i] = None /\ exchange'[i] # "new"
  <1>1. CASE ServerStep
    BY <1>1 DEF ServerStep, RowMoves, Gone
  <1>2. ASSUME NEW k, AnswerStep(k)
        PROVE  log'[i] \in {log[i], None} /\ UNCHANGED exchange
    BY <1>2, AnswerFacts DEF AnswerTells, AnswerStep
  <1>3. CASE (\E c : AskStep(c)) \/ (\E k : TakeStep(k)) \/ (\E k : LoseStep(k))
    BY <1>3 DEF AskStep, TakeStep, LoseStep, Gone
  <1> QED
    BY <1>1, <1>2, <1>3 DEF Step, Gone

LEMMA OrderStays ==
    ASSUME Step
    PROVE  InOrder' = InOrder
  BY DEF Step, ServerStep, AnswerStep, AskStep, TakeStep, LoseStep, InOrder, May

\* What a page and its messages tell of was announced.
KnownInv ==
    \A i \in Ids :
        OnPage(page, i) \/ (\E k \in DOMAIN inbox : Shows(inbox[k], i)) =>
            exchange[i] # "new"

\* What a message leaves on the page was there or came with the message.
LEMMA TakenOnPage ==
    ASSUME NEW m, NEW p, NEW q, Taken(m, p, q), NEW i \in Ids, OnPage(q, i)
    PROVE  OnPage(p, i) \/ Shows(m, i)
  <1>1. CASE i \in IdsOf(q.requests)
    BY <1>1 DEF Taken, ListTaken, OnPage
  <1>2. CASE i = q.selectedRequestId
    <2>1. i = p.selectedRequestId \/ i \in IdsOf(q.requests)
      BY <1>2, DashboardAssumption DEF Taken, SelectionTaken
    <2> QED
      BY <1>1, <2>1 DEF OnPage
  <1> QED
    BY <1>1, <1>2 DEF OnPage

\* Asking shows nothing new on the page.
LEMMA AskedOnPage ==
    ASSUME NEW c, AskStep(c), NEW i
    PROVE  OnPage(page', i) => OnPage(page, i)
  <1>1. IdsOf(page.requests) = Listed(page)
    BY DEF IdsOf, Listed
  <1> QED
    BY <1>1 DEF AskStep, KeepsContent, OnPage

LEMMA KnownStays ==
    ASSUME TypeInv, KnownInv, Step
    PROVE  KnownInv'
  <1> SUFFICES ASSUME NEW i \in Ids,
                      OnPage(page', i) \/ (\E k \in DOMAIN inbox' : Shows(inbox'[k], i))
               PROVE  exchange'[i] # "new"
    BY DEF KnownInv
  <1>0. OnPage(page, i) \/ (\E k \in DOMAIN inbox : Shows(inbox[k], i)) => exchange[i] # "new"
    BY DEF KnownInv
  <1>1. exchange[i] # "new" => exchange'[i] # "new"
    BY RowsGoOn
  <1>2. CASE ServerStep
    <2>1. OnPage(page', i) => OnPage(page, i)
      BY <1>2 DEF ServerStep, KeepsContent, OnPage
    <2>2. CASE UNCHANGED inbox
      BY <1>0, <1>1, <2>1, <2>2
    <2>3. ASSUME NEW n, NEW e, Grown(inbox, inbox', n, e), NewEvent(e)
          PROVE  exchange'[i] # "new"
      <3>1. Shows(e, i) => exchange'[i] # "new"
        BY <2>3 DEF NewEvent, Shows, IsEvent, IsList
      <3> QED
        BY <1>0, <1>1, <2>1, <2>3, <3>1 DEF Grown
    <2> QED
      BY <1>2, <2>2, <2>3 DEF ServerStep
  <1>3. ASSUME NEW k, AnswerStep(k)
        PROVE  exchange'[i] # "new"
    <2>1. PICK n, a : AnswerTells(k, n, a)
      BY <1>3, AnswerFacts
    <2>2. Shows(a, i) => exchange[i] # "new"
      <3>1. Shows(a, i) => IsList(a) /\ i \in IdsOf(a.data)
        BY <2>1 DEF AnswerTells, Shows, IsEvent, IsAnswer
      <3>2. IsList(a) /\ i \in IdsOf(a.data) => log[i] # None
        BY <2>1 DEF AnswerTells, IdsOf
      <3> QED
        BY <3>1, <3>2 DEF TypeInv, LogOK
    <2>3. UNCHANGED page /\ Grown(inbox, inbox', n, a)
      BY <1>3, <2>1 DEF AnswerStep, AnswerTells
    <2> QED
      BY <1>0, <1>1, <2>2, <2>3 DEF Grown
  <1>4. ASSUME NEW c, AskStep(c)
        PROVE  exchange'[i] # "new"
    <2>1. UNCHANGED inbox
      BY <1>4 DEF AskStep
    <2> QED
      BY <1>0, <1>1, <1>4, <2>1, AskedOnPage
  <1>5. ASSUME NEW k, TakeStep(k)
        PROVE  exchange'[i] # "new"
    <2>1. k \in DOMAIN inbox /\ Shrunk(inbox, inbox', k) /\ Taken(inbox[k], page, page')
      BY <1>5 DEF TakeStep
    <2> QED
      BY <1>0, <1>1, <2>1, TakenOnPage DEF Shrunk
  <1>6. ASSUME NEW k, LoseStep(k)
        PROVE  exchange'[i] # "new"
    <2>1. UNCHANGED page /\ Shrunk(inbox, inbox', k)
      BY <1>6 DEF LoseStep
    <2> QED
      BY <1>0, <1>1, <2>1 DEF Shrunk
  <1> QED
    BY <1>2, <1>3, <1>4, <1>5, <1>6 DEF Step

\* Of calls that keep their order, an answer without a request that is known to
\* the tab tells of a row that has gone, which no detail behind it brings back.
RemovalInv ==
    InOrder /\ LongList =>
        \A i \in Ids : \A k \in DOMAIN inbox :
            Seen(inbox, page, k, i) /\ Removes(inbox[k], i) =>
                /\ Gone(i)
                /\ \A j \in DOMAIN inbox :
                     j > k /\ IsDetail(inbox[j]) /\ inbox[j].call.id = i => inbox[j].data = None

LEMMA EventRemovesNothing ==
    ASSUME NEW m, ~IsAnswer(m)
    PROVE  ~IsDetail(m) /\ ~IsList(m) /\ \A i : ~Removes(m, i)
  BY DEF IsDetail, IsList, Removes

LEMMA RemovalStays ==
    ASSUME TypeInv, KnownInv, RemovalInv, Step
    PROVE  RemovalInv'
  <1> SUFFICES ASSUME InOrder, LongList, NEW i \in Ids, NEW l \in DOMAIN inbox',
                      Seen(inbox', page', l, i), Removes(inbox'[l], i)
               PROVE  /\ log'[i] = None /\ exchange'[i] # "new"
                      /\ \A j \in DOMAIN inbox' :
                           j > l /\ IsDetail(inbox'[j]) /\ inbox'[j].call.id = i =>
                               inbox'[j].data = None
    BY OrderStays DEF RemovalInv, Gone
  <1>0. \A k \in DOMAIN inbox : Seen(inbox, page, k, i) /\ Removes(inbox[k], i) =>
          /\ Gone(i)
          /\ \A j \in DOMAIN inbox :
               j > k /\ IsDetail(inbox[j]) /\ inbox[j].call.id = i => inbox[j].data = None
    BY DEF RemovalInv
  <1>1. Gone(i) => log'[i] = None /\ exchange'[i] # "new"
    BY RowsGoOn
  <1>2. CASE ServerStep
    <2>1. OnPage(page', i) => OnPage(page, i)
      BY <1>2 DEF ServerStep, KeepsContent, OnPage
    <2>2. CASE UNCHANGED inbox
      BY <1>0, <1>1, <2>1, <2>2 DEF Seen
    <2>3. ASSUME NEW n, NEW e, Grown(inbox, inbox', n, e), ~IsAnswer(e)
          PROVE  /\ Gone(i)
                 /\ \A j \in DOMAIN inbox' :
                      j > l /\ IsDetail(inbox'[j]) /\ inbox'[j].call.id = i =>
                          inbox'[j].data = None
      <3>1. ~IsDetail(e) /\ ~Removes(e, i)
        BY <2>3, EventRemovesNothing
      <3>2. l \in DOMAIN inbox /\ inbox'[l] = inbox[l] /\ l < n
        BY <2>3, <3>1 DEF Grown
      <3>3. Seen(inbox, page, l, i)
        BY <2>1, <2>3, <3>2 DEF Seen, Grown
      <3> QED
        BY <1>0, <2>3, <3>1, <3>2, <3>3 DEF Grown
    <2> QED
      BY <1>1, <1>2, <2>2, <2>3 DEF ServerStep, NewEvent
  <1>3. ASSUME NEW k, AnswerStep(k)
        PROVE  /\ log'[i] = None /\ exchange'[i] # "new"
               /\ \A j \in DOMAIN inbox' :
                    j > l /\ IsDetail(inbox'[j]) /\ inbox'[j].call.id = i =>
                        inbox'[j].data = None
    <2>1. PICK n, a : AnswerTells(k, n, a)
      BY <1>3, AnswerFacts
    <2>2. Grown(inbox, inbox', n, a) /\ UNCHANGED <<page, exchange>>
      BY <1>3, <2>1 DEF AnswerTells, AnswerStep
    <2>3. CASE l = n
      <3>1. \A j \in DOMAIN inbox' : ~(j > l)
        BY <2>2, <2>3 DEF Grown
      <3>2. Removes(a, i)
        BY <2>2, <2>3 DEF Grown
      <3>3. log'[i] = None
        BY <2>1, <3>2 DEF AnswerTells
      <3>4. OnPage(page, i) \/ \E j \in DOMAIN inbox : Shows(inbox[j], i)
        BY <2>2, <2>3 DEF Seen, Grown
      <3> QED
        BY <2>2, <3>1, <3>3, <3>4 DEF KnownInv
    <2>4. CASE l # n
      <3>1. l \in DOMAIN inbox /\ inbox'[l] = inbox[l] /\ l < n
        BY <2>2, <2>4 DEF Grown
      <3>2. Seen(inbox, page, l, i)
        BY <2>2, <3>1 DEF Seen, Grown
      <3>3. Gone(i)
        BY <1>0, <3>1, <3>2
      <3>4. IsDetail(a) /\ a.call.id = i => a.data = None
        BY <2>1, <3>3 DEF AnswerTells, Gone
      <3> QED
        BY <1>0, <1>1, <2>2, <3>1, <3>2, <3>4 DEF Grown
    <2> QED
      BY <2>3, <2>4
  <1>4. ASSUME NEW c, AskStep(c)
        PROVE  /\ Gone(i)
               /\ \A j \in DOMAIN inbox' :
                    j > l /\ IsDetail(inbox'[j]) /\ inbox'[j].call.id = i =>
                        inbox'[j].data = None
    <2>1. UNCHANGED inbox
      BY <1>4 DEF AskStep
    <2>2. Seen(inbox, page, l, i)
      BY <1>4, <2>1, AskedOnPage DEF Seen
    <2> QED
      BY <1>0, <2>1, <2>2
  <1>5. ASSUME NEW k, Shrunk(inbox, inbox', k),
               OnPage(page', i) => OnPage(page, i) \/ (k = 1 /\ k \in DOMAIN inbox /\ Shows(inbox[k], i))
        PROVE  /\ Gone(i)
               /\ \A j \in DOMAIN inbox' :
                    j > l /\ IsDetail(inbox'[j]) /\ inbox'[j].call.id = i =>
                        inbox'[j].data = None
    <2>1. /\ Skip(k, l) \in DOMAIN inbox /\ Skip(k, l) # k /\ inbox'[l] = inbox[Skip(k, l)]
          /\ k = 1 => k < Skip(k, l)
      BY <1>5 DEF Shrunk
    <2>2. Seen(inbox, page, Skip(k, l), i)
      <3>1. CASE OnPage(page', i)
        BY <1>5, <2>1, <3>1 DEF Seen
      <3>2. ASSUME NEW j \in DOMAIN inbox', j < l, Shows(inbox'[j], i)
            PROVE  Seen(inbox, page, Skip(k, l), i)
        BY <1>5, <3>2 DEF Seen, Shrunk
      <3> QED
        BY <3>1, <3>2 DEF Seen
    <2>3. /\ Gone(i)
          /\ \A j \in DOMAIN inbox :
               j > Skip(k, l) /\ IsDetail(inbox[j]) /\ inbox[j].call.id = i => inbox[j].data = None
      BY <1>0, <2>1, <2>2
    <2> QED
      BY <1>5, <2>3 DEF Shrunk
  <1>6. ASSUME NEW k, TakeStep(k)
        PROVE  /\ Shrunk(inbox, inbox', k)
               /\ OnPage(page', i) => OnPage(page, i) \/ (k = 1 /\ k \in DOMAIN inbox /\ Shows(inbox[k], i))
    <2>1. /\ k = 1 /\ k \in DOMAIN inbox /\ Shrunk(inbox, inbox', k)
          /\ Taken(inbox[k], page, page')
      BY <1>6 DEF TakeStep
    <2> QED
      BY <2>1, TakenOnPage
  <1>7. ASSUME NEW k, LoseStep(k)
        PROVE  Shrunk(inbox, inbox', k) /\ (OnPage(page', i) => OnPage(page, i))
    BY <1>7 DEF LoseStep
  <1> QED
    BY <1>1, <1>2, <1>3, <1>4, <1>5, <1>6, <1>7 DEF Step

-----------------------------------------------------------------------------
(* The detail that is shown, and the last one that is asked for.           *)

NoCall(s) == \A k \in DOMAIN s : s[k].op # "detail"
LastCall(s, k) ==
    k \in DOMAIN s /\ s[k].op = "detail" /\ \A j \in DOMAIN s : j > k => s[j].op # "detail"

NoAnswer(s) == \A k \in DOMAIN s : ~IsDetail(s[k])
LastAnswer(s, k) ==
    k \in DOMAIN s /\ IsDetail(s[k]) /\ \A j \in DOMAIN s : j > k => ~IsDetail(s[j])

LEMMA CallsGrown ==
    ASSUME NEW s, NEW t, NEW n, NEW c, Grown(s, t, n, c)
    PROVE  IF c.op = "detail"
             THEN ~NoCall(t) /\ \A k : LastCall(t, k) => t[k] = c
             ELSE /\ NoCall(t) <=> NoCall(s)
                  /\ \A k : LastCall(t, k) => LastCall(s, k) /\ t[k] = s[k]
  BY DEF Grown, NoCall, LastCall

LEMMA CallsShrunk ==
    ASSUME NEW s, NEW t, 1 \in DOMAIN s, Shrunk(s, t, 1)
    PROVE  /\ NoCall(s) => NoCall(t)
           /\ NoCall(t) => NoCall(s) \/ LastCall(s, 1)
           /\ \A k : LastCall(t, k) => \E l : LastCall(s, l) /\ t[k] = s[l]
  <1>1. ASSUME NEW k, LastCall(t, k)
        PROVE  LastCall(s, Skip(1, k)) /\ t[k] = s[Skip(1, k)]
    <2>1. k \in DOMAIN t /\ t[k].op = "detail" /\ \A j \in DOMAIN t : j > k => t[j].op # "detail"
      BY <1>1 DEF LastCall
    <2>2. Skip(1, k) \in DOMAIN s /\ t[k] = s[Skip(1, k)] /\ Skip(1, k) > 1
      BY <2>1 DEF Shrunk
    <2>3. ASSUME NEW j \in DOMAIN s, j > Skip(1, k)
          PROVE  s[j].op # "detail"
      <3>1. j # 1
        BY <2>2, <2>3 DEF Shrunk
      <3>2. PICK l \in DOMAIN t : Skip(1, l) = j
        BY <3>1 DEF Shrunk
      <3>3. l > k /\ t[l] = s[j]
        BY <2>1, <2>3, <3>2 DEF Shrunk
      <3> QED
        BY <2>1, <3>3
    <2> QED
      BY <2>1, <2>2, <2>3 DEF LastCall
  <1>2. NoCall(s) => NoCall(t)
    BY DEF NoCall, Shrunk
  <1>3. ASSUME NoCall(t)
        PROVE  \A j \in DOMAIN s : j > 1 => s[j].op # "detail"
    BY <1>3 DEF NoCall, Shrunk
  <1>4. \A j \in DOMAIN s : j = 1 \/ j > 1
    BY DEF Shrunk
  <1> QED
    BY <1>1, <1>2, <1>3, <1>4 DEF NoCall, LastCall

LEMMA AnswersGrown ==
    ASSUME NEW s, NEW t, NEW n, NEW a, Grown(s, t, n, a)
    PROVE  IF IsDetail(a)
             THEN ~NoAnswer(t) /\ \A k : LastAnswer(t, k) => k = n /\ t[k] = a
             ELSE /\ NoAnswer(t) <=> NoAnswer(s)
                  /\ \A k : LastAnswer(t, k) <=> LastAnswer(s, k)
                  /\ \A k : LastAnswer(s, k) => t[k] = s[k]
  <1> HIDE DEF IsDetail
  <1> QED
    BY DEF Grown, NoAnswer, LastAnswer

LEMMA AnswersShrunk ==
    ASSUME NEW s, NEW t, NEW k \in DOMAIN s, Shrunk(s, t, k), k = 1 \/ ~IsDetail(s[k])
    PROVE  /\ NoAnswer(s) => NoAnswer(t)
           /\ NoAnswer(t) => NoAnswer(s) \/ LastAnswer(s, k)
           /\ \A l : LastAnswer(t, l) => LastAnswer(s, Skip(k, l)) /\ t[l] = s[Skip(k, l)]
           /\ \A j : LastAnswer(s, j) /\ j # k =>
                \E l : LastAnswer(t, l) /\ Skip(k, l) = j /\ t[l] = s[j]
  <1> HIDE DEF IsDetail
  <1>1. ASSUME NEW l, LastAnswer(t, l)
        PROVE  LastAnswer(s, Skip(k, l)) /\ t[l] = s[Skip(k, l)]
    <2>1. l \in DOMAIN t /\ IsDetail(t[l]) /\ \A j \in DOMAIN t : j > l => ~IsDetail(t[j])
      BY <1>1 DEF LastAnswer
    <2>2. Skip(k, l) \in DOMAIN s /\ t[l] = s[Skip(k, l)] /\ Skip(k, l) # k
      BY <2>1 DEF Shrunk
    <2>3. ASSUME NEW j \in DOMAIN s, j > Skip(k, l)
          PROVE  ~IsDetail(s[j])
      <3>1. CASE j = k
        BY <2>2, <2>3, <3>1 DEF Shrunk
      <3>2. CASE j # k
        <4>1. PICK i \in DOMAIN t : Skip(k, i) = j
          BY <3>2 DEF Shrunk
        <4>2. i > l /\ t[i] = s[j]
          BY <2>1, <2>3, <4>1 DEF Shrunk
        <4> QED
          BY <2>1, <4>2
      <3> QED
        BY <3>1, <3>2
    <2> QED
      BY <2>1, <2>2, <2>3 DEF LastAnswer
  <1>2. NoAnswer(s) => NoAnswer(t)
    BY DEF NoAnswer, Shrunk
  <1>3. NoAnswer(t) => NoAnswer(s) \/ LastAnswer(s, k)
    BY DEF NoAnswer, LastAnswer, Shrunk
  <1>4. ASSUME NEW j, LastAnswer(s, j), j # k
        PROVE  \E l : LastAnswer(t, l) /\ Skip(k, l) = j /\ t[l] = s[j]
    <2>1. PICK l \in DOMAIN t : Skip(k, l) = j /\ t[l] = s[j]
      BY <1>4 DEF LastAnswer, Shrunk
    <2>2. ASSUME NEW i \in DOMAIN t, i > l
          PROVE  ~IsDetail(t[i])
      <3>1. Skip(k, i) > j /\ Skip(k, i) \in DOMAIN s /\ t[i] = s[Skip(k, i)]
        BY <2>1, <2>2 DEF Shrunk
      <3> QED
        BY <1>4, <3>1 DEF LastAnswer
    <2> QED
      BY <1>4, <2>1, <2>2 DEF LastAnswer
  <1> QED
    BY <1>1, <1>2, <1>3, <1>4

GoneThen(i) == log'[i] = None /\ exchange'[i] # "new"

\* The last detail on its way, or else the one that is shown, is of the selection,
\* or of a request that has gone.
DetailInv ==
    InOrder /\ LongList =>
        /\ \A k : LastCall(calls, k) =>
             calls[k].id = page.selectedRequestId \/ Gone(calls[k].id)
        /\ NoCall(calls) => \A k : LastAnswer(inbox, k) =>
             inbox[k].call.id = page.selectedRequestId \/ inbox[k].data = None
        /\ NoCall(calls) /\ NoAnswer(inbox) =>
             \/ page.selectedRequest = None
             \/ page.selectedRequest.id = page.selectedRequestId

LEMMA LastTyped ==
    ASSUME TypeInv
    PROVE  /\ \A k : LastCall(calls, k) => calls[k].id \in Ids
           /\ \A k : LastAnswer(inbox, k) =>
                /\ inbox[k].call.id \in Ids
                /\ inbox[k].data # None => inbox[k].data.id = inbox[k].call.id
  BY DEF TypeInv, NetTyped, CallTyped, MessageTyped, AnswerTyped, IsDetail, LastCall, LastAnswer

\* Where an answer moves the selection, nothing on its way or on the page is of a
\* request that is there.
LEMMA SelectionMoves ==
    ASSUME TypeInv, KnownInv, RemovalInv, DetailInv, InOrder, LongList, TakeStep(1),
           page'.selectedRequestId # page.selectedRequestId
    PROVE  /\ ~IsDetail(inbox[1])
           /\ \A k : LastCall(calls, k) => Gone(calls[k].id)
           /\ NoCall(calls) => \A k : LastAnswer(inbox, k) => inbox[k].data = None
           /\ NoCall(calls) /\ NoAnswer(inbox) => page'.selectedRequest = None
  <1> DEFINE m == inbox[1]
             i == page.selectedRequestId
  <1>1. /\ 1 \in DOMAIN inbox /\ DOMAIN inbox \subseteq Nat
        /\ \A j \in DOMAIN inbox : j # 1 => j > 1
        /\ ~IsDetail(m)
        /\ \/ i = None /\ page'.selectedRequest = page.selectedRequest
           \/ Removes(m, i) /\ page'.selectedRequest = None
    BY DEF TakeStep, Taken, SelectionTaken, Shrunk
  <1>2. /\ i \in Ids \union {None} /\ page.selectedRequest \in Detail \union {None}
        /\ None \notin Ids
    BY DashboardAssumption DEF TypeInv, PageTyped
  <1>3. /\ \A k : LastCall(calls, k) => calls[k].id \in Ids
        /\ \A k : LastAnswer(inbox, k) => inbox[k].call.id \in Ids
    BY LastTyped
  <1>4. /\ \A k : LastCall(calls, k) => calls[k].id = i \/ Gone(calls[k].id)
        /\ NoCall(calls) => \A k : LastAnswer(inbox, k) =>
             inbox[k].call.id = i \/ inbox[k].data = None
        /\ NoCall(calls) /\ NoAnswer(inbox) =>
             page.selectedRequest = None \/ page.selectedRequest.id = i
    BY DEF DetailInv
  <1>5. CASE i = None
    <2>1. page.selectedRequest # None => page.selectedRequest.id # i
      BY <1>2, <1>5 DEF Detail
    <2> QED
      BY <1>1, <1>2, <1>3, <1>4, <1>5, <2>1
  <1>6. CASE i # None
    <2>1. i \in Ids /\ Removes(m, i) /\ page'.selectedRequest = None
      BY <1>1, <1>2, <1>6
    <2>2. Seen(inbox, page, 1, i)
      BY DEF Seen, OnPage
    <2>3. /\ Gone(i)
          /\ \A j \in DOMAIN inbox :
               j > 1 /\ IsDetail(inbox[j]) /\ inbox[j].call.id = i => inbox[j].data = None
      BY <1>1, <2>1, <2>2 DEF RemovalInv
    <2>4. \A k : LastAnswer(inbox, k) => k > 1 /\ k \in DOMAIN inbox /\ IsDetail(inbox[k])
      BY <1>1 DEF LastAnswer
    <2> QED
      BY <1>1, <1>4, <2>1, <2>3, <2>4
  <1> QED
    BY <1>5, <1>6

LEMMA DetailStays ==
    ASSUME TypeInv, KnownInv, RemovalInv, DetailInv, Step
    PROVE  DetailInv'
  <1> DEFINE sel == page.selectedRequestId
             Calls1 == \A k : LastCall(calls', k) =>
                         calls'[k].id = page'.selectedRequestId \/ GoneThen(calls'[k].id)
             Answers1 == NoCall(calls') => \A k : LastAnswer(inbox', k) =>
                           inbox'[k].call.id = page'.selectedRequestId \/ inbox'[k].data = None
             Shown1 == NoCall(calls') /\ NoAnswer(inbox') =>
                         \/ page'.selectedRequest = None
                         \/ page'.selectedRequest.id = page'.selectedRequestId
  <1> SUFFICES ASSUME InOrder, LongList
               PROVE  Calls1 /\ Answers1 /\ Shown1
    BY OrderStays DEF DetailInv, Gone, GoneThen
  <1>0. /\ \A k : LastCall(calls, k) => calls[k].id = sel \/ Gone(calls[k].id)
        /\ NoCall(calls) => \A k : LastAnswer(inbox, k) =>
             inbox[k].call.id = sel \/ inbox[k].data = None
        /\ NoCall(calls) /\ NoAnswer(inbox) =>
             page.selectedRequest = None \/ page.selectedRequest.id = sel
    BY DEF DetailInv
  <1>1. \A i \in Ids : Gone(i) => GoneThen(i)
    BY RowsGoOn DEF GoneThen
  <1>2. /\ \A k : LastCall(calls, k) => calls[k].id \in Ids
        /\ \A k : LastAnswer(inbox, k) =>
             /\ inbox[k].call.id \in Ids
             /\ inbox[k].data # None => inbox[k].data.id = inbox[k].call.id
    BY LastTyped
  <1>3. CASE ServerStep
    <2>1. /\ UNCHANGED calls /\ page'.selectedRequestId = sel
          /\ page'.selectedRequest = page.selectedRequest
      BY <1>3 DEF ServerStep, KeepsContent
    <2>2. /\ NoAnswer(inbox') => NoAnswer(inbox)
          /\ \A k : LastAnswer(inbox', k) => LastAnswer(inbox, k) /\ inbox'[k] = inbox[k]
      <3>1. CASE UNCHANGED inbox
        BY <3>1
      <3>2. ASSUME NEW n, NEW e, Grown(inbox, inbox', n, e), NewEvent(e)
            PROVE  /\ NoAnswer(inbox') => NoAnswer(inbox)
                   /\ \A k : LastAnswer(inbox', k) => LastAnswer(inbox, k) /\ inbox'[k] = inbox[k]
        BY <3>2, AnswersGrown, EventRemovesNothing DEF NewEvent
      <3> QED
        BY <1>3, <3>1, <3>2 DEF ServerStep
    <2> QED
      BY <1>0, <1>1, <1>2, <2>1, <2>2
  <1>4. ASSUME NEW k, AnswerStep(k)
        PROVE  Calls1 /\ Answers1 /\ Shown1
    <2>1. PICK n, a : AnswerTells(k, n, a)
      BY <1>4, AnswerFacts
    <2>2. /\ k = 1 /\ k \in DOMAIN calls /\ Shrunk(calls, calls', k)
          /\ UNCHANGED page /\ Grown(inbox, inbox', n, a) /\ a.call = calls[k]
          /\ IsDetail(a) <=> calls[k].op = "detail"
      BY <1>4, <2>1 DEF AnswerStep, AnswerTells, IsDetail
    <2>3. /\ NoCall(calls) => NoCall(calls')
          /\ NoCall(calls') => NoCall(calls) \/ LastCall(calls, 1)
          /\ \A j : LastCall(calls', j) => \E l : LastCall(calls, l) /\ calls'[j] = calls[l]
      BY <2>2, CallsShrunk
    <2>4. Calls1
      BY <1>0, <1>1, <1>2, <2>2, <2>3
    <2>5. CASE IsDetail(a)
      <3>1. ~NoAnswer(inbox') /\ \A j : LastAnswer(inbox', j) => inbox'[j] = a
        BY <2>2, <2>5, AnswersGrown
      <3>2. NoCall(calls') => LastCall(calls, 1)
        BY <2>2, <2>3, <2>5 DEF NoCall
      <3>3. LastCall(calls, 1) => a.call.id = sel \/ Gone(a.call.id)
        BY <1>0, <2>2
      <3>4. Gone(a.call.id) => a.data = None
        BY <2>1, <2>5 DEF AnswerTells, Gone
      <3> QED
        BY <2>2, <2>4, <3>1, <3>2, <3>3, <3>4
    <2>6. CASE ~IsDetail(a)
      <3>1. /\ NoAnswer(inbox') => NoAnswer(inbox)
            /\ \A j : LastAnswer(inbox', j) => LastAnswer(inbox, j) /\ inbox'[j] = inbox[j]
        BY <2>2, <2>6, AnswersGrown
      <3>2. NoCall(calls') => NoCall(calls)
        BY <2>2, <2>3, <2>6 DEF LastCall
      <3> QED
        BY <1>0, <2>2, <2>4, <3>1, <3>2
    <2> QED
      BY <2>5, <2>6
  <1>5. ASSUME NEW c, AskStep(c)
        PROVE  Calls1 /\ Answers1 /\ Shown1
    <2>1. PICK n : Grown(calls, calls', n, c) /\ UNCHANGED <<inbox, log, exchange>>
      BY <1>5 DEF AskStep
    <2>2. CASE c.op = "detail"
      <3>1. c.id = page'.selectedRequestId
        BY <1>5, <2>2 DEF AskStep
      <3> QED
        BY <2>1, <2>2, <3>1, CallsGrown
    <2>3. CASE c.op # "detail"
      <3>1. page'.selectedRequestId = sel /\ page'.selectedRequest = page.selectedRequest
        BY <1>5, <2>3 DEF AskStep, KeepsContent
      <3>2. /\ NoCall(calls') <=> NoCall(calls)
            /\ \A j : LastCall(calls', j) => LastCall(calls, j) /\ calls'[j] = calls[j]
        BY <2>1, <2>3, CallsGrown
      <3> QED
        BY <1>0, <1>1, <1>2, <2>1, <3>1, <3>2
    <2> QED
      BY <2>2, <2>3
  <1>6. ASSUME NEW k, TakeStep(k)
        PROVE  Calls1 /\ Answers1 /\ Shown1
    <2>1. /\ k = 1 /\ 1 \in DOMAIN inbox /\ Shrunk(inbox, inbox', 1) /\ TakeStep(1)
          /\ Taken(inbox[1], page, page')
      BY <1>6 DEF TakeStep
    <2>2. /\ NoAnswer(inbox') => NoAnswer(inbox) \/ LastAnswer(inbox, 1)
          /\ \A j : LastAnswer(inbox', j) => \E l : LastAnswer(inbox, l) /\ inbox'[j] = inbox[l]
      BY <2>1, AnswersShrunk
    <2>3. \/ UNCHANGED calls
          \/ \E n, c : /\ Grown(calls, calls', n, c)
                       /\ c.op = "detail" => c.id = page'.selectedRequestId
      BY <2>1 DEF TakeStep
    <2>4. /\ NoCall(calls') => NoCall(calls)
          /\ \A j : LastCall(calls', j) =>
               \/ calls'[j].id = page'.selectedRequestId
               \/ LastCall(calls, j) /\ calls'[j] = calls[j]
      <3>1. CASE UNCHANGED calls
        BY <3>1
      <3>2. ASSUME NEW n, NEW c, Grown(calls, calls', n, c),
                   c.op = "detail" => c.id = page'.selectedRequestId
            PROVE  /\ NoCall(calls') => NoCall(calls)
                   /\ \A j : LastCall(calls', j) =>
                        \/ calls'[j].id = page'.selectedRequestId
                        \/ LastCall(calls, j) /\ calls'[j] = calls[j]
        BY <3>2, CallsGrown
      <3> QED
        BY <2>3, <3>1, <3>2
    <2>5. CASE page'.selectedRequestId = sel
      <3>1. Calls1
        BY <1>0, <1>1, <1>2, <2>4, <2>5
      <3>2. Answers1
        BY <1>0, <2>2, <2>4, <2>5
      <3>3. Shown1
        <4>1. CASE IsDetail(inbox[1])
          <5>1. page'.selectedRequest = inbox[1].data
            BY <2>1, <4>1 DEF Taken, DetailTaken
          <5>2. NoAnswer(inbox) => FALSE
            BY <2>1, <4>1 DEF NoAnswer
          <5> QED
            BY <1>0, <1>2, <2>2, <2>4, <2>5, <5>1, <5>2
        <4>2. CASE ~IsDetail(inbox[1])
          <5>1. \/ page'.selectedRequest \in {None, page.selectedRequest}
                \/ page.selectedRequest # None /\ page'.selectedRequest.id = page.selectedRequest.id
            BY <2>1, <4>2 DEF Taken, DetailTaken
          <5>2. ~LastAnswer(inbox, 1)
            BY <4>2 DEF LastAnswer
          <5> QED
            BY <1>0, <2>2, <2>4, <2>5, <5>1, <5>2
        <4> QED
          BY <4>1, <4>2
      <3> QED
        BY <3>1, <3>2, <3>3
    <2>6. CASE page'.selectedRequestId # sel
      <3>1. /\ ~IsDetail(inbox[1])
            /\ \A j : LastCall(calls, j) => Gone(calls[j].id)
            /\ NoCall(calls) => \A j : LastAnswer(inbox, j) => inbox[j].data = None
            /\ NoCall(calls) /\ NoAnswer(inbox) => page'.selectedRequest = None
        BY <2>1, <2>6, SelectionMoves
      <3>2. ~LastAnswer(inbox, 1)
        BY <3>1 DEF LastAnswer
      <3> QED
        BY <1>1, <1>2, <2>2, <2>4, <3>1, <3>2
    <2> QED
      BY <2>5, <2>6
  <1>7. ASSUME NEW k, LoseStep(k)
        PROVE  Calls1 /\ Answers1 /\ Shown1
    <2>1. /\ k \in DOMAIN inbox /\ Shrunk(inbox, inbox', k) /\ ~IsDetail(inbox[k])
          /\ UNCHANGED <<calls, page>>
      BY <1>7, EventRemovesNothing DEF LoseStep
    <2>2. /\ NoAnswer(inbox') => NoAnswer(inbox) \/ LastAnswer(inbox, k)
          /\ \A j : LastAnswer(inbox', j) => \E l : LastAnswer(inbox, l) /\ inbox'[j] = inbox[l]
      BY <2>1, AnswersShrunk
    <2>3. ~LastAnswer(inbox, k)
      BY <2>1 DEF LastAnswer
    <2> QED
      BY <1>0, <1>1, <1>2, <2>1, <2>2, <2>3
  <1> QED
    BY <1>3, <1>4, <1>5, <1>6, <1>7 DEF Step

HasEvent(s, kind, i) == \E k \in DOMAIN s : IsEvent(s[k], kind, i)

\* Given the messages s, the calls c and the shown detail d, the detail of i will be
\* fetched again, or comes to the row.
Fresh(s, c, d, row, i) ==
    \/ ~NoCall(c)
    \/ HasEvent(s, "completed", i)
    \/ /\ \A k : LastAnswer(s, k) =>
            \/ s[k].data = None
            \/ s[k].data = row /\ \A j \in DOMAIN s : j > k => ~IsEvent(s[j], "chunk", i)
       /\ NoAnswer(s) => d = None \/ (d = row /\ ~HasEvent(s, "chunk", i))

FreshInv ==
    InOrder /\ LongList =>
        \A i \in Ids :
            /\ i = page.selectedRequestId
            /\ log[i] # None /\ exchange[i] = "over" /\ log[i].status # "Pending"
            /\ <<"detail", i>> \notin missed
            => Fresh(inbox, calls, page.selectedRequest, log[i], i)

\* A message that is no chunk of i comes in behind the others.
LEMMA FreshGrown ==
    ASSUME NEW s, NEW t, NEW n, NEW e, Grown(s, t, n, e), ~IsDetail(e),
           NEW i, ~IsEvent(e, "chunk", i),
           NEW c, NEW c1, NoCall(c1) => NoCall(c), NEW d, NEW row, Fresh(s, c, d, row, i)
    PROVE  Fresh(t, c1, d, row, i)
  <1>1. /\ NoAnswer(t) <=> NoAnswer(s)
        /\ \A k : LastAnswer(t, k) <=> LastAnswer(s, k)
        /\ \A k : LastAnswer(s, k) => t[k] = s[k]
    BY AnswersGrown
  <1>2. \A kind : HasEvent(s, kind, i) => HasEvent(t, kind, i)
    BY DEF HasEvent, Grown
  <1>3. HasEvent(t, "chunk", i) => HasEvent(s, "chunk", i)
    BY DEF HasEvent, Grown
  <1>4. \A k : (\A j \in DOMAIN s : j > k => ~IsEvent(s[j], "chunk", i)) =>
               (\A j \in DOMAIN t : j > k => ~IsEvent(t[j], "chunk", i))
    BY DEF Grown
  <1> QED
    BY <1>1, <1>2, <1>3, <1>4 DEF Fresh

LEMMA EventsShrunk ==
    ASSUME NEW s, NEW t, NEW k \in DOMAIN s, Shrunk(s, t, k), NEW i, NEW kind
    PROVE  /\ HasEvent(t, kind, i) => HasEvent(s, kind, i)
           /\ HasEvent(s, kind, i) => HasEvent(t, kind, i) \/ IsEvent(s[k], kind, i)
           /\ \A l \in DOMAIN t :
                (\A j \in DOMAIN s : j > Skip(k, l) => ~IsEvent(s[j], kind, i)) =>
                (\A j \in DOMAIN t : j > l => ~IsEvent(t[j], kind, i))
  BY DEF HasEvent, Shrunk

LEMMA FreshStays ==
    ASSUME TypeInv, KnownInv, RemovalInv, DetailInv, FreshInv, Step
    PROVE  FreshInv'
  <1> SUFFICES ASSUME InOrder, LongList, NEW i \in Ids, i = page'.selectedRequestId,
                      log'[i] # None, exchange'[i] = "over", log'[i].status # "Pending",
                      <<"detail", i>> \notin missed'
               PROVE  Fresh(inbox', calls', page'.selectedRequest, log'[i], i)
    BY OrderStays DEF FreshInv
  <1> DEFINE d == page.selectedRequest
             d1 == page'.selectedRequest
  <1>0. ASSUME i = page.selectedRequestId, log[i] # None, exchange[i] = "over",
               log[i].status # "Pending", <<"detail", i>> \notin missed
        PROVE  Fresh(inbox, calls, d, log[i], i)
    BY <1>0 DEF FreshInv
  <1>1. CASE ServerStep
    <2>1. /\ UNCHANGED calls /\ page.selectedRequestId = i /\ d1 = d
          /\ missed \subseteq missed' /\ RowMoves(i)
      BY <1>1 DEF ServerStep, KeepsContent
    <2>2. CASE exchange[i] = "over" /\ log'[i] = log[i]
      <3>1. Fresh(inbox, calls, d, log[i], i)
        BY <1>0, <2>1, <2>2
      <3>2. CASE UNCHANGED inbox
        BY <2>1, <2>2, <3>1, <3>2
      <3>3. ASSUME NEW n, NEW e, Grown(inbox, inbox', n, e), NewEvent(e)
            PROVE  Fresh(inbox', calls', d1, log'[i], i)
        <4>1. ~IsDetail(e) /\ ~IsEvent(e, "chunk", i)
          BY <2>2, <3>3, EventRemovesNothing DEF NewEvent, IsEvent
        <4> QED
          BY <2>1, <2>2, <3>1, <3>3, <4>1, FreshGrown
      <3> QED
        BY <1>1, <3>2, <3>3 DEF ServerStep
    <2>3. CASE exchange[i] = "running"
      BY <2>1, <2>3 DEF RowMoves, TypeInv, LogOK
    <2>4. CASE Told(i, "completed")
      BY <2>4 DEF Told, Missed, Fresh, HasEvent
    <2> QED
      BY <2>1, <2>2, <2>3, <2>4 DEF RowMoves, Missed
  <1>2. ASSUME NEW k, AnswerStep(k)
        PROVE  Fresh(inbox', calls', d1, log'[i], i)
    <2>1. PICK n, a : AnswerTells(k, n, a)
      BY <1>2, AnswerFacts
    <2>2. /\ k = 1 /\ k \in DOMAIN calls /\ Shrunk(calls, calls', k)
          /\ UNCHANGED <<page, exchange>> /\ Grown(inbox, inbox', n, a)
          /\ IsAnswer(a) /\ a.call = calls[1] /\ log'[i] = log[i]
          /\ IsDetail(a) <=> calls[1].op = "detail"
          /\ IsDetail(a) => a.data \in {None, log[a.call.id]}
          /\ <<"detail", i>> \in missed => IsDetail(a) /\ a.call.id = i /\ a.data = log[i]
      BY <1>2, <2>1 DEF AnswerStep, AnswerTells, IsDetail
    <2>3. NoCall(calls') => NoCall(calls) \/ LastCall(calls, 1)
      BY <2>2, CallsShrunk
    <2>4. ASSUME IsDetail(a), a.data \in {None, log[i]}
          PROVE  Fresh(inbox', calls', d1, log'[i], i)
      <3>1. ~NoAnswer(inbox') /\ \A l : LastAnswer(inbox', l) => l = n /\ inbox'[l] = a
        BY <2>2, <2>4, AnswersGrown
      <3>2. \A j \in DOMAIN inbox' : ~(j > n)
        BY <2>2 DEF Grown
      <3> QED
        BY <2>2, <2>4, <3>1, <3>2 DEF Fresh
    <2>5. CASE <<"detail", i>> \in missed
      BY <2>2, <2>4, <2>5
    <2>6. CASE <<"detail", i>> \notin missed
      <3>1. Fresh(inbox, calls, d, log[i], i)
        BY <1>0, <2>2, <2>6
      <3>2. CASE IsDetail(a)
        <4>1. CASE NoCall(calls')
          <5>1. LastCall(calls, 1)
            BY <2>2, <2>3, <3>2, <4>1 DEF NoCall
          <5>2. a.call.id = i \/ Gone(a.call.id)
            BY <2>2, <5>1 DEF DetailInv
          <5> QED
            BY <2>2, <2>4, <3>2, <5>2 DEF Gone
        <4> QED
          BY <4>1 DEF Fresh
      <3>3. CASE ~IsDetail(a)
        <4>1. NoCall(calls') => NoCall(calls)
          BY <2>2, <2>3, <3>3 DEF LastCall
        <4>2. ~IsEvent(a, "chunk", i)
          BY <2>2 DEF IsAnswer, IsEvent
        <4> QED
          BY <2>2, <3>1, <3>3, <4>1, <4>2, FreshGrown
      <3> QED
        BY <3>2, <3>3
    <2> QED
      BY <2>5, <2>6
  <1>3. ASSUME NEW c, AskStep(c)
        PROVE  Fresh(inbox', calls', d1, log'[i], i)
    <2>1. PICK n : Grown(calls, calls', n, c) /\ UNCHANGED <<inbox, log, exchange, missed>>
      BY <1>3 DEF AskStep
    <2>2. CASE c.op = "detail"
      BY <2>1, <2>2, CallsGrown DEF Fresh
    <2>3. CASE c.op # "detail"
      <3>1. page.selectedRequestId = i /\ d1 = d
        BY <1>3, <2>3 DEF AskStep, KeepsContent
      <3>2. NoCall(calls') <=> NoCall(calls)
        BY <2>1, <2>3, CallsGrown
      <3> QED
        BY <1>0, <2>1, <3>1, <3>2 DEF Fresh
    <2> QED
      BY <2>2, <2>3
  <1>4. ASSUME NEW k, TakeStep(k)
        PROVE  Fresh(inbox', calls', d1, log'[i], i)
    <2>1. /\ k = 1 /\ 1 \in DOMAIN inbox /\ Shrunk(inbox, inbox', 1) /\ TakeStep(1)
          /\ Taken(inbox[1], page, page') /\ UNCHANGED <<log, exchange, missed>>
      BY <1>4 DEF TakeStep
    <2>2. /\ NoAnswer(inbox') => NoAnswer(inbox) \/ LastAnswer(inbox, 1)
          /\ \A l : LastAnswer(inbox', l) =>
               LastAnswer(inbox, Skip(1, l)) /\ inbox'[l] = inbox[Skip(1, l)]
      BY <2>1, AnswersShrunk
    <2>3. /\ NoCall(calls') => NoCall(calls)
          /\ IsEvent(inbox[1], "completed", page.selectedRequestId) => ~NoCall(calls')
      <3>1. CASE UNCHANGED calls /\ ~IsEvent(inbox[1], "completed", page.selectedRequestId)
        BY <3>1
      <3>2. ASSUME NEW n, NEW c, Grown(calls, calls', n, c),
                   IsEvent(inbox[1], "completed", page.selectedRequestId) => c.op = "detail"
            PROVE  /\ NoCall(calls') => NoCall(calls)
                   /\ IsEvent(inbox[1], "completed", page.selectedRequestId) => ~NoCall(calls')
        BY <3>2, CallsGrown
      <3> QED
        BY <2>1, <3>1, <3>2 DEF TakeStep
    <2>4. CASE page.selectedRequestId = i
      <3>1. Fresh(inbox, calls, d, log[i], i)
        BY <1>0, <2>1, <2>4
      <3>2. CASE ~NoCall(calls)
        BY <2>3, <3>2 DEF Fresh
      <3>3. CASE HasEvent(inbox, "completed", i)
        <4>1. HasEvent(inbox', "completed", i) \/ ~NoCall(calls')
          BY <2>1, <2>3, <2>4, <3>3, EventsShrunk
        <4> QED
          BY <4>1 DEF Fresh
      <3>4. ASSUME \A l : LastAnswer(inbox, l) =>
                       \/ inbox[l].data = None
                       \/ /\ inbox[l].data = log[i]
                          /\ \A j \in DOMAIN inbox : j > l => ~IsEvent(inbox[j], "chunk", i),
                   NoAnswer(inbox) => d = None \/ (d = log[i] /\ ~HasEvent(inbox, "chunk", i))
            PROVE  Fresh(inbox', calls', d1, log'[i], i)
        <4>1. ASSUME NEW l, LastAnswer(inbox', l)
              PROVE  \/ inbox'[l].data = None
                     \/ /\ inbox'[l].data = log[i]
                        /\ \A j \in DOMAIN inbox' : j > l => ~IsEvent(inbox'[j], "chunk", i)
          <5>1. l \in DOMAIN inbox' /\ LastAnswer(inbox, Skip(1, l)) /\ inbox'[l] = inbox[Skip(1, l)]
            BY <2>2, <4>1 DEF LastAnswer
          <5> QED
            BY <2>1, <3>4, <5>1, EventsShrunk
        <4>2. ASSUME NoAnswer(inbox')
              PROVE  d1 = None \/ (d1 = log[i] /\ ~HasEvent(inbox', "chunk", i))
          <5>1. CASE NoAnswer(inbox)
            <6>1. d = None \/ (d = log[i] /\ ~HasEvent(inbox, "chunk", i))
              BY <3>4, <5>1
            <6>2. ~IsDetail(inbox[1])
              BY <2>1, <5>1 DEF NoAnswer
            <6>3. \/ d1 \in {None, d}
                  \/ IsEvent(inbox[1], "chunk", i) /\ d # None
              BY <2>1, <2>4, <6>2 DEF Taken, DetailTaken
            <6>4. IsEvent(inbox[1], "chunk", i) => HasEvent(inbox, "chunk", i)
              BY <2>1 DEF HasEvent
            <6>5. HasEvent(inbox', "chunk", i) => HasEvent(inbox, "chunk", i)
              BY <2>1, EventsShrunk
            <6> QED
              BY <6>1, <6>3, <6>4, <6>5
          <5>2. CASE LastAnswer(inbox, 1)
            <6>1. d1 = inbox[1].data
              BY <2>1, <5>2 DEF LastAnswer, Taken, DetailTaken
            <6>2. ASSUME \A j \in DOMAIN inbox : j > 1 => ~IsEvent(inbox[j], "chunk", i)
                  PROVE  ~HasEvent(inbox', "chunk", i)
              BY <2>1, <6>2 DEF HasEvent, Shrunk
            <6> QED
              BY <3>4, <5>2, <6>1, <6>2
          <5> QED
            BY <2>2, <4>2, <5>1, <5>2
        <4> QED
          BY <2>1, <4>1, <4>2 DEF Fresh
      <3> QED
        BY <3>1, <3>2, <3>3, <3>4 DEF Fresh
    <2>5. CASE page.selectedRequestId # i
      <3>1. /\ ~IsDetail(inbox[1])
            /\ NoCall(calls) => \A l : LastAnswer(inbox, l) => inbox[l].data = None
            /\ NoCall(calls) /\ NoAnswer(inbox) => d1 = None
        BY <2>1, <2>5, SelectionMoves
      <3>2. ~LastAnswer(inbox, 1)
        BY <3>1 DEF LastAnswer
      <3> QED
        BY <2>2, <2>3, <3>1, <3>2 DEF Fresh
    <2> QED
      BY <2>4, <2>5
  <1>5. ASSUME NEW k, LoseStep(k)
        PROVE  Fresh(inbox', calls', d1, log'[i], i)
    <2>1. /\ k \in DOMAIN inbox /\ Shrunk(inbox, inbox', k) /\ ~IsDetail(inbox[k])
          /\ UNCHANGED <<calls, page, log, exchange>>
          /\ missed' = missed \union (Views \X {inbox[k].id})
      BY <1>5, EventRemovesNothing DEF LoseStep
    <2>2. inbox[k].id # i /\ <<"detail", i>> \notin missed
      BY <2>1 DEF Views
    <2>3. Fresh(inbox, calls, d, log[i], i)
      BY <1>0, <2>1, <2>2
    <2>4. /\ NoAnswer(inbox') => NoAnswer(inbox)
          /\ \A l : LastAnswer(inbox', l) =>
               /\ l \in DOMAIN inbox'
               /\ LastAnswer(inbox, Skip(k, l)) /\ inbox'[l] = inbox[Skip(k, l)]
      <3>1. ~LastAnswer(inbox, k)
        BY <2>1 DEF LastAnswer
      <3> QED
        BY <2>1, <3>1, AnswersShrunk DEF LastAnswer
    <2>5. \A kind : HasEvent(inbox', kind, i) <=> HasEvent(inbox, kind, i)
      <3>1. \A kind : ~IsEvent(inbox[k], kind, i)
        BY <2>2 DEF IsEvent
      <3> QED
        BY <2>1, <3>1, EventsShrunk
    <2>6. \A l \in DOMAIN inbox' :
            (\A j \in DOMAIN inbox : j > Skip(k, l) => ~IsEvent(inbox[j], "chunk", i)) =>
            (\A j \in DOMAIN inbox' : j > l => ~IsEvent(inbox'[j], "chunk", i))
      BY <2>1, EventsShrunk
    <2> QED
      BY <2>1, <2>3, <2>4, <2>5, <2>6 DEF Fresh
  <1> QED
    BY <1>1, <1>2, <1>3, <1>4, <1>5 DEF Step

-----------------------------------------------------------------------------
(* The list.                                                               *)

\* A request that the tab was told of is listed, or is about to be.
ListedInv ==
    InOrder /\ LongList /\ PageLimit >= Cardinality(Ids) =>
        \A i \in Ids :
            /\ log[i] # None /\ exchange[i] \notin {"new", "announce"}
            /\ <<"list", i>> \notin missed
            => i \in IdsOf(page.requests) \/ \E k \in DOMAIN inbox : Shows(inbox[k], i)

LEMMA ListedStays ==
    ASSUME TypeInv, RemovalInv, ListedInv, Step
    PROVE  ListedInv'
  <1> SUFFICES ASSUME InOrder, LongList, PageLimit >= Cardinality(Ids), NEW i \in Ids,
                      log'[i] # None, exchange'[i] \notin {"new", "announce"},
                      <<"list", i>> \notin missed'
               PROVE  i \in IdsOf(page'.requests) \/ \E k \in DOMAIN inbox' : Shows(inbox'[k], i)
    BY OrderStays DEF ListedInv
  <1>0. ASSUME log[i] # None, exchange[i] \notin {"new", "announce"}, <<"list", i>> \notin missed
        PROVE  i \in IdsOf(page.requests) \/ \E k \in DOMAIN inbox : Shows(inbox[k], i)
    BY <1>0 DEF ListedInv
  <1>1. CASE ServerStep
    <2>1. /\ page'.requests = page.requests /\ missed \subseteq missed' /\ RowMoves(i)
      BY <1>1 DEF ServerStep, KeepsContent
    <2>2. \A k \in DOMAIN inbox : k \in DOMAIN inbox' /\ inbox'[k] = inbox[k]
      BY <1>1 DEF ServerStep, Grown
    <2>3. CASE Told(i, "started")
      BY <2>3 DEF Told, Missed, Shows
    <2>4. CASE log[i] # None /\ exchange[i] \notin {"new", "announce"}
      BY <1>0, <2>1, <2>2, <2>4
    <2> QED
      BY <2>1, <2>3, <2>4 DEF RowMoves, Missed
  <1>2. ASSUME NEW k, AnswerStep(k)
        PROVE  i \in IdsOf(page'.requests) \/ \E l \in DOMAIN inbox' : Shows(inbox'[l], i)
    <2>1. PICK n, a : AnswerTells(k, n, a)
      BY <1>2, AnswerFacts
    <2>2. /\ UNCHANGED <<page, exchange>> /\ Grown(inbox, inbox', n, a) /\ log[i] # None
          /\ <<"list", i>> \in missed => IsList(a) /\ i \in IdsOf(a.data)
      BY <1>2, <2>1 DEF AnswerStep, AnswerTells
    <2> QED
      BY <1>0, <2>2 DEF Grown, Shows
  <1>3. ASSUME NEW c, AskStep(c)
        PROVE  i \in IdsOf(page'.requests) \/ \E l \in DOMAIN inbox' : Shows(inbox'[l], i)
    <2>1. UNCHANGED <<inbox, log, exchange, missed>> /\ page'.requests = page.requests
      BY <1>3 DEF AskStep, KeepsContent
    <2> QED
      BY <1>0, <2>1
  <1>4. ASSUME NEW k, TakeStep(k)
        PROVE  i \in IdsOf(page'.requests) \/ \E l \in DOMAIN inbox' : Shows(inbox'[l], i)
    <2>1. /\ k = 1 /\ 1 \in DOMAIN inbox /\ Shrunk(inbox, inbox', 1)
          /\ UNCHANGED <<log, exchange, missed>>
          /\ Taken(inbox[1], page, page')
      BY <1>4 DEF TakeStep
    <2>2. CASE i \in IdsOf(page.requests)
      <3>1. i \in IdsOf(page'.requests) \/ Removes(inbox[1], i)
        BY <2>1, <2>2 DEF Taken, ListTaken
      <3>2. Removes(inbox[1], i) => Gone(i)
        BY <2>1, <2>2 DEF RemovalInv, Seen, OnPage
      <3> QED
        BY <2>1, <3>1, <3>2 DEF Gone
    <2>3. ASSUME NEW l \in DOMAIN inbox, Shows(inbox[l], i)
          PROVE  i \in IdsOf(page'.requests) \/ \E j \in DOMAIN inbox' : Shows(inbox'[j], i)
      <3>1. CASE l = 1
        BY <2>1, <2>3, <3>1 DEF Taken, ListTaken
      <3>2. CASE l # 1
        BY <2>1, <2>3, <3>2 DEF Shrunk
      <3> QED
        BY <3>1, <3>2
    <2> QED
      BY <1>0, <2>1, <2>2, <2>3
  <1>5. ASSUME NEW k, LoseStep(k)
        PROVE  i \in IdsOf(page'.requests) \/ \E l \in DOMAIN inbox' : Shows(inbox'[l], i)
    <2>1. /\ k \in DOMAIN inbox /\ Shrunk(inbox, inbox', k) /\ ~IsAnswer(inbox[k])
          /\ UNCHANGED <<page, log, exchange>>
          /\ missed' = missed \union (Views \X {inbox[k].id})
      BY <1>5 DEF LoseStep
    <2>2. inbox[k].id # i /\ <<"list", i>> \notin missed
      BY <2>1 DEF Views
    <2>3. ~Shows(inbox[k], i)
      BY <2>1, <2>2 DEF Shows, IsEvent, IsList
    <2> QED
      BY <1>0, <2>1, <2>2, <2>3 DEF Shrunk
  <1> QED
    BY <1>1, <1>2, <1>3, <1>4, <1>5 DEF Step

\* No status is ahead of the row's, and completed events bring the row's.
Sound(list, i) ==
    \A n \in DOMAIN list : list[n].id = i => list[n].status \in {"Pending", log[i].status}

SoundInv ==
    \A i \in Ids :
        /\ \A k \in DOMAIN inbox : IsEvent(inbox[k], "completed", i) =>
             exchange[i] = "over" /\ (log[i] # None => inbox[k].status = log[i].status)
        /\ log[i] # None =>
             /\ Sound(page.requests, i)
             /\ \A k \in DOMAIN inbox : IsList(inbox[k]) => Sound(inbox[k].data, i)

SoundThen(list, i) ==
    \A n \in DOMAIN list : list[n].id = i => list[n].status \in {"Pending", log'[i].status}

LEMMA SoundStays ==
    ASSUME TypeInv, KnownInv, SoundInv, Step
    PROVE  SoundInv'
  <1> DEFINE Completions(i) ==
               \A k \in DOMAIN inbox' : IsEvent(inbox'[k], "completed", i) =>
                 exchange'[i] = "over" /\ (log'[i] # None => inbox'[k].status = log'[i].status)
             Lists(i) ==
               log'[i] # None =>
                 /\ SoundThen(page'.requests, i)
                 /\ \A k \in DOMAIN inbox' : IsList(inbox'[k]) => SoundThen(inbox'[k].data, i)
  <1> SUFFICES ASSUME NEW i \in Ids
               PROVE  Completions(i) /\ Lists(i)
    BY DEF SoundInv, Sound, SoundThen
  <1>0. /\ \A k \in DOMAIN inbox : IsEvent(inbox[k], "completed", i) =>
             exchange[i] = "over" /\ (log[i] # None => inbox[k].status = log[i].status)
        /\ log[i] # None =>
             /\ Sound(page.requests, i)
             /\ \A k \in DOMAIN inbox : IsList(inbox[k]) => Sound(inbox[k].data, i)
    BY DEF SoundInv
  <1>1. CASE ServerStep
    <2>1. page'.requests = page.requests /\ RowMoves(i)
      BY <1>1 DEF ServerStep, KeepsContent
    <2>2. \A k \in DOMAIN inbox' :
            \/ k \in DOMAIN inbox /\ inbox'[k] = inbox[k]
            \/ NewEvent(inbox'[k]) /\ ~IsList(inbox'[k])
      <3>1. \A e : NewEvent(e) => ~IsList(e)
        BY DEF NewEvent, IsList
      <3> QED
        BY <1>1, <3>1 DEF ServerStep, Grown
    <2>3. exchange[i] = "over" => exchange'[i] = "over" /\ log'[i] \in {log[i], None}
      BY <2>1 DEF RowMoves
    <2>4. Completions(i)
      <3> SUFFICES ASSUME NEW k \in DOMAIN inbox', IsEvent(inbox'[k], "completed", i)
                   PROVE  /\ exchange'[i] = "over"
                          /\ log'[i] # None => inbox'[k].status = log'[i].status
        OBVIOUS
      <3>1. CASE k \in DOMAIN inbox /\ inbox'[k] = inbox[k]
        BY <1>0, <2>3, <3>1
      <3>2. CASE NewEvent(inbox'[k])
        BY <3>2 DEF NewEvent, IsEvent
      <3> QED
        BY <2>2, <3>1, <3>2
    <2>5. ASSUME log'[i] # None, log[i] # None, log'[i] = log[i] \/ log[i].status = "Pending"
          PROVE  Lists(i)
      <3>1. \A list : Sound(list, i) => SoundThen(list, i)
        BY <2>5 DEF Sound, SoundThen
      <3> QED
        BY <1>0, <2>1, <2>2, <2>5, <3>1
    <2>6. ASSUME exchange[i] = "new"
          PROVE  Lists(i)
      <3>1. i \notin IdsOf(page.requests) /\ \A k \in DOMAIN inbox : ~Shows(inbox[k], i)
        BY <2>6 DEF KnownInv, OnPage
      <3>2. SoundThen(page.requests, i)
        BY <3>1 DEF SoundThen, IdsOf
      <3>3. \A k \in DOMAIN inbox : IsList(inbox[k]) => SoundThen(inbox[k].data, i)
        BY <3>1 DEF SoundThen, IdsOf, Shows
      <3> QED
        BY <2>1, <2>2, <3>2, <3>3
    <2>7. exchange[i] = "running" /\ log[i] # None => log[i].status = "Pending"
      BY DEF TypeInv, LogOK
    <2>8. Lists(i)
      <3>1. CASE log'[i] = None
        BY <3>1
      <3>2. CASE log'[i] # None /\ exchange[i] # "new"
        <4>1. log[i] # None /\ (log'[i] = log[i] \/ log[i].status = "Pending")
          BY <2>1, <2>7, <3>2 DEF RowMoves
        <4> QED
          BY <2>5, <3>2, <4>1
      <3> QED
        BY <2>6, <3>1, <3>2
    <2> QED
      BY <2>4, <2>8
  <1>2. ASSUME UNCHANGED exchange, log'[i] \in {log[i], None},
               \A k \in DOMAIN inbox' :
                 \/ \E l \in DOMAIN inbox : inbox'[k] = inbox[l]
                 \/ /\ ~IsEvent(inbox'[k], "completed", i)
                    /\ IsList(inbox'[k]) /\ log[i] # None => Sound(inbox'[k].data, i),
               log[i] # None => Sound(page'.requests, i)
        PROVE  Completions(i) /\ Lists(i)
    <2>1. \A list : log'[i] # None /\ Sound(list, i) => SoundThen(list, i)
      BY <1>2 DEF Sound, SoundThen
    <2> QED
      BY <1>0, <1>2, <2>1
  <1>3. ASSUME NEW k, AnswerStep(k)
        PROVE  Completions(i) /\ Lists(i)
    <2>1. PICK n, a : AnswerTells(k, n, a)
      BY <1>3, AnswerFacts
    <2>2. /\ UNCHANGED <<page, exchange>> /\ log'[i] \in {log[i], None}
          /\ Grown(inbox, inbox', n, a) /\ ~IsEvent(a, "completed", i)
      BY <1>3, <2>1 DEF AnswerStep, AnswerTells, IsAnswer, IsEvent
    <2>3. IsList(a) => Sound(a.data, i)
      BY <2>1 DEF AnswerTells, Sound
    <2>4. \A l \in DOMAIN inbox' : (l \in DOMAIN inbox /\ inbox'[l] = inbox[l]) \/ inbox'[l] = a
      BY <2>2 DEF Grown
    <2> QED
      BY <1>0, <1>2, <2>2, <2>3, <2>4
  <1>4. ASSUME NEW c, AskStep(c)
        PROVE  Completions(i) /\ Lists(i)
    <2>1. UNCHANGED <<inbox, log, exchange>> /\ page'.requests = page.requests
      BY <1>4 DEF AskStep, KeepsContent
    <2> QED
      BY <1>0, <1>2, <2>1
  <1>5. ASSUME NEW k, TakeStep(k)
        PROVE  Completions(i) /\ Lists(i)
    <2>1. /\ k \in DOMAIN inbox /\ Shrunk(inbox, inbox', k) /\ UNCHANGED <<log, exchange>>
          /\ Taken(inbox[k], page, page')
      BY <1>5 DEF TakeStep
    <2>2. \A l \in DOMAIN inbox' : \E j \in DOMAIN inbox : inbox'[l] = inbox[j]
      BY <2>1 DEF Shrunk
    <2>3. ASSUME log[i] # None
          PROVE  Sound(page'.requests, i)
      <3> SUFFICES ASSUME NEW n \in DOMAIN page'.requests, page'.requests[n].id = i
                   PROVE  page'.requests[n].status \in {"Pending", log[i].status}
        BY DEF Sound
      <3>1. \/ \E l \in DOMAIN page.requests : page'.requests[n] = page.requests[l]
            \/ IsList(inbox[k]) /\ \E l \in DOMAIN inbox[k].data : page'.requests[n] = inbox[k].data[l]
            \/ page'.requests[n].status = "Pending"
            \/ IsEvent(inbox[k], "completed", i) /\ page'.requests[n].status = inbox[k].status
        BY <2>1 DEF Taken, StatusTaken
      <3> QED
        BY <1>0, <2>1, <2>3, <3>1 DEF Sound
    <2> QED
      BY <1>2, <2>1, <2>2, <2>3
  <1>6. ASSUME NEW k, LoseStep(k)
        PROVE  Completions(i) /\ Lists(i)
    <2>1. Shrunk(inbox, inbox', k) /\ UNCHANGED <<page, log, exchange>>
      BY <1>6 DEF LoseStep
    <2>2. \A l \in DOMAIN inbox' : \E j \in DOMAIN inbox : inbox'[l] = inbox[j]
      BY <2>1 DEF Shrunk
    <2> QED
      BY <1>0, <1>2, <2>1, <2>2
  <1> QED
    BY <1>1, <1>3, <1>4, <1>5, <1>6 DEF Step

-----------------------------------------------------------------------------
(* The statuses of the list.                                               *)

\* m brings the status of i's row, or the row itself.
Mends(m, i) == IsEvent(m, "completed", i) \/ IsList(m)
Mended(s, i) == \E j \in DOMAIN s : Mends(s[j], i)
MendedAfter(s, k, i) == \E j \in DOMAIN s : j > k /\ Mends(s[j], i)

\* In the list and in the messages s, i has the status of its row or a message
\* behind mends it.
StatusTold(list, s, row, i) ==
    /\ \A n \in DOMAIN list : list[n].id = i => list[n].status = row.status \/ Mended(s, i)
    /\ \A k \in DOMAIN s :
         /\ IsEvent(s[k], "started", i) => row.status = "Pending" \/ MendedAfter(s, k, i)
         /\ IsList(s[k]) => \A n \in DOMAIN s[k].data : s[k].data[n].id = i =>
              s[k].data[n].status = row.status \/ MendedAfter(s, k, i)

StatusInv ==
    InOrder =>
        \A i \in Ids :
            log[i] # None /\ exchange[i] = "over" /\ <<"list", i>> \notin missed =>
                StatusTold(page.requests, inbox, log[i], i)

LEMMA StatusGrown ==
    ASSUME NEW s, NEW t, NEW n, NEW e, Grown(s, t, n, e), NEW list, NEW row, NEW i,
           ~IsEvent(e, "started", i),
           IsList(e) => \A l \in DOMAIN e.data : e.data[l].id = i => e.data[l].status = row.status,
           StatusTold(list, s, row, i) \/ Mends(e, i)
    PROVE  StatusTold(list, t, row, i)
  <1>1. Mended(s, i) \/ Mends(e, i) => Mended(t, i)
    BY DEF Mended, Grown
  <1>2. \A k \in DOMAIN s : MendedAfter(s, k, i) \/ Mends(e, i) => MendedAfter(t, k, i)
    BY DEF MendedAfter, Grown
  <1>3. \A k \in DOMAIN t : (k \in DOMAIN s /\ t[k] = s[k]) \/ t[k] = e
    BY DEF Grown
  <1> QED
    BY <1>1, <1>2, <1>3 DEF StatusTold

LEMMA MendedShrunk ==
    ASSUME NEW s, NEW t, NEW k \in DOMAIN s, Shrunk(s, t, k), NEW i
    PROVE  /\ Mended(s, i) => Mended(t, i) \/ Mends(s[k], i)
           /\ k = 1 /\ MendedAfter(s, k, i) => Mended(t, i)
           /\ \A l \in DOMAIN t : MendedAfter(s, Skip(k, l), i) =>
                MendedAfter(t, l, i) \/ (k # 1 /\ Mends(s[k], i))
  <1>1. Mended(s, i) => Mended(t, i) \/ Mends(s[k], i)
    BY DEF Mended, Shrunk
  <1>2. k = 1 /\ MendedAfter(s, k, i) => Mended(t, i)
    BY DEF Mended, MendedAfter, Shrunk
  <1>3. ASSUME NEW l \in DOMAIN t, MendedAfter(s, Skip(k, l), i), k = 1 \/ ~Mends(s[k], i)
        PROVE  MendedAfter(t, l, i)
    <2>1. PICK j \in DOMAIN s : j > Skip(k, l) /\ Mends(s[j], i)
      BY <1>3 DEF MendedAfter
    <2>2. j # k
      BY <1>3, <2>1 DEF Shrunk
    <2>3. PICK g \in DOMAIN t : Skip(k, g) = j
      BY <2>2 DEF Shrunk
    <2>4. g > l /\ t[g] = s[j]
      BY <2>1, <2>3 DEF Shrunk
    <2> QED
      BY <2>1, <2>4 DEF MendedAfter
  <1> QED
    BY <1>1, <1>2, <1>3

\* What a list and the messages said is said by the messages that are left.
LEMMA StatusShrunk ==
    ASSUME NEW s, NEW t, NEW k \in DOMAIN s, Shrunk(s, t, k), NEW i,
           k = 1 \/ ~Mends(s[k], i),
           NEW list, NEW next, NEW row, StatusTold(list, s, row, i),
           \A n \in DOMAIN next : next[n].id = i => next[n].status = row.status \/ Mended(t, i)
    PROVE  StatusTold(next, t, row, i)
  <1>1. \A l \in DOMAIN t : /\ Skip(k, l) \in DOMAIN s /\ t[l] = s[Skip(k, l)]
                            /\ MendedAfter(s, Skip(k, l), i) => MendedAfter(t, l, i)
    BY MendedShrunk DEF Shrunk
  <1> QED
    BY <1>1 DEF StatusTold

LEMMA StatusStays ==
    ASSUME TypeInv, SoundInv, StatusInv, Step
    PROVE  StatusInv'
  <1> SUFFICES ASSUME InOrder, NEW i \in Ids,
                      log'[i] # None, exchange'[i] = "over", <<"list", i>> \notin missed'
               PROVE  StatusTold(page'.requests, inbox', log'[i], i)
    BY OrderStays DEF StatusInv
  <1>0. ASSUME log[i] # None, exchange[i] = "over", <<"list", i>> \notin missed
        PROVE  StatusTold(page.requests, inbox, log[i], i)
    BY <1>0 DEF StatusInv
  <1>1. CASE ServerStep
    <2>1. page'.requests = page.requests /\ missed \subseteq missed' /\ RowMoves(i)
      BY <1>1 DEF ServerStep, KeepsContent
    <2>2. ASSUME log'[i] = log[i], exchange[i] \notin {"announce", "announceEnd"},
                 StatusTold(page.requests, inbox, log[i], i)
          PROVE  StatusTold(page'.requests, inbox', log'[i], i)
      <3>1. CASE UNCHANGED inbox
        BY <2>1, <2>2, <3>1
      <3>2. ASSUME NEW n, NEW e, Grown(inbox, inbox', n, e), NewEvent(e)
            PROVE  StatusTold(page'.requests, inbox', log'[i], i)
        <4>1. ~IsList(e) /\ ~IsEvent(e, "started", i)
          BY <2>2, <3>2, EventRemovesNothing DEF NewEvent, IsEvent
        <4>2. StatusTold(page.requests, inbox', log[i], i)
          BY <2>2, <3>2, <4>1, StatusGrown
        <4> QED
          BY <2>1, <2>2, <4>2
      <3> QED
        BY <1>1, <3>1, <3>2 DEF ServerStep
    <2>3. CASE exchange[i] = "over" /\ log'[i] = log[i]
      BY <1>0, <2>1, <2>2, <2>3
    <2>4. CASE exchange[i] = "running" /\ log'[i] = log[i]
      <3>1. log[i].status = "Pending"
        BY <2>4 DEF TypeInv, LogOK
      <3>2. /\ Sound(page.requests, i)
            /\ \A k \in DOMAIN inbox : IsList(inbox[k]) => Sound(inbox[k].data, i)
        BY <2>4 DEF SoundInv
      <3>3. StatusTold(page.requests, inbox, log[i], i)
        BY <3>1, <3>2 DEF StatusTold, Sound
      <3> QED
        BY <2>2, <2>4, <3>3
    <2>5. CASE exchange[i] = "announceEnd" /\ log'[i] = log[i] /\ Told(i, "completed")
      <3>1. PICK k \in DOMAIN inbox' \ DOMAIN inbox : IsEvent(inbox'[k], "completed", i)
        BY <2>5 DEF Told, Missed
      <3>2. PICK n, e : Grown(inbox, inbox', n, e) /\ NewEvent(e)
        BY <1>1, <3>1 DEF ServerStep
      <3>3. IsEvent(e, "completed", i) /\ ~IsList(e)
        BY <3>1, <3>2, EventRemovesNothing DEF Grown, NewEvent
      <3>4. Mends(e, i) /\ ~IsEvent(e, "started", i)
        BY <3>3 DEF Mends, IsEvent
      <3>5. StatusTold(page.requests, inbox', log[i], i)
        BY <3>2, <3>3, <3>4, StatusGrown
      <3> QED
        BY <2>1, <2>5, <3>5
    <2> QED
      BY <2>1, <2>3, <2>4, <2>5 DEF RowMoves, Missed
  <1>2. ASSUME NEW k, AnswerStep(k)
        PROVE  StatusTold(page'.requests, inbox', log'[i], i)
    <2>1. PICK n, a : AnswerTells(k, n, a)
      BY <1>2, AnswerFacts
    <2>2. /\ UNCHANGED <<page, exchange>> /\ log'[i] = log[i]
          /\ Grown(inbox, inbox', n, a) /\ ~IsEvent(a, "started", i)
          /\ IsList(a) => \A l \in DOMAIN a.data : a.data[l].id = i => a.data[l].status = log[i].status
          /\ <<"list", i>> \in missed => IsList(a)
      BY <1>2, <2>1 DEF AnswerStep, AnswerTells, IsAnswer, IsEvent
    <2>3. StatusTold(page.requests, inbox, log[i], i) \/ Mends(a, i)
      BY <1>0, <2>2 DEF Mends
    <2>4. StatusTold(page.requests, inbox', log[i], i)
      BY <2>2, <2>3, StatusGrown
    <2> QED
      BY <2>2, <2>4
  <1>3. ASSUME NEW c, AskStep(c)
        PROVE  StatusTold(page'.requests, inbox', log'[i], i)
    <2>1. UNCHANGED <<inbox, log, exchange, missed>> /\ page'.requests = page.requests
      BY <1>3 DEF AskStep, KeepsContent
    <2> QED
      BY <1>0, <2>1
  <1>4. ASSUME NEW k, TakeStep(k)
        PROVE  StatusTold(page'.requests, inbox', log'[i], i)
    <2>1. /\ k = 1 /\ k \in DOMAIN inbox /\ Shrunk(inbox, inbox', k)
          /\ UNCHANGED <<log, exchange, missed>>
          /\ StatusTaken(inbox[k], page, page')
      BY <1>4 DEF TakeStep, Taken
    <2>2. StatusTold(page.requests, inbox, log[i], i)
      BY <1>0, <2>1
    <2>3. ASSUME NEW n \in DOMAIN page'.requests, page'.requests[n].id = i
          PROVE  page'.requests[n].status = log[i].status \/ Mended(inbox', i)
      <3>1. /\ Mended(inbox, i) => Mended(inbox', i) \/ Mends(inbox[k], i)
            /\ MendedAfter(inbox, k, i) => Mended(inbox', i)
        BY <2>1, MendedShrunk
      <3>2. CASE /\ ~IsList(inbox[k]) /\ ~IsEvent(inbox[k], "completed", i)
                 /\ \E l \in DOMAIN page.requests : page'.requests[n] = page.requests[l]
        BY <2>2, <2>3, <3>1, <3>2 DEF StatusTold, Mends
      <3>3. CASE /\ IsList(inbox[k])
                 /\ \E l \in DOMAIN inbox[k].data : page'.requests[n] = inbox[k].data[l]
        BY <2>1, <2>2, <2>3, <3>1, <3>3 DEF StatusTold
      <3>4. CASE IsEvent(inbox[k], "started", i) /\ page'.requests[n].status = "Pending"
        BY <2>1, <2>2, <3>1, <3>4 DEF StatusTold
      <3>5. CASE IsEvent(inbox[k], "completed", i) /\ page'.requests[n].status = inbox[k].status
        BY <2>1, <3>5 DEF SoundInv
      <3> QED
        BY <2>1, <2>3, <3>2, <3>3, <3>4, <3>5 DEF StatusTaken
    <2>4. StatusTold(page'.requests, inbox', log[i], i)
      BY <2>1, <2>2, <2>3, StatusShrunk
    <2> QED
      BY <2>1, <2>4
  <1>5. ASSUME NEW k, LoseStep(k)
        PROVE  StatusTold(page'.requests, inbox', log'[i], i)
    <2>1. /\ k \in DOMAIN inbox /\ Shrunk(inbox, inbox', k) /\ ~IsAnswer(inbox[k])
          /\ UNCHANGED <<page, log, exchange>>
          /\ missed' = missed \union (Views \X {inbox[k].id})
      BY <1>5 DEF LoseStep
    <2>2. inbox[k].id # i /\ <<"list", i>> \notin missed
      BY <2>1 DEF Views
    <2>3. ~Mends(inbox[k], i)
      BY <2>1, <2>2, EventRemovesNothing DEF Mends, IsEvent
    <2>4. StatusTold(page.requests, inbox, log[i], i)
      BY <1>0, <2>1, <2>2
    <2>5. \A n \in DOMAIN page.requests : page.requests[n].id = i =>
            page.requests[n].status = log[i].status \/ Mended(inbox', i)
      BY <2>1, <2>3, <2>4, MendedShrunk DEF StatusTold
    <2>6. StatusTold(page.requests, inbox', log[i], i)
      BY <2>1, <2>3, <2>4, <2>5, StatusShrunk
    <2> QED
      BY <2>1, <2>6
  <1> QED
    BY <1>1, <1>2, <1>3, <1>4, <1>5 DEF Step
-----------------------------------------------------------------------------
(* The invariant, and what it promises of a tab with nothing on its way.   *)

OrderInv ==
    /\ TypeInv
    /\ KnownInv
    /\ RemovalInv
    /\ DetailInv
    /\ FreshInv
    /\ ListedInv
    /\ SoundInv
    /\ StatusInv

LEMMA OrderInvInit == Init => OrderInv
  <1> SUFFICES ASSUME Init PROVE OrderInv
    OBVIOUS
  <1>1. /\ TypeInv
        /\ inbox = <<>> /\ DOMAIN inbox = {}
        /\ page.requests = <<>> /\ DOMAIN page.requests = {} /\ IdsOf(page.requests) = {}
        /\ page.selectedRequestId = None /\ page.selectedRequest = None
    BY TypeInvInit, EmptyList DEF Init
  <1>2. \A i \in Ids : \/ <<"list", i>> \in missed /\ <<"detail", i>> \in missed
                       \/ log[i] = None /\ exchange[i] = "new"
    BY DEF Init, Views
  <1>3. NoCall(calls)
    <2>1. \A k \in DOMAIN calls : calls[k] = Call("config", None, "boot")
      BY DEF Init
    <2> QED
      BY <2>1 DEF NoCall, Call
  <1>4. KnownInv /\ RemovalInv
    BY <1>1, DashboardAssumption DEF KnownInv, RemovalInv, OnPage
  <1>5. DetailInv
    BY <1>1, <1>3 DEF DetailInv, NoCall, LastCall, LastAnswer
  <1>6. FreshInv /\ ListedInv /\ StatusInv
    BY <1>2 DEF FreshInv, ListedInv, StatusInv
  <1>7. SoundInv
    BY <1>1 DEF SoundInv, Sound
  <1> QED
    BY <1>1, <1>4, <1>5, <1>6, <1>7 DEF OrderInv

LEMMA OrderInvStays == OrderInv /\ [Next]_vars => OrderInv'
  <1> SUFFICES ASSUME OrderInv, [Next]_vars PROVE OrderInv'
    OBVIOUS
  <1>0. /\ TypeInv /\ KnownInv /\ RemovalInv /\ DetailInv
        /\ FreshInv /\ ListedInv /\ SoundInv /\ StatusInv
    BY DEF OrderInv
  <1>1. TypeInv'
    BY <1>0, TypeInvStays
  <1>2. Step
    BY <1>0, StepKinds
  <1>3. KnownInv' /\ RemovalInv'
    BY <1>0, <1>2, KnownStays, RemovalStays
  <1>4. DetailInv' /\ FreshInv'
    BY <1>0, <1>2, DetailStays, FreshStays
  <1>5. ListedInv' /\ SoundInv' /\ StatusInv'
    BY <1>0, <1>2, ListedStays, SoundStays, StatusStays
  <1> QED
    BY <1>1, <1>3, <1>4, <1>5 DEF OrderInv

LEMMA OrderInvHolds == Spec => []OrderInv
  <1>1. Init => OrderInv
    BY OrderInvInit
  <1>2. OrderInv /\ [Next]_vars => OrderInv'
    BY OrderInvStays
  <1> QED
    BY <1>1, <1>2, PTL DEF Spec

\* Where no detail is outstanding, none is asked for or answered.
LEMMA NoDetailUnderWay ==
    ASSUME TypeInv, Outstanding("detail") = 0
    PROVE  NoCall(calls) /\ NoAnswer(inbox)
  <1>1. NetInv /\ IsSeq(calls) /\ IsSeq(inbox)
    BY DEF TypeInv, DashboardInv, NetInv, CallsOK, InboxOK
  <1>2. IsFiniteSet(DOMAIN calls) /\ IsFiniteSet(DOMAIN inbox)
    BY <1>1, FS_Interval DEF IsSeq
  <1>3. IsFiniteSet(AskedIn(calls, "detail")) /\ IsFiniteSet(AnsweringIn(inbox, "detail"))
    BY <1>2, FS_Subset DEF AskedIn, AnsweringIn
  <1>4. /\ Cardinality(AskedIn(calls, "detail")) = 0
        /\ Cardinality(AnsweringIn(inbox, "detail")) = 0
    BY <1>1, OutstandingIs, Counted
  <1>5. AskedIn(calls, "detail") = {} /\ AnsweringIn(inbox, "detail") = {}
    BY <1>3, <1>4, FS_EmptySet
  <1> QED
    BY <1>5 DEF NoCall, NoAnswer, IsDetail, AskedIn, AnsweringIn

\* Whatever is clicked, answered and announced meanwhile, of calls that keep their
\* order the last detail to arrive is that of the request that is selected: what
\* the modal shows is what Delete would delete.
THEOREM DetailFollowsSelection == Spec => []DetailIsOfSelection
  <1>1. ASSUME OrderInv PROVE DetailIsOfSelection
    <2> SUFFICES ASSUME InOrder, page.selectedRequest # None, Outstanding("detail") = 0,
                        ~(RecentLimit < Cardinality(Ids))
                 PROVE  page.selectedRequest.id = page.selectedRequestId
      BY DEF DetailIsOfSelection
    <2>1. NoCall(calls) /\ NoAnswer(inbox)
      BY <1>1, NoDetailUnderWay DEF OrderInv
    <2>2. LongList
      BY DashboardAssumption, FS_CardinalityType DEF LongList
    <2> QED
      BY <1>1, <2>1, <2>2 DEF OrderInv, DetailInv
  <1> QED
    BY <1>1, OrderInvHolds, PTL

\* However chunks and fetches of the detail were interleaved, it ends up as the row
\* of the log, unless an event was missed since.
THEOREM DetailSettles == Spec => []SettledDetail
  <1>1. ASSUME OrderInv PROVE SettledDetail
    <2> DEFINE id == page.selectedRequestId
    <2> SUFFICES ASSUME InOrder, Quiet, LongList, page.selectedRequest # None,
                        log[id] # None, log[id].status # "Pending",
                        exchange[id] = "over", <<"detail", id>> \notin missed
                 PROVE  page.selectedRequest = log[id]
      BY DEF SettledDetail, LongList
    <2>1. NoCall(calls) /\ NoAnswer(inbox) /\ DOMAIN inbox = {}
      BY DEF Quiet, NoCall, NoAnswer
    <2>2. page.selectedRequest.id = id
      BY <1>1, <2>1 DEF OrderInv, DetailInv
    <2>3. page.selectedRequest \in Detail
      BY <1>1 DEF OrderInv, TypeInv, PageTyped
    <2>4. id \in Ids
      BY <2>2, <2>3 DEF Detail
    <2>5. Fresh(inbox, calls, page.selectedRequest, log[id], id)
      BY <1>1, <2>4 DEF OrderInv, FreshInv
    <2> QED
      BY <2>1, <2>5 DEF Fresh, HasEvent
  <1> QED
    BY <1>1, OrderInvHolds, PTL

\* However lists and events were interleaved, the list ends up with the requests of
\* the log and their statuses, unless an event was missed since.
THEOREM ListSettles == Spec => []ListFollowsLog
  <1>1. ASSUME OrderInv PROVE ListFollowsLog
    <2> SUFFICES ASSUME InOrder, Quiet
                 PROVE  /\ RecentLimit >= Cardinality(Ids) /\ PageLimit >= Cardinality(Ids) =>
                             \A i \in Ids :
                               /\ log[i] # None /\ exchange[i] \notin {"new", "announce"}
                               /\ <<"list", i>> \notin missed
                               => i \in Listed(page)
                        /\ \A k \in DOMAIN page.requests :
                             LET id == page.requests[k].id IN
                             /\ log[id] # None /\ exchange[id] = "over"
                             /\ <<"list", id>> \notin missed
                             => page.requests[k].status = log[id].status
      BY DEF ListFollowsLog
    <2>1. DOMAIN inbox = {} /\ Listed(page) = IdsOf(page.requests)
      BY DEF Quiet, Listed, IdsOf
    <2>2. \A k \in DOMAIN page.requests : page.requests[k].id \in Ids
      <3>1. page.requests \in Seq(Summary)
        BY <1>1 DEF OrderInv, TypeInv, PageTyped, ListOK
      <3>2. \A k \in DOMAIN page.requests : page.requests[k] \in Summary
        BY <3>1
      <3> QED
        BY <3>2 DEF Summary
    <2>3. ListedInv /\ StatusInv
      BY <1>1 DEF OrderInv
    <2> QED
      BY <2>1, <2>2, <2>3 DEF ListedInv, LongList, StatusInv, StatusTold, Mended
  <1> QED
    BY <1>1, OrderInvHolds, PTL
=============================================================================
