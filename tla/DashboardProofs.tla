--------------------------- MODULE DashboardProofs ---------------------------
(***************************************************************************)
(* What holds of the request part of the dashboard for any requests, any   *)
(* number of calls under way and any combination of faults.  The flags of  *)
(* the page are held against the calls that have not come back, so most of *)
(* the work is counting: what adding and removing an element does to the   *)
(* number of calls of an operation.                                        *)
(***************************************************************************)
EXTENDS DashboardProperties, FiniteSetTheorems, TLAPS

-----------------------------------------------------------------------------
(* Sequences, and the number of their elements of a kind.                  *)

IsSeq(s) == s \in Seq({s[k] : k \in DOMAIN s})

LEMMA SeqIsSeq ==
    ASSUME NEW S, NEW s \in Seq(S)
    PROVE  IsSeq(s)
  BY DEF IsSeq

LEMMA EmptyIsSeq == IsSeq(<<>>)
  <1>1. <<>> \in Seq({})
    OBVIOUS
  <1> QED
    BY <1>1, SeqIsSeq

LEMMA AppendSeq ==
    ASSUME NEW s, IsSeq(s), NEW x
    PROVE  /\ IsSeq(Append(s, x))
           /\ Len(s) \in Nat /\ DOMAIN s = 1..Len(s)
           /\ DOMAIN Append(s, x) = 1..(Len(s) + 1)
           /\ \A j \in 1..Len(s) : Append(s, x)[j] = s[j]
           /\ Append(s, x)[Len(s) + 1] = x
  <1> DEFINE S == {s[k] : k \in DOMAIN s} \union {x}
  <1>1. s \in Seq(S) /\ x \in S
    BY DEF IsSeq
  <1>2. Append(s, x) \in Seq(S)
    BY <1>1
  <1>3. IsSeq(Append(s, x))
    BY <1>2, SeqIsSeq
  <1> QED
    BY <1>1, <1>3

\* Where the elements that remain were.
Skip(k, j) == IF j < k THEN j ELSE j + 1

LEMMA RemoveAtSeq ==
    ASSUME NEW s, IsSeq(s), NEW k \in DOMAIN s
    PROVE  /\ IsSeq(RemoveAt(s, k))
           /\ Len(s) \in Nat /\ DOMAIN s = 1..Len(s)
           /\ DOMAIN RemoveAt(s, k) = 1..(Len(s) - 1)
           /\ \A j \in 1..(Len(s) - 1) : RemoveAt(s, k)[j] = s[Skip(k, j)]
  <1> DEFINE S == {s[j] : j \in DOMAIN s}
             a == SubSeq(s, 1, k - 1)
             b == SubSeq(s, k + 1, Len(s))
  <1>1. s \in Seq(S)
    BY DEF IsSeq
  <1> HIDE DEF S
  <1>2. Len(s) \in Nat /\ DOMAIN s = 1..Len(s) /\ k \in 1..Len(s)
    BY <1>1
  <1>3. /\ a \in Seq(S) /\ Len(a) = k - 1
        /\ \A j \in 1..(k - 1) : a[j] = s[j]
    BY <1>1, <1>2
  <1>4. /\ b \in Seq(S) /\ Len(b) = Len(s) - k
        /\ \A j \in 1..(Len(s) - k) : b[j] = s[k + j]
    <2>1. b \in Seq(S)
      BY <1>1, <1>2
    <2>2. Len(b) = Len(s) - k
      BY <1>1, <1>2
    <2>3. ASSUME NEW j \in 1..(Len(s) - k)
          PROVE  b[j] = s[k + j]
      <3>1. (k + 1) + j - 1 = k + j
        BY <1>2
      <3> QED
        BY <1>1, <1>2, <3>1
    <2> QED
      BY <2>1, <2>2, <2>3
  <1>5. RemoveAt(s, k) = a \o b
    BY DEF RemoveAt
  <1> HIDE DEF a, b
  <1>6. /\ a \o b \in Seq(S) /\ Len(a \o b) = Len(s) - 1
        /\ DOMAIN (a \o b) = 1..(Len(s) - 1)
    <2>1. a \in Seq(S) /\ b \in Seq(S)
      BY <1>3, <1>4
    <2>2. a \o b \in Seq(S) /\ Len(a \o b) = Len(a) + Len(b)
      BY <2>1
    <2>3. Len(a) + Len(b) = Len(s) - 1
      BY <1>2, <1>3, <1>4
    <2> QED
      BY <2>2, <2>3
  <1>7. ASSUME NEW j \in 1..(Len(s) - 1)
        PROVE  (a \o b)[j] = s[Skip(k, j)]
    <2>1. CASE j < k
      BY <2>1, <1>2, <1>3, <1>4 DEF Skip
    <2>2. CASE ~(j < k)
      <3>1. j - (k - 1) \in 1..(Len(s) - k)
        BY <2>2, <1>2
      <3>2. (a \o b)[j] = b[j - (k - 1)]
        BY <2>2, <1>2, <1>3, <1>4
      <3> QED
        <4>1. k + (j - (k - 1)) = j + 1
          BY <1>2
        <4> QED
          BY <4>1, <3>1, <3>2, <2>2, <1>4 DEF Skip
    <2> QED
      BY <2>1, <2>2
  <1>8. IsSeq(RemoveAt(s, k))
    BY <1>5, <1>6, SeqIsSeq
  <1> QED
    BY <1>2, <1>5, <1>6, <1>7, <1>8

\* Numbers up to n, those from k on counted down by one.
LEMMA SkipCount ==
    ASSUME NEW n \in Nat, NEW k \in 1..n, NEW A \in SUBSET (1..n),
           NEW B, B = {j \in 1..(n - 1) : Skip(k, j) \in A}
    PROVE  /\ Cardinality(A) \in Nat /\ Cardinality(B) \in Nat
           /\ Cardinality(B) = Cardinality(A) - (IF k \in A THEN 1 ELSE 0)
  <1>1. IsFiniteSet(1..n)
    BY FS_Interval
  <1>2. IsFiniteSet(A) /\ IsFiniteSet(A \ {k}) /\ Cardinality(A) \in Nat
    BY <1>1, FS_Subset, FS_CardinalityType
  <1> DEFINE f == [j \in B |-> Skip(k, j)]
  <1>3. f \in [B -> A \ {k}]
    BY DEF Skip
  <1>4. \A i, j \in B : f[i] = f[j] => i = j
    BY DEF Skip
  <1>5. ASSUME NEW y \in A \ {k}
        PROVE  \E j \in B : f[j] = y
    <2>1. y \in 1..n /\ y # k
      OBVIOUS
    <2>2. CASE y < k
      <3>1. y \in 1..(n - 1) /\ Skip(k, y) = y
        BY <2>1, <2>2 DEF Skip
      <3> QED
        BY <3>1
    <2>3. CASE ~(y < k)
      <3>1. y - 1 \in 1..(n - 1) /\ Skip(k, y - 1) = y
        BY <2>1, <2>3 DEF Skip
      <3> QED
        BY <3>1
    <2> QED
      BY <2>2, <2>3
  <1>6. f \in Bijection(B, A \ {k})
    BY <1>3, <1>4, <1>5 DEF Bijection, Injection, Surjection, IsInjective
  <1>7. ExistsBijection(B, A \ {k})
    BY <1>6 DEF ExistsBijection
  <1>8. IsFiniteSet(B)
    <2>1. B \in SUBSET (1..n)
      OBVIOUS
    <2> QED
      BY <2>1, <1>1, FS_Subset
  <1>9. Cardinality(A \ {k}) = Cardinality(B)
    BY <1>7, <1>8, FS_Bijection
  <1>10. Cardinality(A \ {k}) = IF k \in A THEN Cardinality(A) - 1 ELSE Cardinality(A)
    BY <1>2, FS_RemoveElement
  <1> QED
    BY <1>2, <1>8, <1>9, <1>10, FS_CardinalityType

\* Numbers up to n, and one more or not.
LEMMA AddCount ==
    ASSUME NEW n \in Nat, NEW A \in SUBSET (1..n), NEW more \in BOOLEAN
    PROVE  /\ Cardinality(A) \in Nat
           /\ Cardinality(IF more THEN A \union {n + 1} ELSE A)
                = Cardinality(A) + (IF more THEN 1 ELSE 0)
  <1>1. IsFiniteSet(A) /\ Cardinality(A) \in Nat
    <2>1. IsFiniteSet(1..n)
      BY FS_Interval
    <2> QED
      BY <2>1, FS_Subset, FS_CardinalityType
  <1>2. n + 1 \notin A
    OBVIOUS
  <1> QED
    BY <1>1, <1>2, FS_AddElement

-----------------------------------------------------------------------------
(* Calls and messages, counted by the operation they belong to.            *)

\* initialize makes no call that changes anything.
CallOK(c) == c.from # "user" => c.op \in {"config", "list", "configs", "detail"}

CallsOK(s) ==
    /\ IsSeq(s)
    /\ \A k \in DOMAIN s : CallOK(s[k])

InboxOK(s) ==
    /\ IsSeq(s)
    /\ \A k \in DOMAIN s : IsAnswer(s[k]) => CallOK(s[k].call)

AskedIn(s, op) == {k \in DOMAIN s : s[k].op = op}
AnsweringIn(s, op) == {k \in DOMAIN s : IsAnswer(s[k]) /\ s[k].call.op = op}

\* What a call and a message count for the operation.
Weight(c, op) == IF c.op = op THEN 1 ELSE 0
AnswerWeight(m, op) == IF IsAnswer(m) /\ m.call.op = op THEN 1 ELSE 0

LEMMA CallAdded ==
    ASSUME NEW s, CallsOK(s), NEW c, CallOK(c)
    PROVE  /\ CallsOK(Append(s, c))
           /\ \A op : /\ Cardinality(AskedIn(s, op)) \in Nat
                      /\ Cardinality(AskedIn(Append(s, c), op))
                           = Cardinality(AskedIn(s, op)) + Weight(c, op)
  <1> DEFINE t == Append(s, c)
  <1>1. /\ IsSeq(t) /\ Len(s) \in Nat /\ DOMAIN s = 1..Len(s)
        /\ DOMAIN t = 1..(Len(s) + 1)
        /\ \A j \in 1..Len(s) : t[j] = s[j]
        /\ t[Len(s) + 1] = c
    BY AppendSeq DEF CallsOK
  <1> HIDE DEF t
  <1>2. CallsOK(t)
    BY <1>1 DEF CallsOK
  <1>3. ASSUME NEW op
        PROVE  /\ Cardinality(AskedIn(s, op)) \in Nat
               /\ Cardinality(AskedIn(t, op)) = Cardinality(AskedIn(s, op)) + Weight(c, op)
    <2>1. AskedIn(s, op) \in SUBSET (1..Len(s))
      BY <1>1 DEF AskedIn
    <2>2. AskedIn(t, op) = IF c.op = op THEN AskedIn(s, op) \union {Len(s) + 1} ELSE AskedIn(s, op)
      BY <1>1 DEF AskedIn
    <2> QED
      BY <1>1, <2>1, <2>2, AddCount DEF Weight
  <1> QED
    BY <1>2, <1>3 DEF t

LEMMA CallTaken ==
    ASSUME NEW s, CallsOK(s), NEW k \in DOMAIN s
    PROVE  /\ CallsOK(RemoveAt(s, k))
           /\ CallOK(s[k])
           /\ \A op : /\ Cardinality(AskedIn(s, op)) \in Nat
                      /\ Cardinality(AskedIn(RemoveAt(s, k), op))
                           = Cardinality(AskedIn(s, op)) - Weight(s[k], op)
  <1> DEFINE t == RemoveAt(s, k)
  <1>1. /\ IsSeq(t) /\ Len(s) \in Nat /\ DOMAIN s = 1..Len(s)
        /\ DOMAIN t = 1..(Len(s) - 1)
        /\ \A j \in 1..(Len(s) - 1) : t[j] = s[Skip(k, j)]
    BY RemoveAtSeq DEF CallsOK
  <1> HIDE DEF t
  <1>2. \A j \in 1..(Len(s) - 1) : Skip(k, j) \in DOMAIN s
    BY <1>1 DEF Skip
  <1>3. CallsOK(t) /\ CallOK(s[k])
    BY <1>1, <1>2 DEF CallsOK
  <1>4. ASSUME NEW op
        PROVE  /\ Cardinality(AskedIn(s, op)) \in Nat
               /\ Cardinality(AskedIn(t, op)) = Cardinality(AskedIn(s, op)) - Weight(s[k], op)
    <2> DEFINE A == AskedIn(s, op)
               B == AskedIn(t, op)
    <2>1. A \in SUBSET (1..Len(s)) /\ k \in 1..Len(s) /\ Len(s) \in Nat
      BY <1>1 DEF AskedIn
    <2>2. B = {j \in 1..(Len(s) - 1) : Skip(k, j) \in A}
      BY <1>1, <1>2 DEF AskedIn
    <2> HIDE DEF A, B
    <2>3. /\ Cardinality(A) \in Nat /\ Cardinality(B) \in Nat
          /\ Cardinality(B) = Cardinality(A) - (IF k \in A THEN 1 ELSE 0)
      BY <2>1, <2>2, SkipCount
    <2>4. k \in A <=> s[k].op = op
      BY DEF A, AskedIn
    <2> QED
      BY <2>3, <2>4 DEF A, B, Weight
  <1> QED
    BY <1>3, <1>4 DEF t

LEMMA MessageAdded ==
    ASSUME NEW s, InboxOK(s), NEW m, IsAnswer(m) => CallOK(m.call)
    PROVE  /\ InboxOK(Append(s, m))
           /\ \A op : /\ Cardinality(AnsweringIn(s, op)) \in Nat
                      /\ Cardinality(AnsweringIn(Append(s, m), op))
                           = Cardinality(AnsweringIn(s, op)) + AnswerWeight(m, op)
  <1> DEFINE t == Append(s, m)
  <1>1. /\ IsSeq(t) /\ Len(s) \in Nat /\ DOMAIN s = 1..Len(s)
        /\ DOMAIN t = 1..(Len(s) + 1)
        /\ \A j \in 1..Len(s) : t[j] = s[j]
        /\ t[Len(s) + 1] = m
    BY AppendSeq DEF InboxOK
  <1> HIDE DEF t
  <1>2. InboxOK(t)
    BY <1>1 DEF InboxOK
  <1>3. ASSUME NEW op
        PROVE  /\ Cardinality(AnsweringIn(s, op)) \in Nat
               /\ Cardinality(AnsweringIn(t, op))
                    = Cardinality(AnsweringIn(s, op)) + AnswerWeight(m, op)
    <2>1. AnsweringIn(s, op) \in SUBSET (1..Len(s))
      BY <1>1 DEF AnsweringIn
    <2>2. AnsweringIn(t, op) = IF IsAnswer(m) /\ m.call.op = op
                                 THEN AnsweringIn(s, op) \union {Len(s) + 1}
                                 ELSE AnsweringIn(s, op)
      BY <1>1 DEF AnsweringIn
    <2> QED
      BY <1>1, <2>1, <2>2, AddCount DEF AnswerWeight
  <1> QED
    BY <1>2, <1>3 DEF t

LEMMA MessageTaken ==
    ASSUME NEW s, InboxOK(s), NEW k \in DOMAIN s
    PROVE  /\ InboxOK(RemoveAt(s, k))
           /\ IsAnswer(s[k]) => CallOK(s[k].call)
           /\ \A op : /\ Cardinality(AnsweringIn(s, op)) \in Nat
                      /\ Cardinality(AnsweringIn(RemoveAt(s, k), op)) \in Nat
                      /\ Cardinality(AnsweringIn(RemoveAt(s, k), op))
                           = Cardinality(AnsweringIn(s, op)) - AnswerWeight(s[k], op)
  <1> DEFINE t == RemoveAt(s, k)
  <1>1. /\ IsSeq(t) /\ Len(s) \in Nat /\ DOMAIN s = 1..Len(s)
        /\ DOMAIN t = 1..(Len(s) - 1)
        /\ \A j \in 1..(Len(s) - 1) : t[j] = s[Skip(k, j)]
    BY RemoveAtSeq DEF InboxOK
  <1> HIDE DEF t
  <1>2. \A j \in 1..(Len(s) - 1) : Skip(k, j) \in DOMAIN s
    BY <1>1 DEF Skip
  <1>3. InboxOK(t) /\ (IsAnswer(s[k]) => CallOK(s[k].call))
    BY <1>1, <1>2 DEF InboxOK
  <1>4. ASSUME NEW op
        PROVE  /\ Cardinality(AnsweringIn(s, op)) \in Nat
               /\ Cardinality(AnsweringIn(t, op)) \in Nat
               /\ Cardinality(AnsweringIn(t, op))
                    = Cardinality(AnsweringIn(s, op)) - AnswerWeight(s[k], op)
    <2> DEFINE A == AnsweringIn(s, op)
               B == AnsweringIn(t, op)
    <2>1. A \in SUBSET (1..Len(s)) /\ k \in 1..Len(s) /\ Len(s) \in Nat
      BY <1>1 DEF AnsweringIn
    <2>2. B = {j \in 1..(Len(s) - 1) : Skip(k, j) \in A}
      BY <1>1, <1>2 DEF AnsweringIn
    <2> HIDE DEF A, B
    <2>3. /\ Cardinality(A) \in Nat /\ Cardinality(B) \in Nat
          /\ Cardinality(B) = Cardinality(A) - (IF k \in A THEN 1 ELSE 0)
      BY <2>1, <2>2, SkipCount
    <2>4. k \in A <=> IsAnswer(s[k]) /\ s[k].call.op = op
      BY DEF A, AnsweringIn
    <2> QED
      BY <2>3, <2>4 DEF A, B, AnswerWeight
  <1> QED
    BY <1>3, <1>4 DEF t

-----------------------------------------------------------------------------
(* The page, and what each function of app.js does to its flags.           *)

IsPage(p) ==
    p \in [requests : {p.requests}, selectedRequestId : {p.selectedRequestId},
           selectedRequest : {p.selectedRequest}, isRequestDetailOpen : BOOLEAN,
           isRequestDetailLoading : BOOLEAN, isDeletingRequest : BOOLEAN,
           isTruncatingRequests : BOOLEAN, deleteEnabled : BOOLEAN]

\* The modal is over a selection, and Delete waits for a deletion under way.
PageOK(p) ==
    /\ IsPage(p)
    /\ p.isRequestDetailOpen => p.selectedRequestId # None
    /\ p.deleteEnabled => ~p.isDeletingRequest

KeepsDeleting(p, q) == q.isDeletingRequest = p.isDeletingRequest
KeepsTruncating(p, q) == q.isTruncatingRequests = p.isTruncatingRequests
LoadsNoMore(p, q) == q.isRequestDetailLoading => p.isRequestDetailLoading

LEMMA RenderDetailPage ==
    ASSUME NEW p, IsPage(p),
           p.isRequestDetailOpen => p.selectedRequestId # None
    PROVE  /\ PageOK(RenderDetail(p))
           /\ RenderDetail(p).selectedRequestId = p.selectedRequestId
           /\ RenderDetail(p).isRequestDetailOpen = p.isRequestDetailOpen
           /\ RenderDetail(p).isRequestDetailLoading = p.isRequestDetailLoading
           /\ KeepsDeleting(p, RenderDetail(p)) /\ KeepsTruncating(p, RenderDetail(p))
  BY DEF IsPage, PageOK, RenderDetail, KeepsDeleting, KeepsTruncating

LEMMA ClearSelectedPage ==
    ASSUME NEW p, IsPage(p)
    PROVE  LET q == ClearSelected(p) IN
           /\ IsPage(q)
           /\ q.selectedRequestId = None
           /\ ~q.isRequestDetailOpen /\ ~q.isRequestDetailLoading
           /\ KeepsDeleting(p, q) /\ KeepsTruncating(p, q)
  BY DEF IsPage, ClearSelected, KeepsDeleting, KeepsTruncating

LEMMA SetOpenPage ==
    ASSUME NEW p, IsPage(p), NEW isOpen \in BOOLEAN
    PROVE  LET q == SetOpen(p, isOpen) IN
           /\ IsPage(q)
           /\ q.isRequestDetailOpen => isOpen /\ q.selectedRequestId # None
           /\ q.selectedRequestId = p.selectedRequestId
           /\ q.isRequestDetailLoading = p.isRequestDetailLoading
           /\ q.deleteEnabled = p.deleteEnabled
           /\ KeepsDeleting(p, q) /\ KeepsTruncating(p, q)
  BY DEF IsPage, SetOpen, KeepsDeleting, KeepsTruncating

LEMMA RemoveRequestPage ==
    ASSUME NEW p, IsPage(p), NEW id
    PROVE  LET q == RemoveRequest(p, id) IN
           /\ IsPage(q) /\ LoadsNoMore(p, q)
           /\ KeepsDeleting(p, q) /\ KeepsTruncating(p, q)
  BY DEF IsPage, RemoveRequest, LoadsNoMore, KeepsDeleting, KeepsTruncating

LEMMA RefreshRequestsPage ==
    ASSUME NEW p, PageOK(p), NEW list
    PROVE  LET q == RefreshRequests(p, list) IN
           /\ PageOK(q) /\ LoadsNoMore(p, q)
           /\ KeepsDeleting(p, q) /\ KeepsTruncating(p, q)
  <1> DEFINE loaded == [p EXCEPT !.requests = list]
             kept == IF p.selectedRequestId \in {None} \union Listed(loaded)
                       THEN loaded ELSE ClearSelected(loaded)
             chosen == IF kept.selectedRequestId # None THEN kept
                         ELSE [kept EXCEPT !.selectedRequestId = FirstId(list)]
  <1>1. /\ IsPage(loaded)
        /\ loaded.isRequestDetailOpen => loaded.selectedRequestId # None
        /\ LoadsNoMore(p, loaded) /\ KeepsDeleting(p, loaded) /\ KeepsTruncating(p, loaded)
    BY DEF PageOK, IsPage, LoadsNoMore, KeepsDeleting, KeepsTruncating
  <1> HIDE DEF loaded
  <1>2. /\ IsPage(kept)
        /\ kept.isRequestDetailOpen => kept.selectedRequestId # None
        /\ LoadsNoMore(p, kept) /\ KeepsDeleting(p, kept) /\ KeepsTruncating(p, kept)
    BY <1>1, ClearSelectedPage DEF LoadsNoMore, KeepsDeleting, KeepsTruncating
  <1> HIDE DEF kept
  <1>3. /\ IsPage(chosen)
        /\ chosen.isRequestDetailOpen => chosen.selectedRequestId # None
        /\ LoadsNoMore(p, chosen) /\ KeepsDeleting(p, chosen) /\ KeepsTruncating(p, chosen)
    BY <1>2 DEF IsPage, LoadsNoMore, KeepsDeleting, KeepsTruncating
  <1>4. RefreshRequests(p, list) = RenderDetail(chosen)
    BY DEF RefreshRequests, loaded, kept
  <1> HIDE DEF chosen
  <1> QED
    BY <1>3, <1>4, RenderDetailPage DEF LoadsNoMore, KeepsDeleting, KeepsTruncating

LEMMA BeginDetailPage ==
    ASSUME NEW p, IsPage(p), p.isRequestDetailOpen => p.selectedRequestId # None
    PROVE  LET q == BeginDetail(p) IN
           PageOK(q) /\ KeepsDeleting(p, q) /\ KeepsTruncating(p, q)
  BY RenderDetailPage DEF BeginDetail, IsPage, KeepsDeleting, KeepsTruncating

LEMMA EndDetailPage ==
    ASSUME NEW p, PageOK(p), NEW detail
    PROVE  LET q == EndDetail(p, detail) IN
           /\ PageOK(q) /\ ~q.isRequestDetailLoading
           /\ KeepsDeleting(p, q) /\ KeepsTruncating(p, q)
  <1> DEFINE r == [p EXCEPT !.selectedRequest = detail,
                            !.isRequestDetailLoading = FALSE]
  <1>1. /\ IsPage(r) /\ ~r.isRequestDetailLoading
        /\ r.isRequestDetailOpen => r.selectedRequestId # None
        /\ KeepsDeleting(p, r) /\ KeepsTruncating(p, r)
    BY DEF PageOK, IsPage, KeepsDeleting, KeepsTruncating
  <1>2. EndDetail(p, detail) = RenderDetail(r)
    BY DEF EndDetail
  <1> HIDE DEF r
  <1> QED
    BY <1>1, <1>2, RenderDetailPage DEF KeepsDeleting, KeepsTruncating

LEMMA OpenDetailPage ==
    ASSUME NEW p, PageOK(p), NEW id, id # None
    PROVE  LET q == OpenDetail(p, id) IN
           PageOK(q) /\ KeepsDeleting(p, q) /\ KeepsTruncating(p, q)
  <1> DEFINE r == [p EXCEPT !.selectedRequestId = id]
             s == [SetOpen(r, TRUE) EXCEPT !.selectedRequest = None]
  <1>1. /\ IsPage(r) /\ r.selectedRequestId = id
        /\ KeepsDeleting(p, r) /\ KeepsTruncating(p, r)
    BY DEF PageOK, IsPage, KeepsDeleting, KeepsTruncating
  <1>2. OpenDetail(p, id) = BeginDetail(s)
    BY DEF OpenDetail
  <1> HIDE DEF r
  <1>3. /\ IsPage(s) /\ s.selectedRequestId # None
        /\ KeepsDeleting(p, s) /\ KeepsTruncating(p, s)
    BY <1>1, SetOpenPage DEF IsPage, KeepsDeleting, KeepsTruncating
  <1> HIDE DEF s
  <1> QED
    BY <1>2, <1>3, BeginDetailPage DEF KeepsDeleting, KeepsTruncating

LEMMA EndDeletePage ==
    ASSUME NEW p, PageOK(p), NEW id, NEW ok
    PROVE  LET q == EndDelete(p, id, ok) IN
           /\ PageOK(q) /\ LoadsNoMore(p, q)
           /\ ~q.isDeletingRequest /\ KeepsTruncating(p, q)
  <1> DEFINE r == IF ok THEN SetOpen(RemoveRequest(p, id), FALSE) ELSE p
             s == [r EXCEPT !.isDeletingRequest = FALSE]
  <1>1. /\ IsPage(r) /\ LoadsNoMore(p, r) /\ KeepsTruncating(p, r)
        /\ r.isRequestDetailOpen => r.selectedRequestId # None
    <2>1. CASE ok
      <3> DEFINE t == RemoveRequest(p, id)
      <3>1. IsPage(t) /\ LoadsNoMore(p, t) /\ KeepsTruncating(p, t)
        BY RemoveRequestPage DEF PageOK
      <3> HIDE DEF t
      <3>2. r = SetOpen(t, FALSE)
        BY <2>1 DEF t
      <3> HIDE DEF r
      <3> QED
        BY <3>1, <3>2, SetOpenPage DEF LoadsNoMore, KeepsTruncating
    <2>2. CASE ~ok
      BY <2>2 DEF PageOK, LoadsNoMore, KeepsTruncating
    <2> QED
      BY <2>1, <2>2
  <1> HIDE DEF r
  <1>2. /\ IsPage(s) /\ LoadsNoMore(p, s) /\ KeepsTruncating(p, s)
        /\ s.isRequestDetailOpen => s.selectedRequestId # None
        /\ ~s.isDeletingRequest
    BY <1>1 DEF IsPage, LoadsNoMore, KeepsTruncating
  <1>3. EndDelete(p, id, ok) = RenderDetail(s)
    BY DEF EndDelete, r
  <1> HIDE DEF s
  <1> QED
    BY <1>2, <1>3, RenderDetailPage DEF LoadsNoMore, KeepsDeleting, KeepsTruncating

LEMMA EndTruncatePage ==
    ASSUME NEW p, PageOK(p), NEW ok
    PROVE  LET q == EndTruncate(p, ok) IN
           /\ PageOK(q) /\ LoadsNoMore(p, q)
           /\ ~q.isTruncatingRequests /\ KeepsDeleting(p, q)
  <1> DEFINE r == IF ok THEN [ClearSelected(p) EXCEPT !.requests = <<>>] ELSE p
             s == [r EXCEPT !.isTruncatingRequests = FALSE]
  <1>1. /\ IsPage(r) /\ LoadsNoMore(p, r) /\ KeepsDeleting(p, r)
        /\ r.isRequestDetailOpen => r.selectedRequestId # None
    BY DEF ClearSelected, IsPage, PageOK, LoadsNoMore, KeepsDeleting
  <1> HIDE DEF r
  <1>2. /\ IsPage(s) /\ LoadsNoMore(p, s) /\ KeepsDeleting(p, s)
        /\ s.isRequestDetailOpen => s.selectedRequestId # None
        /\ ~s.isTruncatingRequests
    BY <1>1 DEF IsPage, LoadsNoMore, KeepsDeleting
  <1>3. EndTruncate(p, ok) = RenderDetail(s)
    BY DEF EndTruncate, r
  <1> HIDE DEF s
  <1> QED
    BY <1>2, <1>3, RenderDetailPage DEF LoadsNoMore, KeepsDeleting, KeepsTruncating

LEMMA StartedPage ==
    ASSUME NEW p, PageOK(p), NEW id
    PROVE  LET q == Started(p, id) IN
           /\ PageOK(q) /\ LoadsNoMore(p, q)
           /\ KeepsDeleting(p, q) /\ KeepsTruncating(p, q)
  BY RenderDetailPage
     DEF Started, PageOK, IsPage, LoadsNoMore, KeepsDeleting, KeepsTruncating

LEMMA ChunkPage ==
    ASSUME NEW p, PageOK(p), NEW id, NEW n
    PROVE  LET q == Chunk(p, id, n) IN
           /\ PageOK(q) /\ LoadsNoMore(p, q)
           /\ KeepsDeleting(p, q) /\ KeepsTruncating(p, q)
  BY RenderDetailPage
     DEF Chunk, PageOK, IsPage, LoadsNoMore, KeepsDeleting, KeepsTruncating

\* The detail is loaded again only if the request is selected.
LEMMA CompletedPage ==
    ASSUME NEW p, PageOK(p), NEW id, NEW status
    PROVE  LET q == Completed(p, id, status) IN
           /\ PageOK(q) /\ (id # p.selectedRequestId => LoadsNoMore(p, q))
           /\ KeepsDeleting(p, q) /\ KeepsTruncating(p, q)
  <1> DEFINE r == [p EXCEPT !.requests =
            [k \in DOMAIN @ |-> IF @[k].id = id THEN [id |-> id, status |-> status]
                                               ELSE @[k]]]
             s == RenderDetail(r)
  <1>1. /\ IsPage(r) /\ LoadsNoMore(p, r)
        /\ r.isRequestDetailOpen => r.selectedRequestId # None
        /\ KeepsDeleting(p, r) /\ KeepsTruncating(p, r)
    BY DEF IsPage, PageOK, LoadsNoMore, KeepsDeleting, KeepsTruncating
  <1>2. Completed(p, id, status) = IF id = p.selectedRequestId THEN BeginDetail(s) ELSE s
    BY DEF Completed
  <1> HIDE DEF r
  <1>3. /\ PageOK(s) /\ LoadsNoMore(p, s)
        /\ KeepsDeleting(p, s) /\ KeepsTruncating(p, s)
    BY <1>1, RenderDetailPage DEF LoadsNoMore, KeepsDeleting, KeepsTruncating
  <1> HIDE DEF s
  <1> QED
    BY <1>2, <1>3, BeginDetailPage DEF PageOK, LoadsNoMore, KeepsDeleting, KeepsTruncating

\* What an answer leaves of the flags: its own are reset, the others stay.
LEMMA AnsweredPage ==
    ASSUME NEW p, PageOK(p), NEW m
    PROVE  LET q == Answered(p, m) IN
           /\ PageOK(q)
           /\ LoadsNoMore(p, q)
           /\ m.call.op = "detail" => ~q.isRequestDetailLoading
           /\ IF m.call.op = "delete" THEN ~q.isDeletingRequest ELSE KeepsDeleting(p, q)
           /\ IF m.call.op = "truncate" THEN ~q.isTruncatingRequests
                                       ELSE KeepsTruncating(p, q)
  <1> DEFINE q == Answered(p, m)
  <1>0. LoadsNoMore(p, p) /\ KeepsDeleting(p, p) /\ KeepsTruncating(p, p)
    BY DEF LoadsNoMore, KeepsDeleting, KeepsTruncating
  <1>1. CASE m.call.op = "list"
    <2>1. q = IF m.ok THEN RefreshRequests(p, m.data) ELSE p
      BY <1>1 DEF Answered
    <2> HIDE DEF q
    <2> QED
      BY <1>0, <1>1, <2>1, RefreshRequestsPage DEF q
  <1>2. CASE m.call.op = "detail"
    <2>1. q = EndDetail(p, m.data)
      BY <1>2 DEF Answered
    <2> HIDE DEF q
    <2> QED
      BY <1>2, <2>1, EndDetailPage DEF q, LoadsNoMore
  <1>3. CASE m.call.op = "delete"
    <2>1. q = EndDelete(p, m.call.id, m.ok)
      BY <1>3 DEF Answered
    <2> HIDE DEF q
    <2> QED
      BY <1>3, <2>1, EndDeletePage DEF q
  <1>4. CASE m.call.op = "truncate"
    <2>1. q = EndTruncate(p, m.ok)
      BY <1>4 DEF Answered
    <2> HIDE DEF q
    <2> QED
      BY <1>4, <2>1, EndTruncatePage DEF q
  <1>5. CASE m.call.op \notin {"list", "detail", "delete", "truncate"}
    BY <1>0, <1>5 DEF Answered
  <1> QED
    BY <1>1, <1>2, <1>3, <1>4, <1>5

-----------------------------------------------------------------------------
(* The invariant.                                                          *)

NetInv == CallsOK(calls) /\ InboxOK(inbox)

DashboardInv ==
    /\ NetInv
    /\ PageOK(page)
    /\ SpinnerHasCall
    /\ BusyMatchesCalls

LEMMA OutstandingIs ==
    /\ \A op : Outstanding(op) = Cardinality(AskedIn(calls, op))
                                + Cardinality(AnsweringIn(inbox, op))
    /\ \A op : Outstanding(op)' = Cardinality(AskedIn(calls', op))
                                 + Cardinality(AnsweringIn(inbox', op))
  BY DEF Outstanding, Asked, Answering, AskedIn, AnsweringIn

\* Both parts of a number of outstanding calls are numbers.
LEMMA Counted ==
    ASSUME NetInv
    PROVE  \A op : /\ Cardinality(AskedIn(calls, op)) \in Nat
                   /\ Cardinality(AnsweringIn(inbox, op)) \in Nat
  <1>1. CallOK(Call("list", None, "user"))
    BY DEF CallOK, Call
  <1>2. ~IsAnswer(Event("chunk", None, None, None))
    BY DEF IsAnswer, Event
  <1> QED
    BY <1>1, <1>2, CallAdded, MessageAdded DEF NetInv

LEMMA Asking ==
    ASSUME NetInv, NEW c, CallOK(c), calls' = Append(calls, c), UNCHANGED inbox
    PROVE  /\ NetInv'
           /\ \A op : Outstanding(op) \in Nat
                     /\ Outstanding(op)' = Outstanding(op) + Weight(c, op)
  <1>1. /\ CallsOK(calls')
        /\ \A op : Cardinality(AskedIn(calls', op))
                     = Cardinality(AskedIn(calls, op)) + Weight(c, op)
    BY CallAdded DEF NetInv
  <1>2. \A op : Weight(c, op) \in {0, 1}
    BY DEF Weight
  <1>3. NetInv'
    BY <1>1 DEF NetInv
  <1>4. ASSUME NEW op
        PROVE  Outstanding(op) \in Nat /\ Outstanding(op)' = Outstanding(op) + Weight(c, op)
    BY <1>1, <1>2, Counted, OutstandingIs
  <1> QED
    BY <1>3, <1>4

LEMMA Serving ==
    ASSUME NetInv, NEW k \in DOMAIN calls, NEW ok, NEW data,
           calls' = RemoveAt(calls, k),
           inbox' = Append(inbox, Answer(calls[k], ok, data))
    PROVE  NetInv' /\ \A op : Outstanding(op)' = Outstanding(op)
  <1> DEFINE m == Answer(calls[k], ok, data)
  <1>1. IsAnswer(m) /\ m.call = calls[k]
    BY DEF Answer, IsAnswer
  <1> HIDE DEF m
  <1>2. /\ CallsOK(calls') /\ CallOK(calls[k])
        /\ \A op : Cardinality(AskedIn(calls', op))
                     = Cardinality(AskedIn(calls, op)) - Weight(calls[k], op)
    BY CallTaken DEF NetInv
  <1>3. inbox' = Append(inbox, m)
    BY DEF m
  <1>4. /\ InboxOK(inbox')
        /\ \A op : Cardinality(AnsweringIn(inbox', op))
                     = Cardinality(AnsweringIn(inbox, op)) + AnswerWeight(m, op)
    BY <1>1, <1>2, <1>3, MessageAdded DEF NetInv
  <1>5. \A op : AnswerWeight(m, op) = Weight(calls[k], op) /\ Weight(calls[k], op) \in {0, 1}
    BY <1>1 DEF AnswerWeight, Weight
  <1>6. ASSUME NEW op PROVE Outstanding(op)' = Outstanding(op)
    BY <1>2, <1>4, <1>5, Counted, OutstandingIs
  <1> QED
    BY <1>2, <1>4, <1>6 DEF NetInv

LEMMA Announcing ==
    ASSUME NetInv, NEW m, ~IsAnswer(m), inbox' = Append(inbox, m), UNCHANGED calls
    PROVE  NetInv' /\ \A op : Outstanding(op)' = Outstanding(op)
  <1>1. /\ InboxOK(inbox')
        /\ \A op : Cardinality(AnsweringIn(inbox', op))
                     = Cardinality(AnsweringIn(inbox, op)) + AnswerWeight(m, op)
    BY MessageAdded DEF NetInv
  <1>2. \A op : AnswerWeight(m, op) = 0
    BY DEF AnswerWeight
  <1>3. ASSUME NEW op PROVE Outstanding(op)' = Outstanding(op)
    BY <1>1, <1>2, Counted, OutstandingIs
  <1> QED
    BY <1>1, <1>3 DEF NetInv

\* A message is taken, and what follows may be a call.
LEMMA Taking ==
    ASSUME NetInv, NEW k \in DOMAIN inbox, inbox' = RemoveAt(inbox, k), UNCHANGED calls
    PROVE  /\ NetInv'
           /\ \A op : /\ Outstanding(op) \in Nat /\ Outstanding(op)' \in Nat
                      /\ Outstanding(op)' = Outstanding(op) - AnswerWeight(inbox[k], op)
  <1>1. /\ InboxOK(inbox')
        /\ \A op : /\ Cardinality(AnsweringIn(inbox', op)) \in Nat
                   /\ Cardinality(AnsweringIn(inbox', op))
                        = Cardinality(AnsweringIn(inbox, op)) - AnswerWeight(inbox[k], op)
    BY MessageTaken DEF NetInv
  <1>2. \A op : AnswerWeight(inbox[k], op) \in {0, 1}
    BY DEF AnswerWeight
  <1>3. ASSUME NEW op
        PROVE  /\ Outstanding(op) \in Nat /\ Outstanding(op)' \in Nat
               /\ Outstanding(op)' = Outstanding(op) - AnswerWeight(inbox[k], op)
    BY <1>1, <1>2, Counted, OutstandingIs
  <1> QED
    BY <1>1, <1>3 DEF NetInv

LEMMA TakingAndAsking ==
    ASSUME NetInv, NEW k \in DOMAIN inbox, inbox' = RemoveAt(inbox, k),
           NEW c, CallOK(c), calls' = Append(calls, c)
    PROVE  /\ NetInv'
           /\ \A op : /\ Outstanding(op) \in Nat
                      /\ Outstanding(op) - AnswerWeight(inbox[k], op) \in Nat
                      /\ Outstanding(op)' = (Outstanding(op) - AnswerWeight(inbox[k], op))
                                              + Weight(c, op)
  <1>1. /\ InboxOK(inbox')
        /\ \A op : /\ Cardinality(AnsweringIn(inbox', op)) \in Nat
                   /\ Cardinality(AnsweringIn(inbox', op))
                        = Cardinality(AnsweringIn(inbox, op)) - AnswerWeight(inbox[k], op)
    BY MessageTaken DEF NetInv
  <1>2. /\ CallsOK(calls')
        /\ \A op : Cardinality(AskedIn(calls', op))
                     = Cardinality(AskedIn(calls, op)) + Weight(c, op)
    BY CallAdded DEF NetInv
  <1>3. \A op : AnswerWeight(inbox[k], op) \in {0, 1} /\ Weight(c, op) \in {0, 1}
    BY DEF AnswerWeight, Weight
  <1>4. ASSUME NEW op
        PROVE  /\ Outstanding(op) \in Nat
               /\ Outstanding(op) - AnswerWeight(inbox[k], op) \in Nat
               /\ Outstanding(op)' = (Outstanding(op) - AnswerWeight(inbox[k], op))
                                       + Weight(c, op)
    BY <1>1, <1>2, <1>3, Counted, OutstandingIs
  <1> QED
    BY <1>1, <1>2, <1>4 DEF NetInv

-----------------------------------------------------------------------------
(* Every step keeps the invariant.                                         *)

LEMMA InitInv ==
    ASSUME Init
    PROVE  DashboardInv
  <1>1. calls = <<Call("config", None, "boot")>> /\ inbox = <<>>
    BY DEF Init
  <1>2. /\ IsSeq(calls) /\ DOMAIN calls = {1} /\ calls[1] = Call("config", None, "boot")
    <2>1. calls \in Seq({Call("config", None, "boot")})
      BY <1>1
    <2>2. Len(calls) = 1 /\ calls[1] = Call("config", None, "boot")
      BY <1>1
    <2>3. DOMAIN calls = {1}
      BY <2>1, <2>2
    <2> QED
      BY <2>1, <2>2, <2>3, SeqIsSeq
  <1>3. NetInv
    BY <1>1, <1>2, EmptyIsSeq DEF NetInv, CallsOK, InboxOK, CallOK, Call
  <1>4. PageOK(page)
    BY DEF Init, PageOK, IsPage
  <1>5. \A op \in {"delete", "truncate"} : Outstanding(op) = 0
    <2>1. TAKE op \in {"delete", "truncate"}
    <2>2. Asked(op) = {} /\ Answering(op) = {}
      BY <1>1, <1>2 DEF Asked, Answering, Call
    <2> QED
      BY <2>2, FS_EmptySet DEF Outstanding
  <1>6. SpinnerHasCall /\ BusyMatchesCalls
    BY <1>5 DEF Init, SpinnerHasCall, BusyMatchesCalls
  <1> QED
    BY <1>3, <1>4, <1>6 DEF DashboardInv

\* The flags go on being right where they and the numbers stay.
LEMMA FlagsStay ==
    ASSUME DashboardInv, NetInv', PageOK(page'),
           LoadsNoMore(page, page'), KeepsDeleting(page, page'),
           KeepsTruncating(page, page'),
           \A op : Outstanding(op)' = Outstanding(op)
    PROVE  DashboardInv'
  BY DEF DashboardInv, SpinnerHasCall, BusyMatchesCalls, LoadsNoMore, KeepsDeleting,
         KeepsTruncating

LEMMA SamePage ==
    ASSUME DashboardInv, UNCHANGED page
    PROVE  /\ PageOK(page')
           /\ LoadsNoMore(page, page') /\ KeepsDeleting(page, page')
           /\ KeepsTruncating(page, page')
  BY DEF DashboardInv, LoadsNoMore, KeepsDeleting, KeepsTruncating

LEMMA ElsewhereInv ==
    ASSUME DashboardInv, UNCHANGED <<calls, inbox, page>>
    PROVE  DashboardInv'
  <1>1. NetInv'
    BY DEF DashboardInv, NetInv
  <1>2. \A op : Outstanding(op)' = Outstanding(op)
    BY OutstandingIs
  <1> QED
    BY <1>1, <1>2, SamePage, FlagsStay

LEMMA BroadcastInv ==
    ASSUME DashboardInv, UNCHANGED <<calls, page>>,
           NEW i, NEW event \in {"started", "chunk", "completed"}, NEW status, NEW n,
           Broadcast(i, event, status, n)
    PROVE  DashboardInv'
  <1>1. ~IsAnswer(Event(event, i, status, n))
    BY DEF IsAnswer, Event
  <1>2. CASE UNCHANGED inbox
    BY <1>2, ElsewhereInv
  <1>3. CASE inbox' = Append(inbox, Event(event, i, status, n))
    BY <1>1, <1>3, Announcing, SamePage, FlagsStay DEF DashboardInv
  <1> QED
    BY <1>2, <1>3 DEF Broadcast

LEMMA ExchangeInv ==
    ASSUME DashboardInv, NEW i \in Ids, Exchange(i)
    PROVE  DashboardInv'
  <1>1. CASE Add(i) \/ Die(i)
    BY <1>1, ElsewhereInv DEF Add, Die, net
  <1>2. CASE AnnounceStart(i)
    BY <1>2, BroadcastInv DEF AnnounceStart
  <1>3. CASE SendChunk(i)
    BY <1>3, BroadcastInv DEF SendChunk
  <1>4. ASSUME NEW status \in {"Completed", "Failed"}, Finish(i, status)
        PROVE  DashboardInv'
    BY <1>4, ElsewhereInv DEF Finish, net
  <1>5. ASSUME NEW status \in {"Completed", "Failed"}, AnnounceEnd(i, status)
        PROVE  DashboardInv'
    BY <1>5, BroadcastInv DEF AnnounceEnd
  <1> QED
    BY <1>1, <1>2, <1>3, <1>4, <1>5 DEF Exchange

LEMMA ProcessInv ==
    ASSUME DashboardInv, Process
    PROVE  DashboardInv'
  <1>1. PICK k \in DOMAIN calls : Serve(k) \/ Fail(k)
    BY DEF Process
  <1>2. /\ UNCHANGED page
        /\ calls' = RemoveAt(calls, k)
        /\ \E ok, data : inbox' = Append(inbox, Answer(calls[k], ok, data))
    BY <1>1 DEF Serve, Fail
  <1>3. PICK ok, data : inbox' = Append(inbox, Answer(calls[k], ok, data))
    BY <1>2
  <1> QED
    BY <1>2, <1>3, Serving, SamePage, FlagsStay DEF DashboardInv

\* The user's calls: a list has no flag, the others set theirs.
LEMMA ClickRefreshInv ==
    ASSUME DashboardInv, ClickRefresh
    PROVE  DashboardInv'
  <1> DEFINE c == Call("list", None, "user")
  <1>1. CallOK(c) /\ \A op \in {"detail", "delete", "truncate"} : Weight(c, op) = 0
    BY DEF CallOK, Call, Weight
  <1>2. calls' = Append(calls, c) /\ UNCHANGED <<inbox, page>>
    BY DEF ClickRefresh, Fetch
  <1> HIDE DEF c
  <1>3. /\ NetInv'
        /\ \A op : Outstanding(op) \in Nat /\ Outstanding(op)' = Outstanding(op) + Weight(c, op)
    BY <1>1, <1>2, Asking DEF DashboardInv
  <1>4. \A op \in {"detail", "delete", "truncate"} : Outstanding(op)' = Outstanding(op)
    BY <1>1, <1>3
  <1> QED
    BY <1>2, <1>3, <1>4, SamePage
       DEF DashboardInv, SpinnerHasCall, BusyMatchesCalls

LEMMA ClickRequestInv ==
    ASSUME DashboardInv, NEW i \in Ids, ClickRequest(i)
    PROVE  DashboardInv'
  <1> DEFINE c == Call("detail", i, "user")
  <1>1. /\ CallOK(c) /\ Weight(c, "detail") = 1
        /\ Weight(c, "delete") = 0 /\ Weight(c, "truncate") = 0
    BY DEF CallOK, Call, Weight
  <1>2. calls' = Append(calls, c) /\ UNCHANGED inbox /\ page' = OpenDetail(page, i)
    BY DEF ClickRequest, Fetch
  <1> HIDE DEF c
  <1>3. /\ NetInv'
        /\ \A op : Outstanding(op) \in Nat /\ Outstanding(op)' = Outstanding(op) + Weight(c, op)
    BY <1>1, <1>2, Asking DEF DashboardInv
  <1>4. /\ Outstanding("detail")' > 0
        /\ Outstanding("delete")' = Outstanding("delete")
        /\ Outstanding("truncate")' = Outstanding("truncate")
    BY <1>1, <1>3
  <1>5. PageOK(page') /\ KeepsDeleting(page, page') /\ KeepsTruncating(page, page')
    BY <1>2, OpenDetailPage, DashboardAssumption DEF DashboardInv
  <1> QED
    BY <1>3, <1>4, <1>5
       DEF DashboardInv, SpinnerHasCall, BusyMatchesCalls, KeepsDeleting, KeepsTruncating

LEMMA CloseDetailInv ==
    ASSUME DashboardInv, CloseDetail
    PROVE  DashboardInv'
  <1>1. page' = SetOpen(page, FALSE) /\ UNCHANGED <<calls, inbox>>
    BY DEF CloseDetail, net
  <1>2. /\ PageOK(page') /\ LoadsNoMore(page, page')
        /\ KeepsDeleting(page, page') /\ KeepsTruncating(page, page')
    BY <1>1, SetOpenPage DEF DashboardInv, PageOK, LoadsNoMore, KeepsDeleting
  <1>3. NetInv'
    BY <1>1 DEF DashboardInv, NetInv
  <1>4. \A op : Outstanding(op)' = Outstanding(op)
    BY <1>1, OutstandingIs
  <1> QED
    BY <1>2, <1>3, <1>4, FlagsStay

LEMMA ClickDeleteInv ==
    ASSUME DashboardInv, ClickDelete
    PROVE  DashboardInv'
  <1> DEFINE c == Call("delete", page.selectedRequestId, "user")
             r == [page EXCEPT !.isDeletingRequest = TRUE]
  <1>1. /\ CallOK(c) /\ Weight(c, "detail") = 0
        /\ Weight(c, "delete") = 1 /\ Weight(c, "truncate") = 0
    BY DEF CallOK, Call, Weight
  <1>2. /\ calls' = Append(calls, c) /\ UNCHANGED inbox
        /\ page' = RenderDetail(r) /\ page.deleteEnabled
    BY DEF ClickDelete, Fetch
  <1> HIDE DEF c
  <1>3. /\ NetInv'
        /\ \A op : Outstanding(op) \in Nat /\ Outstanding(op)' = Outstanding(op) + Weight(c, op)
    BY <1>1, <1>2, Asking DEF DashboardInv
  <1>4. Outstanding("delete") = 0
    BY <1>2 DEF DashboardInv, PageOK, BusyMatchesCalls
  <1>5. /\ Outstanding("detail")' = Outstanding("detail")
        /\ Outstanding("delete")' = 1
        /\ Outstanding("truncate")' = Outstanding("truncate")
    BY <1>1, <1>3, <1>4
  <1>6. /\ IsPage(r) /\ r.isDeletingRequest /\ LoadsNoMore(page, r)
        /\ r.isRequestDetailOpen => r.selectedRequestId # None
        /\ KeepsTruncating(page, r)
    BY DEF DashboardInv, PageOK, IsPage, LoadsNoMore, KeepsTruncating
  <1> HIDE DEF r
  <1>7. /\ PageOK(page') /\ page'.isDeletingRequest /\ LoadsNoMore(page, page')
        /\ KeepsTruncating(page, page')
    BY <1>2, <1>6, RenderDetailPage DEF LoadsNoMore, KeepsDeleting, KeepsTruncating
  <1> QED
    BY <1>3, <1>5, <1>7
       DEF DashboardInv, SpinnerHasCall, BusyMatchesCalls, LoadsNoMore, KeepsTruncating

LEMMA ClickTruncateInv ==
    ASSUME DashboardInv, ClickTruncate
    PROVE  DashboardInv'
  <1> DEFINE c == Call("truncate", None, "user")
  <1>1. /\ CallOK(c) /\ Weight(c, "detail") = 0
        /\ Weight(c, "delete") = 0 /\ Weight(c, "truncate") = 1
    BY DEF CallOK, Call, Weight
  <1>2. /\ calls' = Append(calls, c) /\ UNCHANGED inbox
        /\ page' = [page EXCEPT !.isTruncatingRequests = TRUE]
        /\ ~page.isTruncatingRequests
    BY DEF ClickTruncate, Fetch
  <1> HIDE DEF c
  <1>3. /\ NetInv'
        /\ \A op : Outstanding(op) \in Nat /\ Outstanding(op)' = Outstanding(op) + Weight(c, op)
    BY <1>1, <1>2, Asking DEF DashboardInv
  <1>4. Outstanding("truncate") = 0
    BY <1>2 DEF DashboardInv, BusyMatchesCalls
  <1>5. /\ Outstanding("detail")' = Outstanding("detail")
        /\ Outstanding("delete")' = Outstanding("delete")
        /\ Outstanding("truncate")' = 1
    BY <1>1, <1>3, <1>4
  <1>6. /\ PageOK(page') /\ page'.isTruncatingRequests /\ LoadsNoMore(page, page')
        /\ KeepsDeleting(page, page')
    BY <1>2 DEF DashboardInv, PageOK, IsPage, LoadsNoMore, KeepsDeleting
  <1> QED
    BY <1>3, <1>5, <1>6
       DEF DashboardInv, SpinnerHasCall, BusyMatchesCalls, LoadsNoMore, KeepsDeleting

\* What initialize does after an answer: it has done, or makes its next call,
\* which is a detail if it says that a detail is loading.
LEMMA ContinueCases ==
    ASSUME NEW m, CallOK(m.call), NEW p, Continue(m, p)
    PROVE  \/ page' = p /\ UNCHANGED calls
           \/ \E c : /\ CallOK(c) /\ c.op \notin {"delete", "truncate"}
                     /\ calls' = Append(calls, c)
                     /\ page' = p \/ (page' = BeginDetail(p) /\ c.op = "detail")
  <1>1. CASE m.call.from = "user" \/ m.call.op = "detail" \/ ~m.ok
    BY <1>1 DEF Continue, Wire
  <1>2. CASE m.call.from # "user" /\ m.ok /\ m.call.op \in {"config", "list"}
    <2>1. PICK op \in {"list", "configs"} : BootCall(p, op, None)
      BY <1>2 DEF Continue
    <2>2. CallOK(Call(op, None, "boot")) /\ Call(op, None, "boot").op \notin {"delete", "truncate"}
      BY DEF CallOK, Call
    <2> QED
      BY <2>1, <2>2 DEF BootCall
  <1>3. CASE m.call.from # "user" /\ m.ok /\ m.call.op = "configs"
    <2>1. BootDetail(p)
      BY <1>3 DEF Continue
    <2> DEFINE c == Call("detail", p.selectedRequestId, "boot")
    <2>2. CallOK(c) /\ c.op = "detail"
      BY DEF CallOK, Call
    <2>3. \/ page' = p /\ UNCHANGED calls
          \/ calls' = Append(calls, c) /\ page' = BeginDetail(p)
      BY <2>1 DEF BootDetail, Wire, BootCall
    <2> HIDE DEF c
    <2> QED
      BY <2>2, <2>3
  <1> QED
    BY <1>1, <1>2, <1>3 DEF CallOK

\* An answer taken and perhaps a call made: the flags still tell the calls.
LEMMA AnswerFlags ==
    ASSUME DashboardInv, NEW k \in DOMAIN inbox, IsAnswer(inbox[k]),
           inbox' = RemoveAt(inbox, k),
           Continue(inbox[k], Answered(page, inbox[k]))
    PROVE  DashboardInv'
  <1> DEFINE m == inbox[k]
             q == Answered(page, m)
  <1>1. CallOK(m.call)
    BY MessageTaken DEF DashboardInv, NetInv
  <1>2. /\ PageOK(q)
        /\ LoadsNoMore(page, q)
        /\ m.call.op = "detail" => ~q.isRequestDetailLoading
        /\ IF m.call.op = "delete" THEN ~q.isDeletingRequest ELSE KeepsDeleting(page, q)
        /\ IF m.call.op = "truncate" THEN ~q.isTruncatingRequests
                                    ELSE KeepsTruncating(page, q)
    BY AnsweredPage DEF DashboardInv
  <1>3. Continue(m, q)
    OBVIOUS
  <1>4. \A op : AnswerWeight(m, op) = IF m.call.op = op THEN 1 ELSE 0
    BY DEF AnswerWeight
  <1> HIDE DEF q
  <1>5. CASE page' = q /\ UNCHANGED calls
    <2>1. /\ NetInv'
          /\ \A op : /\ Outstanding(op) \in Nat /\ Outstanding(op)' \in Nat
                     /\ Outstanding(op)' = Outstanding(op) - AnswerWeight(m, op)
      BY <1>5, Taking DEF DashboardInv
    <2> HIDE DEF m
    <2>2. SpinnerHasCall'
      BY <1>2, <1>4, <1>5, <2>1 DEF DashboardInv, SpinnerHasCall, LoadsNoMore
    <2>3. BusyMatchesCalls'
      BY <1>2, <1>4, <1>5, <2>1 DEF DashboardInv, BusyMatchesCalls, KeepsDeleting, KeepsTruncating
    <2> QED
      BY <1>2, <1>5, <2>1, <2>2, <2>3 DEF DashboardInv
  <1>6. ASSUME NEW c, CallOK(c), c.op \notin {"delete", "truncate"},
               calls' = Append(calls, c),
               page' = q \/ (page' = BeginDetail(q) /\ c.op = "detail")
        PROVE  DashboardInv'
    <2>1. /\ NetInv'
          /\ \A op : /\ Outstanding(op) \in Nat
                     /\ Outstanding(op) - AnswerWeight(m, op) \in Nat
                     /\ Outstanding(op)' = (Outstanding(op) - AnswerWeight(m, op)) + Weight(c, op)
      BY <1>6, TakingAndAsking DEF DashboardInv
    <2>2. /\ Weight(c, "delete") = 0 /\ Weight(c, "truncate") = 0
          /\ Weight(c, "detail") \in {0, 1}
          /\ c.op = "detail" => Weight(c, "detail") = 1
      BY <1>6 DEF Weight
    <2>3. /\ PageOK(page') /\ KeepsDeleting(q, page') /\ KeepsTruncating(q, page')
          /\ LoadsNoMore(q, page') \/ c.op = "detail"
      BY <1>2, <1>6, BeginDetailPage DEF PageOK, LoadsNoMore, KeepsDeleting, KeepsTruncating
    <2> HIDE DEF m
    <2>4. SpinnerHasCall'
      BY <1>2, <1>4, <2>1, <2>2, <2>3 DEF DashboardInv, SpinnerHasCall, LoadsNoMore
    <2>5. BusyMatchesCalls'
      BY <1>2, <1>4, <2>1, <2>2, <2>3
         DEF DashboardInv, BusyMatchesCalls, KeepsDeleting, KeepsTruncating
    <2> QED
      BY <2>1, <2>3, <2>4, <2>5 DEF DashboardInv
  <1> HIDE DEF m
  <1>7. \/ page' = q /\ UNCHANGED calls
        \/ \E c : /\ CallOK(c) /\ c.op \notin {"delete", "truncate"}
                  /\ calls' = Append(calls, c)
                  /\ page' = q \/ (page' = BeginDetail(q) /\ c.op = "detail")
    BY <1>1, <1>3, ContinueCases
  <1> QED
    BY <1>5, <1>6, <1>7

\* An event taken that makes no call.
LEMMA EventInv ==
    ASSUME DashboardInv, NEW k \in DOMAIN inbox, ~IsAnswer(inbox[k]),
           inbox' = RemoveAt(inbox, k), UNCHANGED calls,
           PageOK(page'), LoadsNoMore(page, page'), KeepsDeleting(page, page'),
           KeepsTruncating(page, page')
    PROVE  DashboardInv'
  <1>1. /\ NetInv'
        /\ \A op : /\ Outstanding(op) \in Nat
                   /\ Outstanding(op)' = Outstanding(op) - AnswerWeight(inbox[k], op)
    BY Taking DEF DashboardInv
  <1>2. \A op : AnswerWeight(inbox[k], op) = 0
    BY DEF AnswerWeight
  <1>3. \A op : Outstanding(op)' = Outstanding(op)
    BY <1>1, <1>2
  <1> QED
    BY <1>1, <1>3, FlagsStay

LEMMA CompletedInv ==
    ASSUME DashboardInv, NEW k \in DOMAIN inbox, ReceiveCompleted(k)
    PROVE  DashboardInv'
  <1> DEFINE id == inbox[k].id
             c == Call("detail", id, "user")
  <1>1. /\ ~IsAnswer(inbox[k])
        /\ inbox' = RemoveAt(inbox, k)
        /\ page' = Completed(page, id, inbox[k].status)
        /\ calls' = IF id = page.selectedRequestId THEN Append(calls, c) ELSE calls
    BY DEF ReceiveCompleted, IsAnswer
  <1>2. /\ CallOK(c) /\ Weight(c, "detail") = 1
        /\ Weight(c, "delete") = 0 /\ Weight(c, "truncate") = 0
    BY DEF CallOK, Call, Weight
  <1>3. /\ PageOK(page') /\ (id # page.selectedRequestId => LoadsNoMore(page, page'))
        /\ KeepsDeleting(page, page') /\ KeepsTruncating(page, page')
    BY <1>1, CompletedPage DEF DashboardInv
  <1> HIDE DEF id, c
  <1>4. CASE id = page.selectedRequestId
    <2>1. /\ NetInv'
          /\ \A op : /\ Outstanding(op) \in Nat
                     /\ Outstanding(op)' = (Outstanding(op) - AnswerWeight(inbox[k], op))
                                             + Weight(c, op)
      BY <1>1, <1>2, <1>4, TakingAndAsking DEF DashboardInv
    <2>2. \A op : AnswerWeight(inbox[k], op) = 0
      BY <1>1 DEF AnswerWeight
    <2>3. /\ Outstanding("detail")' > 0
          /\ Outstanding("delete")' = Outstanding("delete")
          /\ Outstanding("truncate")' = Outstanding("truncate")
      BY <1>2, <2>1, <2>2
    <2> QED
      BY <1>3, <2>1, <2>3
         DEF DashboardInv, SpinnerHasCall, BusyMatchesCalls, KeepsDeleting, KeepsTruncating
  <1>5. CASE id # page.selectedRequestId
    BY <1>1, <1>3, <1>5, EventInv
  <1> QED
    BY <1>4, <1>5

LEMMA ReceiveInv ==
    ASSUME DashboardInv, Receive
    PROVE  DashboardInv'
  <1>1. PICK k \in DOMAIN inbox :
            ReceiveAnswer(k) \/ ReceiveStarted(k) \/ ReceiveChunk(k) \/ ReceiveCompleted(k)
    BY DEF Receive
  <1>2. CASE ReceiveAnswer(k)
    BY <1>2, AnswerFlags DEF ReceiveAnswer
  <1>3. CASE ReceiveStarted(k)
    BY <1>3, StartedPage, EventInv DEF ReceiveStarted, IsAnswer, DashboardInv
  <1>4. CASE ReceiveChunk(k)
    BY <1>4, ChunkPage, EventInv DEF ReceiveChunk, IsAnswer, DashboardInv
  <1>5. CASE ReceiveCompleted(k)
    BY <1>5, CompletedInv
  <1> QED
    BY <1>1, <1>2, <1>3, <1>4, <1>5

LEMMA LoseInv ==
    ASSUME DashboardInv, NEW k \in DOMAIN inbox, Lose(k)
    PROVE  DashboardInv'
  BY SamePage, EventInv DEF Lose

LEMMA NextInv ==
    ASSUME DashboardInv, [Next]_vars
    PROVE  DashboardInv'
  <1>1. CASE UNCHANGED vars
    BY <1>1, ElsewhereInv DEF vars, net
  <1>2. ASSUME NEW i \in Ids, Exchange(i)
        PROVE  DashboardInv'
    BY <1>2, ExchangeInv
  <1>3. ASSUME NEW i \in Ids, DeletedElsewhere(i)
        PROVE  DashboardInv'
    BY <1>3, ElsewhereInv DEF DeletedElsewhere, net
  <1>4. CASE Process
    BY <1>4, ProcessInv
  <1>5. CASE Receive
    BY <1>5, ReceiveInv
  <1>6. CASE User
    BY <1>6, ClickRefreshInv, CloseDetailInv, ClickDeleteInv, ClickTruncateInv,
       ClickRequestInv DEF User
  <1>7. CASE Connect \/ GiveUpConnecting \/ Disconnect
    BY <1>7, ElsewhereInv DEF Connect, GiveUpConnecting, Disconnect, net
  <1>8. ASSUME NEW k \in DOMAIN inbox, Lose(k)
        PROVE  DashboardInv'
    BY <1>8, LoseInv
  <1> QED
    BY <1>1, <1>2, <1>3, <1>4, <1>5, <1>6, <1>7, <1>8 DEF Next

-----------------------------------------------------------------------------
(* The theorems.                                                           *)

LEMMA InvariantHolds == Spec => []DashboardInv
  <1>1. Init => DashboardInv
    BY InitInv
  <1>2. DashboardInv /\ [Next]_vars => DashboardInv'
    BY NextInv
  <1> QED
    BY <1>1, <1>2, PTL DEF Spec

\* No list, deletion, truncation or click ever leaves the modal open over no
\* request, however their answers are ordered.
THEOREM ModalOverSelection == Spec => []ModalHasSelection
  <1>1. DashboardInv => ModalHasSelection
    BY DEF DashboardInv, PageOK, ModalHasSelection
  <1> QED
    BY <1>1, InvariantHolds, PTL

\* A detail that is said to be loading is asked for: no event, answer or failure
\* leaves the loading state behind.
THEOREM SpinnerTellsTruth == Spec => []SpinnerHasCall
  <1>1. DashboardInv => SpinnerHasCall
    BY DEF DashboardInv
  <1> QED
    BY <1>1, InvariantHolds, PTL

\* At most one deletion and one truncation are under way, and the flags that
\* disable their buttons say which, for any number of clicks, events and faults.
THEOREM OneOfEach == Spec => []BusyMatchesCalls
  <1>1. DashboardInv => BusyMatchesCalls
    BY DEF DashboardInv
  <1> QED
    BY <1>1, InvariantHolds, PTL
=============================================================================
