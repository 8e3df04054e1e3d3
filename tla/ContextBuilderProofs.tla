------------------------ MODULE ContextBuilderProofs ------------------------
(***************************************************************************)
(* For any limit, lengths, iterations and tool results: the context keeps  *)
(* the pinned entries and the newest others, evicts exactly what it must,  *)
(* and the feedback of a failed verification reaches the next prompt when  *)
(* it can fit.                                                             *)
(***************************************************************************)
EXTENDS ContextBuilder, NaturalsInduction, WellFoundedInduction, TLAPS

-----------------------------------------------------------------------------
(* Sums.  Induction is by the least counterexample.                        *)

StrictLess == {pair \in Nat \X Nat : pair[1] < pair[2]}

LEMMA StrictLessWellFounded == IsWellFoundedOn(StrictLess, Nat)
<1>1. OpToRel(<, Nat) = StrictLess
  BY Zenon DEF OpToRel, StrictLess
<1> QED BY <1>1, NatLessThanWellFounded, Zenon

LEMMA LeastNatural ==
  ASSUME NEW S, S \subseteq Nat, S # {}
  PROVE  \E n \in S : \A m \in S : n =< m
<1>1. PICK n \in S : \A m \in S : ~(<<m, n>> \in StrictLess)
  BY WFMin, StrictLessWellFounded, Zenon
<1>2. ASSUME NEW m \in S, m < n PROVE FALSE
  <2>1. <<m, n>> \in StrictLess
    BY <1>2 DEF StrictLess
  <2> QED BY <1>1, <2>1
<1> QED BY <1>2

\* p[i] is the sum of the first i of w.
Adds(w, p) ==
  /\ p \in [0..Len(w) -> Nat] /\ p[0] = 0
  /\ \A i \in 1..Len(w) : p[i] = p[i - 1] + w[i]

Recurs(w, f) == f = [i \in 0..Len(w) |-> IF i = 0 THEN 0 ELSE f[i - 1] + w[i]]

LEMMA AddsRecurs == ASSUME NEW w \in Seq(Nat), NEW p, Adds(w, p) PROVE Recurs(w, p)
<1> DEFINE g == [i \in 0..Len(w) |-> IF i = 0 THEN 0 ELSE p[i - 1] + w[i]]
<1>1. \A i \in 0..Len(w) : p[i] = g[i]
  <2> SUFFICES ASSUME NEW i \in 0..Len(w) PROVE p[i] = g[i]
    OBVIOUS
  <2>1. CASE i = 0
    BY <2>1 DEF Adds
  <2>2. CASE i # 0
    <3>1. i \in 1..Len(w)
      BY <2>2
    <3> QED
      BY <2>2, <3>1 DEF Adds
  <2> QED
    BY <2>1, <2>2
<1>2. p = [i \in 0..Len(w) |-> p[i]] /\ g = [i \in 0..Len(w) |-> g[i]]
  BY DEF Adds
<1> HIDE DEF g
<1>3. p = g
  BY <1>1, <1>2
<1> QED
  BY <1>3 DEF Recurs, g

\* The function that SumOf defines does what its definition says, if any does.
LEMMA SumRecurs ==
  ASSUME NEW w, NEW p, Recurs(w, p)
  PROVE  \E f : Recurs(w, f) /\ SumOf(w) = f[Len(w)]
<1> DEFINE f == CHOOSE f : f = [i \in 0..Len(w) |-> IF i = 0 THEN 0 ELSE f[i - 1] + w[i]]
<1>1. SumOf(w) = f[Len(w)]
  BY DEF SumOf
<1>2. f = [i \in 0..Len(w) |-> IF i = 0 THEN 0 ELSE f[i - 1] + w[i]]
  BY Zenon DEF Recurs
<1> HIDE DEF f
<1> QED
  BY <1>1, <1>2 DEF Recurs

\* It is the only one.
LEMMA OnlySum ==
  ASSUME NEW w \in Seq(Nat), NEW p, Adds(w, p), NEW f, Recurs(w, f)
  PROVE  f[Len(w)] = p[Len(w)]
<1> DEFINE S == {i \in 0..Len(w) : f[i] # p[i]}
<1>1. Len(w) \in Nat
  OBVIOUS
<1>2. f[0] = p[0]
  <2>1. 0 \in 0..Len(w)
    BY <1>1
  <2> QED
    BY <2>1 DEF Recurs, Adds
<1>3. \A i \in 1..Len(w) : f[i] = f[i - 1] + w[i]
  BY SMTT(30), <1>1 DEF Recurs
<1>4. SUFFICES ASSUME S # {} PROVE FALSE
  BY <1>1
<1>5. PICK i \in S : \A j \in S : i =< j
  <2>1. S \subseteq Nat
    BY <1>1
  <2> QED
    BY <1>4, <2>1, LeastNatural
<1>6. i \in 1..Len(w) /\ i - 1 \in 0..Len(w) /\ i - 1 < i
  BY <1>1, <1>2, <1>5
<1>7. f[i - 1] = p[i - 1]
  BY <1>5, <1>6
<1> QED
  BY <1>3, <1>5, <1>6, <1>7 DEF Adds

LEMMA SumIs ==
  ASSUME NEW w \in Seq(Nat), NEW p, Adds(w, p)
  PROVE  SumOf(w) = p[Len(w)]
BY AddsRecurs, SumRecurs, OnlySum

\* Every sequence of naturals has partial sums.
HasSums(w, n) ==
  \E p \in [0..n -> Nat] : p[0] = 0 /\ \A i \in 1..n : p[i] = p[i - 1] + w[i]

LEMMA SumsExist == ASSUME NEW w \in Seq(Nat) PROVE \E p : Adds(w, p)
<1> DEFINE S == {n \in 0..Len(w) : ~HasSums(w, n)}
<1>1. Len(w) \in Nat
  OBVIOUS
<1>2. HasSums(w, 0)
  <2> DEFINE p == [i \in 0..0 |-> 0]
  <2>1. p \in [0..0 -> Nat] /\ p[0] = 0 /\ 1..0 = {}
    OBVIOUS
  <2> QED
    BY <2>1 DEF HasSums
<1>3. SUFFICES S = {}
  <2>1. HasSums(w, Len(w))
    BY <1>1, <1>3
  <2> QED
    BY <2>1 DEF HasSums, Adds
<1>4. SUFFICES ASSUME S # {} PROVE FALSE
  OBVIOUS
<1>5. PICK n \in S : \A m \in S : n =< m
  <2>1. S \subseteq Nat
    BY <1>1
  <2> QED
    BY <1>4, <2>1, LeastNatural
<1>6. n \in 1..Len(w) /\ n - 1 \in 0..Len(w) /\ n - 1 < n /\ n \in Nat /\ n - 1 \in Nat
  BY <1>1, <1>2, <1>5
<1>7. HasSums(w, n - 1)
  BY <1>5, <1>6
<1>8. PICK p \in [0..(n - 1) -> Nat] : p[0] = 0 /\ \A i \in 1..(n - 1) : p[i] = p[i - 1] + w[i]
  BY <1>7 DEF HasSums
<1> DEFINE q == [i \in 0..n |-> IF i = n THEN p[n - 1] + w[n] ELSE p[i]]
<1>9. q \in [0..n -> Nat]
  <2>1. p[n - 1] \in Nat /\ w[n] \in Nat
    BY <1>6, <1>8
  <2>2. \A i \in 0..n : i # n => p[i] \in Nat
    BY <1>6, <1>8
  <2> QED
    BY <2>1, <2>2
<1>10. q[0] = 0
  BY <1>6, <1>8
<1>11. \A i \in 1..n : q[i] = q[i - 1] + w[i]
  <2> SUFFICES ASSUME NEW i \in 1..n PROVE q[i] = q[i - 1] + w[i]
    OBVIOUS
  <2>1. q[i - 1] = p[i - 1]
    BY <1>6
  <2>2. CASE i = n
    BY <1>6, <2>1, <2>2
  <2>3. CASE i # n
    <3>1. i \in 1..(n - 1) /\ q[i] = p[i]
      BY <1>6, <2>3
    <3> QED
      BY <1>8, <2>1, <3>1
  <2> QED
    BY <2>2, <2>3
<1>12. HasSums(w, n)
  BY <1>9, <1>10, <1>11 DEF HasSums
<1> QED
  BY <1>5, <1>12

LEMMA SumIsNatural == ASSUME NEW w \in Seq(Nat) PROVE SumOf(w) \in Nat
<1>1. PICK p : Adds(w, p)
  BY SumsExist
<1>2. p[Len(w)] \in Nat
  BY <1>1 DEF Adds
<1> QED
  BY <1>1, <1>2, SumIs

LEMMA SumOfNone == SumOf(<<>>) = 0
<1>1. <<>> \in Seq(Nat) /\ Len(<<>>) = 0
  OBVIOUS
<1>2. PICK p : Adds(<<>>, p)
  BY <1>1, SumsExist
<1> QED
  BY <1>1, <1>2, SumIs DEF Adds

LEMMA SumOfAppend ==
  ASSUME NEW w \in Seq(Nat), NEW x \in Nat
  PROVE  SumOf(Append(w, x)) = SumOf(w) + x
<1> DEFINE v == Append(w, x)
           n == Len(w) + 1
<1>0. v \in Seq(Nat)
  OBVIOUS
<1>1. PICK p : Adds(v, p)
  BY <1>0, SumsExist
<1>2. /\ v \in Seq(Nat) /\ Len(v) = n /\ n \in Nat /\ Len(w) \in Nat /\ v[n] = x
      /\ \A i \in 1..Len(w) : v[i] = w[i]
  OBVIOUS
<1> DEFINE q == [i \in 0..Len(w) |-> p[i]]
<1>3. Adds(w, q)
  BY <1>1, <1>2 DEF Adds
<1>4. p[n] = p[n - 1] + x /\ n - 1 = Len(w) /\ q[Len(w)] = p[Len(w)]
  BY <1>1, <1>2 DEF Adds
<1>5. SumOf(v) = p[n] /\ SumOf(w) = q[Len(w)]
  BY <1>1, <1>2, <1>3, SumIs
<1> QED
  BY <1>4, <1>5

\* RemoveAt moves what is behind the position one forward.
LEMMA Removed ==
  ASSUME NEW S, NEW s \in Seq(S), NEW k \in 1..Len(s)
  PROVE  /\ RemoveAt(s, k) \in Seq(S) /\ Len(RemoveAt(s, k)) = Len(s) - 1
         /\ DOMAIN RemoveAt(s, k) = 1..(Len(s) - 1)
         /\ \A i \in 1..(Len(s) - 1) :
              RemoveAt(s, k)[i] = IF i < k THEN s[i] ELSE s[i + 1]
<1> DEFINE a == SubSeq(s, 1, k - 1)
           b == SubSeq(s, k + 1, Len(s))
<1>1. /\ Len(s) \in Nat /\ k \in Nat
      /\ a \in Seq(S) /\ Len(a) = k - 1 /\ b \in Seq(S) /\ Len(b) = Len(s) - k
  OBVIOUS
<1>2. RemoveAt(s, k) = a \o b
  BY DEF RemoveAt
<1>3. \A i \in 1..(k - 1) : a[i] = s[i]
  OBVIOUS
<1>4. \A i \in 1..(Len(s) - k) : b[i] = s[k + i]
  BY <1>1
<1> HIDE DEF a, b
<1>5. a \o b \in Seq(S) /\ Len(a \o b) = Len(s) - 1 /\ DOMAIN (a \o b) = 1..(Len(s) - 1)
  BY <1>1, SMTT(30)
<1>6. ASSUME NEW i \in 1..(Len(s) - 1)
      PROVE  (a \o b)[i] = IF i < k THEN s[i] ELSE s[i + 1]
  <2>1. CASE i < k
    BY <1>1, <1>3, <2>1
  <2>2. CASE ~(i < k)
    <3>1. i - (k - 1) \in 1..(Len(s) - k) /\ k + (i - (k - 1)) = i + 1
      BY <1>1, <2>2
    <3>2. (a \o b)[i] = b[i - (k - 1)]
      BY <1>1, <2>2
    <3> QED
      BY <1>4, <2>2, <3>1, <3>2
  <2> QED
    BY <2>1, <2>2
<1> QED
  BY <1>2, <1>5, <1>6

LEMMA Regroup == \A a, b, c \in Nat : (a - b) + c = (a + c) - b
OBVIOUS

LEMMA SumOfRemoved ==
  ASSUME NEW w \in Seq(Nat), NEW k \in 1..Len(w)
  PROVE  SumOf(RemoveAt(w, k)) = SumOf(w) - w[k] /\ SumOf(RemoveAt(w, k)) \in Nat
<1> DEFINE v == RemoveAt(w, k)
           n == Len(w) - 1
<1>1. PICK p : Adds(w, p)
  BY SumsExist
<1>2. PICK q : Adds(v, q)
  BY Removed, SumsExist
<1>3. /\ v \in Seq(Nat) /\ Len(v) = n /\ n \in Nat /\ Len(w) \in Nat /\ k \in Nat
      /\ \A i \in 1..n : v[i] = IF i < k THEN w[i] ELSE w[i + 1]
  BY Removed
<1> HIDE DEF v, n
<1>4. n = Len(w) - 1
  BY DEF n
<1> DEFINE Off == {i \in 0..n : q[i] # IF i < k THEN p[i] ELSE p[i + 1] - w[k]}
<1>5. p[k] = p[k - 1] + w[k] /\ p \in [0..Len(w) -> Nat] /\ q \in [0..n -> Nat] /\ w[k] \in Nat
  BY <1>1, <1>2, <1>3 DEF Adds
<1>6. Off = {}
  <2>1. SUFFICES ASSUME Off # {} PROVE FALSE
    OBVIOUS
  <2>2. PICK i \in Off : \A j \in Off : i =< j
    <3>1. Off \subseteq Nat
      BY <1>3
    <3> QED
      BY <2>1, <3>1, LeastNatural
  <2>3. i \in 1..n /\ i - 1 \in 0..n /\ i - 1 < i
    BY <1>1, <1>2, <1>3, <2>2 DEF Adds
  <2>4. q[i - 1] = IF i - 1 < k THEN p[i - 1] ELSE p[i] - w[k]
    <3>1. i - 1 \notin Off
      BY <2>2, <2>3
    <3> QED
      BY <2>3, <3>1
  <2>5. q[i] = q[i - 1] + v[i]
    BY <1>2, <1>3, <2>3 DEF Adds
  <2>6. p[i] = p[i - 1] + w[i] /\ p[i + 1] = p[i] + w[i + 1]
    <3>1. i \in 1..Len(w) /\ i + 1 \in 1..Len(w) /\ (i + 1) - 1 = i
      BY <1>3, <1>4, <2>3
    <3> QED
      BY <1>1, <3>1 DEF Adds
  <2>7. /\ p[i] \in Nat /\ p[i - 1] \in Nat /\ p[i + 1] \in Nat /\ w[i] \in Nat
        /\ w[i + 1] \in Nat
    <3>1. /\ i \in 1..Len(w) /\ i + 1 \in 1..Len(w)
          /\ i \in 0..Len(w) /\ i - 1 \in 0..Len(w) /\ i + 1 \in 0..Len(w)
      BY <1>3, <1>4, <2>3
    <3>2. p[i] \in Nat /\ p[i - 1] \in Nat /\ p[i + 1] \in Nat
      BY <1>5, <3>1
    <3>3. w[i] \in Nat /\ w[i + 1] \in Nat
      BY <3>1
    <3> QED
      BY <3>2, <3>3
  <2>8. q[i] = IF i < k THEN p[i] ELSE p[i + 1] - w[k]
    <3>1. CASE i < k
      <4>1. q[i - 1] = p[i - 1] /\ v[i] = w[i]
        BY <1>3, <2>3, <2>4, <3>1
      <4> QED
        BY <2>5, <2>6, <3>1, <4>1
    <3>2. CASE i >= k
      <4>1. v[i] = w[i + 1] /\ q[i - 1] = p[i] - w[k]
        <5>1. v[i] = w[i + 1]
          BY <1>3, <2>3, <3>2
        <5>2. CASE i = k
          BY SMTT(30), <1>5, <2>3, <2>4, <2>7, <5>1, <5>2
        <5>3. CASE i # k
          BY <1>3, <2>3, <2>4, <3>2, <5>1, <5>3
        <5> QED
          BY <5>1, <5>2, <5>3
      <4> QED
        <5>1. ~(i < k)
          BY <1>3, <2>3, <3>2
        <5>2. q[i] = (p[i] - w[k]) + w[i + 1] /\ p[i + 1] - w[k] = (p[i] + w[i + 1]) - w[k]
          BY <2>5, <2>6, <4>1
        <5>3. (p[i] - w[k]) + w[i + 1] = (p[i] + w[i + 1]) - w[k]
          <6>1. p[i] \in Nat /\ w[k] \in Nat /\ w[i + 1] \in Nat
            BY <1>5, <2>7
          <6> HIDE DEF Off
          <6> QED
            BY <6>1, Regroup, Zenon
        <5> QED
          BY <5>1, <5>2, <5>3
    <3> QED
      BY <1>3, <2>3, <3>1, <3>2
  <2> QED
    BY <2>2, <2>8
<1>7. q[n] = p[Len(w)] - w[k]
  <2>1. n \in 0..n /\ n + 1 = Len(w)
    BY <1>3, <1>4
  <2>2. q[n] = IF n < k THEN p[n] ELSE p[n + 1] - w[k]
    BY <1>6, <2>1
  <2>3. CASE n < k
    <3>1. k = Len(w) /\ n = k - 1 /\ k - 1 \in 0..Len(w)
      BY <1>3, <1>4, <2>3
    <3>2. p[k - 1] \in Nat /\ q[n] = p[k - 1]
      BY <1>5, <2>2, <2>3, <3>1
    <3> QED
      BY <1>5, <3>1, <3>2
  <2>4. CASE ~(n < k)
    BY <2>1, <2>2, <2>4
  <2> QED
    BY <2>3, <2>4
<1>8. SumOf(w) = p[Len(w)] /\ SumOf(v) = q[n]
  BY <1>1, <1>2, <1>3, SumIs
<1> QED
  BY <1>3, <1>5, <1>7, <1>8 DEF v

-----------------------------------------------------------------------------
(* The inductive invariant.                                                *)

Increasing(s) == \A i, j \in DOMAIN s : i < j => s[i].n < s[j].n

\* What is left of a when the unpinned entries up to cut are evicted.
Kept(a, cut) == {a[n] : n \in {m \in DOMAIN a : Pinned(a[m]) \/ m > cut}}

EntriesInv ==
  /\ \A m \in DOMAIN added : added[m].n = m
  /\ Increasing(entries)
  /\ \E cut \in 0..Len(added) : Range(entries) = Kept(added, cut)

TotalInv == total = SumOf(TokensOf(entries))

Evicted == {i \in DOMAIN added : added[i] \notin Range(entries)}

\* The newest evicted entry would not fit.
NoMoreInv ==
  \A i \in Evicted : (\A j \in Evicted : j =< i) => total + added[i].tokens > limit

\* The loop of evictIfNeeded ran to its end.
FitsInv == at # "evict" => total =< limit \/ Unpinned = {}

\* Between a failed verification and the next request its feedback is what was
\* added last.
LastIsFeedback ==
  /\ added # <<>>
  /\ added[Len(added)].label = "test_feedback" /\ added[Len(added)].iter = iter

FeedbackInv ==
  /\ at \in {"spec", "plan", "agents"} => iter = 0
  /\ at = "evict" /\ back \in {"plan", "agents"} => iter = 0
  /\ at = "request" \/ (at = "evict" /\ back = "request") => iter = 0 \/ LastIsFeedback
  /\ FeedbackSurvivesIfItFits

BInv == EntriesInv /\ TotalInv /\ NoMoreInv /\ FitsInv

-----------------------------------------------------------------------------
(* Types.                                                                  *)

LEMMA TokensNatural == \A length \in Nat : Tokens(length) \in Nat
BY DEF Tokens

\* The entry that Add appends.
NewEntry(e, label) ==
  /\ e \in Entry /\ e.label = label /\ e.n = Len(added) + 1 /\ e.iter = iter
  /\ entries' = Append(entries, e) /\ total' = total + e.tokens
  /\ added' = Append(added, e) /\ at' = "evict"

LEMMA AddAppends ==
  ASSUME TypeOK, NEW label \in Labels, NEW next, Add(label, next)
  PROVE  \E e : NewEntry(e, label) /\ back' = next
<1>1. PICK length \in Lengths :
        LET e == [label |-> label, tokens |-> Tokens(length),
                  n |-> Len(added) + 1, iter |-> iter]
        IN  /\ entries' = Append(entries, e)
            /\ total' = total + e.tokens
            /\ added' = Append(added, e)
            /\ at' = "evict" /\ back' = next
  BY DEF Add
<1>2. Tokens(length) \in Nat /\ Len(added) + 1 \in Nat /\ iter \in Nat
  BY ContextBuilderAssumption, TokensNatural DEF TypeOK
<1>3. PICK e : e = [label |-> label, tokens |-> Tokens(length),
                    n |-> Len(added) + 1, iter |-> iter]
  OBVIOUS
<1>4. e \in Entry /\ e.label = label /\ e.n = Len(added) + 1 /\ e.iter = iter
  BY <1>2, <1>3 DEF Entry
<1> QED
  BY <1>1, <1>3, <1>4 DEF NewEntry

\* Which action adds, and where it goes then.
LEMMA Adding ==
  ASSUME TypeOK, AddSpec \/ AddPlan \/ AddAgents \/ AddResult \/ AddFeedback
  PROVE  \E label \in Labels : \E e : NewEntry(e, label)
<1>1. ASSUME NEW label \in Labels, NEW next, Add(label, next)
      PROVE  \E e : NewEntry(e, label)
  BY <1>1, AddAppends
<1>2. {"spec", "plan", "agents_instructions", "tool", "test_feedback"} \subseteq Labels
  BY DEF Labels
<1> QED
  BY <1>1, <1>2 DEF AddSpec, AddPlan, AddAgents, AddResult, AddFeedback

\* The oldest unpinned entry is the first of those there are.
LEMMA OldestIsFirst ==
  ASSUME TypeOK, Unpinned # {}
  PROVE  /\ oldestUnpinnedIdx \in Unpinned
         /\ \A j \in Unpinned : oldestUnpinnedIdx =< j
<1>1. Unpinned \subseteq Nat
  BY DEF Unpinned, TypeOK
<1>2. \E i \in Unpinned : \A j \in Unpinned : i =< j
  BY <1>1, LeastNatural
<1> QED
  BY <1>2 DEF oldestUnpinnedIdx

LEMMA SameNaturals ==
  ASSUME NEW a \in Seq(Nat), NEW b \in Seq(Nat), NEW n, Len(a) = n, Len(b) = n,
         \A i \in 1..n : a[i] = b[i]
  PROVE  a = b
OBVIOUS

LEMMA TokensOfNatural ==
  ASSUME NEW s \in Seq(Entry)
  PROVE  /\ TokensOf(s) \in Seq(Nat) /\ Len(TokensOf(s)) = Len(s)
         /\ DOMAIN TokensOf(s) = 1..Len(s)
         /\ \A i \in 1..Len(s) : TokensOf(s)[i] = s[i].tokens
<1>1. \A i \in 1..Len(s) : s[i].tokens \in Nat
  <2> SUFFICES ASSUME NEW i \in 1..Len(s) PROVE s[i].tokens \in Nat
    OBVIOUS
  <2>1. s[i] \in Entry
    OBVIOUS
  <2> QED
    BY <2>1 DEF Entry
<1> QED
  BY <1>1 DEF TokensOf

LEMMA TokensOfAppend ==
  ASSUME NEW s \in Seq(Entry), NEW e \in Entry
  PROVE  TokensOf(Append(s, e)) = Append(TokensOf(s), e.tokens)
<1>1. e.tokens \in Nat /\ Append(s, e) \in Seq(Entry) /\ Len(s) \in Nat
  BY DEF Entry
<1> DEFINE a == TokensOf(Append(s, e))
           b == Append(TokensOf(s), e.tokens)
           t == Append(s, e)
           w == TokensOf(s)
<1>2. /\ t \in Seq(Entry) /\ Len(t) = Len(s) + 1 /\ t[Len(s) + 1] = e
      /\ \A i \in 1..Len(s) : t[i] = s[i]
  OBVIOUS
<1>3. w \in Seq(Nat) /\ Len(w) = Len(s) /\ \A i \in 1..Len(s) : w[i] = s[i].tokens
  BY TokensOfNatural
<1> HIDE DEF t, w
<1>4. a \in Seq(Nat) /\ Len(a) = Len(s) + 1 /\ \A i \in 1..(Len(s) + 1) : a[i] = t[i].tokens
  BY <1>2, TokensOfNatural DEF t
<1>5. /\ b \in Seq(Nat) /\ Len(b) = Len(s) + 1 /\ b[Len(s) + 1] = e.tokens
      /\ \A i \in 1..Len(s) : b[i] = w[i]
  BY <1>1, <1>3 DEF w
<1> HIDE DEF a, b
<1>6. ASSUME NEW i \in 1..(Len(s) + 1) PROVE a[i] = b[i]
  <2>1. i \in 1..Len(s) \/ i = Len(s) + 1
    BY <1>1
  <2> QED
    BY <1>2, <1>3, <1>4, <1>5, <2>1
<1>7. a = b
  BY <1>1, <1>4, <1>5, <1>6, SameNaturals
<1> QED
  BY <1>7 DEF a, b

LEMMA TokensOfRemoved ==
  ASSUME NEW s \in Seq(Entry), NEW k \in 1..Len(s)
  PROVE  TokensOf(RemoveAt(s, k)) = RemoveAt(TokensOf(s), k)
<1> DEFINE a == TokensOf(RemoveAt(s, k))
           b == RemoveAt(TokensOf(s), k)
           r == RemoveAt(s, k)
           w == TokensOf(s)
<1>1. /\ r \in Seq(Entry) /\ Len(r) = Len(s) - 1 /\ Len(s) \in Nat
      /\ \A i \in 1..(Len(s) - 1) : r[i] = IF i < k THEN s[i] ELSE s[i + 1]
  <2>1. r \in Seq(Entry) /\ Len(r) = Len(s) - 1
    BY Removed
  <2>2. Len(s) \in Nat
    OBVIOUS
  <2>3. \A i \in 1..(Len(s) - 1) : r[i] = IF i < k THEN s[i] ELSE s[i + 1]
    BY Removed, Zenon
  <2> QED
    BY <2>1, <2>2, <2>3
<1>2. w \in Seq(Nat) /\ Len(w) = Len(s) /\ \A i \in 1..Len(s) : w[i] = s[i].tokens
  BY TokensOfNatural
<1>3. /\ b \in Seq(Nat) /\ Len(b) = Len(s) - 1
      /\ \A i \in 1..(Len(s) - 1) : b[i] = IF i < k THEN w[i] ELSE w[i + 1]
  BY <1>2, Removed
<1>4. /\ a \in Seq(Nat) /\ Len(a) = Len(s) - 1
      /\ \A i \in 1..(Len(s) - 1) : a[i] = r[i].tokens
  BY <1>1, TokensOfNatural
<1> HIDE DEF a, b, r, w
<1>5. ASSUME NEW i \in 1..(Len(s) - 1) PROVE a[i] = b[i]
  <2>1. i \in 1..Len(s) /\ i + 1 \in 1..Len(s)
    BY <1>1
  <2> QED
    BY <1>1, <1>2, <1>3, <1>4, <2>1
<1>6. a = b
  BY <1>1, <1>3, <1>4, <1>5, SameNaturals
<1> QED
  BY <1>6 DEF a, b

\* An eviction removes one entry and its tokens.
LEMMA EvictTotal ==
  ASSUME TypeOK, TotalInv, Evict
  PROVE  /\ oldestUnpinnedIdx \in 1..Len(entries)
         /\ entries' \in Seq(Entry) /\ total' \in Nat /\ TotalInv'
<1> DEFINE k == oldestUnpinnedIdx
<1>1. k \in 1..Len(entries) /\ entries \in Seq(Entry)
  BY OldestIsFirst DEF Evict, Unpinned, TypeOK
<1>2. entries' = RemoveAt(entries, k) /\ total' = total - entries[k].tokens
  BY DEF Evict
<1> HIDE DEF k
<1>3. entries' \in Seq(Entry)
  BY <1>1, <1>2, Removed
<1>4. TokensOf(RemoveAt(entries, k)) = RemoveAt(TokensOf(entries), k)
  BY <1>1, TokensOfRemoved
<1>5. /\ TokensOf(entries) \in Seq(Nat) /\ k \in 1..Len(TokensOf(entries))
      /\ TokensOf(entries)[k] = entries[k].tokens
  BY <1>1, TokensOfNatural
<1>6. /\ SumOf(RemoveAt(TokensOf(entries), k)) = SumOf(TokensOf(entries)) - entries[k].tokens
      /\ SumOf(RemoveAt(TokensOf(entries), k)) \in Nat
  BY <1>5, SumOfRemoved
<1>7. total' = SumOf(TokensOf(RemoveAt(entries, k))) /\ total' \in Nat
  BY <1>2, <1>4, <1>6 DEF TotalInv
<1>8. TotalInv'
  BY <1>2, <1>7 DEF TotalInv
<1> QED
  BY <1>1, <1>3, <1>7, <1>8 DEF k

LEMMA AddTotal ==
  ASSUME TypeOK, TotalInv, NEW label, NEW e, NewEntry(e, label)
  PROVE  TotalInv'
<1>1. entries \in Seq(Entry) /\ e \in Entry /\ e.tokens \in Nat
  BY DEF TypeOK, NewEntry, Entry
<1>2. TokensOf(Append(entries, e)) = Append(TokensOf(entries), e.tokens)
  BY <1>1, TokensOfAppend
<1>3. SumOf(Append(TokensOf(entries), e.tokens)) = SumOf(TokensOf(entries)) + e.tokens
  BY <1>1, TokensOfNatural, SumOfAppend
<1>4. total' = SumOf(TokensOf(Append(entries, e)))
  BY <1>2, <1>3 DEF NewEntry, TotalInv
<1> QED
  BY <1>4 DEF NewEntry, TotalInv

\* Every variable keeps its type; the estimate never falls below zero.
LEMMA TypeInductive == TypeOK /\ TotalInv /\ [Next]_vars => TypeOK'
<1> SUFFICES ASSUME TypeOK, TotalInv, [Next]_vars PROVE TypeOK'
  OBVIOUS
<1> USE ContextBuilderAssumption
<1>1. ASSUME NEW label \in Labels, NEW next \in {"plan", "agents", "request", "tools"},
             Add(label, next), iter' \in 0..MaxIterations, results' \in 0..MaxResults,
             prompt' = prompt
      PROVE  TypeOK'
  <2>1. PICK e : NewEntry(e, label) /\ back' = next
    BY <1>1, AddAppends
  <2>2. e \in Entry /\ e.tokens \in Nat /\ total \in Nat
    BY <2>1 DEF NewEntry, Entry, TypeOK
  <2>3. entries' \in Seq(Entry) /\ added' \in Seq(Entry) /\ total' \in Nat /\ at' = "evict"
    BY <2>1, <2>2 DEF NewEntry, TypeOK
  <2> QED
    BY <1>1, <2>1, <2>3 DEF TypeOK
<1>l. {"spec", "plan", "agents_instructions", "tool", "test_feedback"} \subseteq Labels
  BY DEF Labels
<1>2. CASE AddSpec \/ AddPlan \/ AddAgents \/ AddFeedback
  <2>1. UNCHANGED run
    BY <1>2 DEF AddSpec, AddPlan, AddAgents, AddFeedback
  <2> QED
    BY <1>1, <1>2, <1>l, <2>1
       DEF AddSpec, AddPlan, AddAgents, AddFeedback, run, TypeOK
<1>3. CASE AddResult
  <2>1. results' \in 0..MaxResults
    BY <1>3 DEF AddResult, TypeOK
  <2> QED
    BY <1>1, <1>3, <1>l, <2>1 DEF AddResult, TypeOK
<1>4. CASE NoAgents \/ Added \/ Finish
  BY <1>4 DEF NoAgents, Added, Finish, builder, run, TypeOK
<1>5. CASE Request
  BY <1>5 DEF Request, builder, TypeOK
<1>6. CASE Evict
  <2>1. entries' \in Seq(Entry) /\ total' \in Nat
    BY <1>6, EvictTotal
  <2> QED
    BY <1>6, <2>1 DEF Evict, run, TypeOK
<1>7. CASE UNCHANGED vars
  BY <1>7 DEF vars, builder, run, TypeOK
<1> QED
  BY <1>2, <1>3, <1>4, <1>5, <1>6, <1>7 DEF Next

-----------------------------------------------------------------------------
(* What Add and one eviction make of the entries.                          *)

\* An entry is the Add it says it is.
LEMMA EntryIsItsAdd ==
  ASSUME TypeOK, EntriesInv, NEW i \in DOMAIN entries
  PROVE  entries[i].n \in DOMAIN added /\ entries[i] = added[entries[i].n]
<1>1. PICK cut \in 0..Len(added) : Range(entries) = Kept(added, cut)
  BY DEF EntriesInv
<1>2. entries[i] \in Kept(added, cut)
  BY <1>1 DEF Range
<1>3. PICK m \in DOMAIN added : entries[i] = added[m]
  BY <1>2 DEF Kept
<1> QED
  BY <1>3 DEF EntriesInv

\* The added entries after an Add.
LEMMA Appended ==
  ASSUME NEW s \in Seq(Entry), NEW e \in Entry, NEW t, t = Append(s, e)
  PROVE  /\ DOMAIN s = 1..Len(s) /\ DOMAIN t = DOMAIN s \cup {Len(s) + 1}
         /\ Len(s) \in Nat /\ Len(t) = Len(s) + 1 /\ t[Len(s) + 1] = e
         /\ \A i \in DOMAIN s : t[i] = s[i] /\ i < Len(s) + 1 /\ i \in Nat
         /\ Range(t) = Range(s) \cup {e}
<1>1. /\ DOMAIN s = 1..Len(s) /\ Len(s) \in Nat /\ Len(t) = Len(s) + 1
      /\ DOMAIN t = 1..(Len(s) + 1) /\ t[Len(s) + 1] = e
      /\ \A i \in 1..Len(s) : t[i] = s[i]
  OBVIOUS
<1>2. DOMAIN t = DOMAIN s \cup {Len(s) + 1}
  BY <1>1
<1>3. Range(t) \subseteq Range(s) \cup {e}
  BY <1>1, <1>2 DEF Range
<1>4. Range(s) \subseteq Range(t) /\ e \in Range(t)
  BY <1>1, <1>2 DEF Range
<1> QED
  BY <1>1, <1>2, <1>3, <1>4

LEMMA AddEntries ==
  ASSUME TypeOK, EntriesInv, NEW label, NEW e, NewEntry(e, label)
  PROVE  EntriesInv'
<1>1. /\ e \in Entry /\ e.n = Len(added) + 1
      /\ entries' = Append(entries, e) /\ added' = Append(added, e)
      /\ entries \in Seq(Entry) /\ added \in Seq(Entry)
  BY DEF NewEntry, TypeOK
<1>2. PICK cut \in 0..Len(added) : Range(entries) = Kept(added, cut)
  BY DEF EntriesInv
<1>a. /\ DOMAIN added' = DOMAIN added \cup {Len(added) + 1} /\ Len(added) \in Nat
      /\ Len(added') = Len(added) + 1
      /\ added'[Len(added) + 1] = e
      /\ \A i \in DOMAIN added : added'[i] = added[i] /\ i < Len(added) + 1 /\ i \in Nat
  BY <1>1, Appended
<1>e. /\ DOMAIN entries' = DOMAIN entries \cup {Len(entries) + 1} /\ Len(entries) \in Nat
      /\ entries'[Len(entries) + 1] = e
      /\ \A i \in DOMAIN entries :
           entries'[i] = entries[i] /\ i < Len(entries) + 1 /\ i \in Nat
      /\ Range(entries') = Range(entries) \cup {e}
  <2>1. /\ DOMAIN entries' = DOMAIN entries \cup {Len(entries) + 1}
        /\ Len(entries) \in Nat /\ entries'[Len(entries) + 1] = e
        /\ \A i \in DOMAIN entries :
             entries'[i] = entries[i] /\ i < Len(entries) + 1 /\ i \in Nat
    BY <1>1, Appended
  <2>2. Range(entries') = Range(entries) \cup {e}
    BY ZenonT(40), <1>1, Appended
  <2> QED
    BY <2>1, <2>2
<1>3. \A m \in DOMAIN added' : added'[m].n = m
  BY <1>1, <1>a DEF EntriesInv
<1>4. Increasing(entries')
  <2> SUFFICES ASSUME NEW i \in DOMAIN entries', NEW j \in DOMAIN entries', i < j
               PROVE  entries'[i].n < entries'[j].n
    BY DEF Increasing
  <2>1. i \in DOMAIN entries
    BY <1>e
  <2>2. CASE j \in DOMAIN entries
    BY <2>1, <2>2, <1>e DEF EntriesInv, Increasing
  <2>3. CASE j = Len(entries) + 1
    <3>1. entries[i].n \in DOMAIN added
      BY <2>1, EntryIsItsAdd
    <3> QED
      BY <2>1, <2>3, <3>1, <1>1, <1>a, <1>e
  <2> QED
    BY <2>2, <2>3, <1>e
<1>5. Kept(added', cut) = Kept(added, cut) \cup {e}
  <2>1. Len(added) + 1 > cut
    BY <1>a
  <2>2. Kept(added, cut) \subseteq Kept(added', cut)
    BY <1>a DEF Kept
  <2>3. e \in Kept(added', cut)
    BY <1>a, <2>1 DEF Kept
  <2>4. Kept(added', cut) \subseteq Kept(added, cut) \cup {e}
    BY <1>a DEF Kept
  <2> QED
    BY <2>2, <2>3, <2>4
<1>6. Range(entries') = Kept(added', cut) /\ cut \in 0..Len(added')
  BY <1>2, <1>5, <1>a, <1>e
<1> QED
  BY <1>3, <1>4, <1>6 DEF EntriesInv, Increasing, Kept, Pinned, Range

LEMMA Grown == \A a, b, c, d \in Nat : a + b > d => (a + c) + b > d
OBVIOUS

\* The entry that was just added is there, and the estimate only grows.
LEMMA AddNoMore ==
  ASSUME TypeOK, EntriesInv, NoMoreInv, NEW label, NEW e, NewEntry(e, label)
  PROVE  NoMoreInv'
<1>1. /\ e \in Entry /\ e.n = Len(added) + 1 /\ e.tokens \in Nat /\ total \in Nat
      /\ entries' = Append(entries, e) /\ added' = Append(added, e)
      /\ total' = total + e.tokens
      /\ entries \in Seq(Entry) /\ added \in Seq(Entry)
  BY DEF NewEntry, TypeOK, Entry
<1>a. /\ DOMAIN added' = DOMAIN added \cup {Len(added) + 1} /\ Len(added) \in Nat
      /\ added'[Len(added) + 1] = e
      /\ \A i \in DOMAIN added : added'[i] = added[i] /\ i < Len(added) + 1 /\ i \in Nat
  BY <1>1, Appended
<1>e. Range(entries') = Range(entries) \cup {e}
  BY ZenonT(40), <1>1, Appended
<1>2. Evicted' = Evicted
  <2>1. \A i \in DOMAIN added : added[i] # e
    BY <1>1, <1>a DEF EntriesInv
  <2> QED
    BY <2>1, <1>a, <1>e DEF Evicted
<1>3. \A i \in Evicted : added'[i] = added[i] /\ added[i].tokens \in Nat
  <2> SUFFICES ASSUME NEW i \in Evicted
               PROVE  added'[i] = added[i] /\ added[i].tokens \in Nat
    OBVIOUS
  <2>1. i \in DOMAIN added /\ added[i] \in Entry
    BY <1>1 DEF Evicted
  <2> QED
    BY <2>1, <1>a DEF Entry
<1>4. \A i \in Evicted :
        (\A j \in Evicted : j =< i) => total' + added'[i].tokens > limit
  <2> SUFFICES ASSUME NEW i \in Evicted, \A j \in Evicted : j =< i
               PROVE  total' + added'[i].tokens > limit
    OBVIOUS
  <2>1. total + added[i].tokens > limit
    BY DEF NoMoreInv
  <2> QED
    BY <2>1, <1>1, <1>3, Grown, ContextBuilderAssumption
<1> QED
  BY <1>2, <1>4 DEF NoMoreInv

\* What an eviction takes: the first unpinned entry, which is the oldest.
LEMMA EvictTakes ==
  ASSUME TypeOK, EntriesInv, Evict
  PROVE  \E k \in DOMAIN entries :
           /\ ~Pinned(entries[k])
           /\ \A j \in DOMAIN entries : ~Pinned(entries[j]) => k =< j
           /\ total' = total - entries[k].tokens /\ total > limit
           /\ Range(entries') = Range(entries) \ {entries[k]}
           /\ Increasing(entries') /\ UNCHANGED <<at, added>>
<1> DEFINE k == oldestUnpinnedIdx
           r == RemoveAt(entries, k)
           from(i) == IF i < k THEN i ELSE i + 1
<1>1. /\ k \in DOMAIN entries /\ ~Pinned(entries[k])
      /\ \A j \in DOMAIN entries : ~Pinned(entries[j]) => k =< j
  BY OldestIsFirst DEF Evict, Unpinned
<1>2. /\ entries' = r /\ total' = total - entries[k].tokens /\ total > limit
      /\ UNCHANGED <<at, added>>
  BY DEF Evict
<1> HIDE DEF k
<1>3. entries \in Seq(Entry) /\ Len(entries) \in Nat /\ DOMAIN entries = 1..Len(entries)
  BY DEF TypeOK
<1>4. /\ DOMAIN r = 1..(Len(entries) - 1)
      /\ \A i \in 1..(Len(entries) - 1) : r[i] = IF i < k THEN entries[i] ELSE entries[i + 1]
  BY <1>1, <1>3, Removed
<1> HIDE DEF r
<1>5. \A i \in DOMAIN r :
        r[i] = entries[from(i)] /\ from(i) \in DOMAIN entries /\ from(i) # k
  BY <1>1, <1>3, <1>4
<1>6. \A i, j \in DOMAIN r : i < j => from(i) < from(j)
  BY <1>1, <1>3, <1>4
<1>7. \A j \in DOMAIN entries : j # k => \E i \in DOMAIN r : from(i) = j
  <2> SUFFICES ASSUME NEW j \in DOMAIN entries, j # k PROVE \E i \in DOMAIN r : from(i) = j
    OBVIOUS
  <2>1. CASE j < k
    <3>1. j \in DOMAIN r /\ from(j) = j
      BY <1>1, <1>3, <1>4, <2>1
    <3> QED
      BY <3>1
  <2>2. CASE ~(j < k)
    <3>1. j - 1 \in DOMAIN r /\ from(j - 1) = j
      BY <1>1, <1>3, <1>4, <2>2
    <3> QED
      BY <3>1
  <2> QED
    BY <2>1, <2>2
<1> HIDE DEF from
<1>8. Increasing(r)
  BY <1>5, <1>6 DEF Increasing, EntriesInv
<1>9. \A j \in DOMAIN entries : j # k => entries[j] # entries[k]
  <2> SUFFICES ASSUME NEW j \in DOMAIN entries, j # k PROVE entries[j].n # entries[k].n
    OBVIOUS
  <2>1. entries[j].n \in Nat /\ entries[k].n \in Nat
    BY <1>1, EntryIsItsAdd DEF TypeOK
  <2>2. j < k \/ k < j
    BY <1>1, <1>3
  <2> QED
    BY <1>1, <2>1, <2>2 DEF EntriesInv, Increasing
<1>10. Range(r) = Range(entries) \ {entries[k]}
  <2>1. Range(r) \subseteq Range(entries) \ {entries[k]}
    BY <1>5, <1>9 DEF Range
  <2>2. Range(entries) \ {entries[k]} \subseteq Range(r)
    BY <1>5, <1>7 DEF Range
  <2> QED
    BY <2>1, <2>2
<1> QED
  BY <1>1, <1>2, <1>8, <1>10

LEMMA EvictKeeps ==
  ASSUME TypeOK, EntriesInv, NoMoreInv, Evict
  PROVE  EntriesInv' /\ NoMoreInv'
<1>1. PICK k \in DOMAIN entries :
           /\ ~Pinned(entries[k])
           /\ \A j \in DOMAIN entries : ~Pinned(entries[j]) => k =< j
           /\ total' = total - entries[k].tokens /\ total > limit
           /\ Range(entries') = Range(entries) \ {entries[k]}
           /\ Increasing(entries') /\ UNCHANGED <<at, added>>
  BY EvictTakes
<1>2. PICK cut \in 0..Len(added) : Range(entries) = Kept(added, cut)
  BY DEF EntriesInv
<1>3. PICK x : x = entries[k]
  OBVIOUS
<1>4. x.n \in DOMAIN added /\ x = added[x.n] /\ x \in Range(entries)
  BY <1>3, EntryIsItsAdd DEF Range
<1>5. DOMAIN added = 1..Len(added) /\ Len(added) \in Nat /\ \A m \in DOMAIN added : added[m].n = m
  BY DEF TypeOK, EntriesInv
<1>6. x.n > cut
  <2>1. PICK m \in DOMAIN added : x = added[m] /\ (Pinned(added[m]) \/ m > cut)
    BY <1>2, <1>4 DEF Kept
  <2> QED
    BY <1>1, <1>3, <1>5, <2>1
<1>7. Kept(added, x.n) \subseteq Kept(added, cut) \ {x}
  <2> SUFFICES ASSUME NEW m \in DOMAIN added, Pinned(added[m]) \/ m > x.n
               PROVE  added[m] \in Kept(added, cut) \ {x}
    BY DEF Kept
  <2>1. added[m] # x
    BY <1>1, <1>3, <1>5
  <2>2. Pinned(added[m]) \/ m > cut
    BY <1>4, <1>5, <1>6
  <2> QED
    BY <2>1, <2>2 DEF Kept
<1>8. Kept(added, cut) \ {x} \subseteq Kept(added, x.n)
  <2> SUFFICES ASSUME NEW m \in DOMAIN added, Pinned(added[m]) \/ m > cut, added[m] # x
               PROVE  added[m] \in Kept(added, x.n)
    BY DEF Kept
  <2>1. CASE Pinned(added[m])
    BY <2>1 DEF Kept
  <2>2. CASE ~Pinned(added[m])
    <3>1. PICK j \in DOMAIN entries : entries[j] = added[m]
      <4>1. added[m] \in Range(entries)
        BY <1>2 DEF Kept
      <4> QED
        BY <4>1 DEF Range
    <3>2. k < j
      <4>1. k =< j /\ k # j
        BY <1>1, <1>3, <2>2, <3>1
      <4>2. k \in Nat /\ j \in Nat
        BY DEF TypeOK
      <4> QED
        BY <4>1, <4>2
    <3>3. x.n < m
      BY <1>3, <1>5, <3>1, <3>2 DEF EntriesInv, Increasing
    <3>4. m > x.n
      BY <1>4, <1>5, <3>3
    <3> QED
      BY <3>4 DEF Kept
  <2> QED
    BY <2>1, <2>2
<1>9. Range(entries') = Kept(added, x.n) /\ x.n \in 0..Len(added)
  BY <1>1, <1>2, <1>3, <1>4, <1>5, <1>7, <1>8
<1>10. EntriesInv'
  <2>1. Increasing(entries')
    BY <1>1
  <2>2. added' = added
    BY <1>1
  <2> QED
    <3>1. \A m \in DOMAIN added' : added'[m].n = m
      BY <1>5, <2>2
    <3>2. \E c \in 0..Len(added') : Range(entries') = Kept(added', c)
      BY <1>9, <2>2
    <3> QED
      BY <2>1, <3>1, <3>2 DEF EntriesInv, Increasing, Kept, Pinned, Range
<1>11. x \in Entry /\ x.tokens \in Nat /\ total \in Nat
  <2>1. x \in Entry
    BY <1>4 DEF TypeOK
  <2> QED
    BY <2>1 DEF Entry, TypeOK
<1>12. ASSUME NEW i \in Evicted', \A j \in Evicted' : j =< i
       PROVE  total' + added'[i].tokens > limit
  <2>1. x.n \in Evicted'
    BY <1>1, <1>3, <1>4 DEF Evicted
  <2>2. x.n =< i /\ i \in DOMAIN added /\ added[i] \notin Range(entries')
    BY <1>1, <1>12, <2>1 DEF Evicted
  <2>3. i = x.n
    <3>1. CASE i > x.n
      <4>1. added[i] \in Kept(added, x.n)
        BY <2>2, <3>1 DEF Kept
      <4> QED
        BY <1>9, <2>2, <4>1
    <3> QED
      BY <1>4, <1>5, <2>2, <3>1
  <2>4. added'[i] = x /\ total' = total - x.tokens
    BY <1>1, <1>3, <1>4, <2>3
  <2>5. (total - x.tokens) + x.tokens = total
    BY <1>11
  <2> QED
    BY <1>1, <2>4, <2>5
<1> QED
  BY <1>10, <1>12 DEF NoMoreInv

-----------------------------------------------------------------------------
(* The feedback.                                                           *)

LEMMA AtTop == \A n \in Nat : \A c \in 0..n : ~(n > c) => c = n
OBVIOUS

\* When the newest entry of all was evicted only pinned ones are left.
LEMMA AllPinned ==
  ASSUME TypeOK, EntriesInv, added # <<>>, added[Len(added)] \notin Range(entries)
  PROVE  PinnedTokensOf(entries) = TokensOf(entries)
<1>1. PICK cut \in 0..Len(added) : Range(entries) = Kept(added, cut)
  BY DEF EntriesInv
<1>2. Len(added) \in DOMAIN added /\ DOMAIN added = 1..Len(added) /\ Len(added) \in Nat
  BY DEF TypeOK
<1>3. cut = Len(added)
  <2>1. ~(Len(added) > cut)
    BY <1>1, <1>2 DEF Kept
  <2> QED
    BY <1>1, <1>2, <2>1, AtTop
<1>4. \A i \in DOMAIN entries : Pinned(entries[i])
  <2> SUFFICES ASSUME NEW i \in DOMAIN entries PROVE Pinned(entries[i])
    OBVIOUS
  <2>1. entries[i] \in Kept(added, cut)
    BY <1>1 DEF Range
  <2>2. PICK m \in DOMAIN added : entries[i] = added[m] /\ (Pinned(added[m]) \/ m > cut)
    BY <2>1 DEF Kept
  <2>3. ~(m > cut)
    BY <1>2, <1>3
  <2> QED
    BY <2>2, <2>3
<1> QED
  BY <1>4 DEF PinnedTokensOf, TokensOf

\* The entry added last is still there, or does not fit beside the pinned ones.
LEMMA LastFits ==
  ASSUME TypeOK, EntriesInv, TotalInv, NoMoreInv, added # <<>>
  PROVE  SumOf(PinnedTokensOf(entries)) + added[Len(added)].tokens =< limit
           => added[Len(added)] \in Range(entries)
<1> DEFINE n == Len(added)
<1>1. SUFFICES ASSUME added[n] \notin Range(entries)
               PROVE  ~(SumOf(PinnedTokensOf(entries)) + added[n].tokens =< limit)
  OBVIOUS
<1>2. n \in DOMAIN added /\ DOMAIN added = 1..n /\ n \in Nat
  BY DEF TypeOK
<1>3. n \in Evicted /\ \A j \in Evicted : j =< n
  BY <1>1, <1>2 DEF Evicted
<1>4. total + added[n].tokens > limit
  BY <1>3 DEF NoMoreInv
<1>5. total = SumOf(PinnedTokensOf(entries))
  BY <1>1, AllPinned DEF TotalInv
<1>6. total \in Nat /\ added[n].tokens \in Nat
  <2>1. added[n] \in Entry
    BY <1>2 DEF TypeOK
  <2> QED
    BY <2>1 DEF Entry, TypeOK
<1> HIDE DEF n
<1>7. ~(total + added[n].tokens =< limit)
  BY <1>4, <1>6, ContextBuilderAssumption
<1> QED
  BY <1>5, <1>7 DEF n

\* What the request of the next iteration is made of.
LEMMA RequestTellsFeedback ==
  ASSUME TypeOK, BInv, FeedbackInv, Request
  PROVE  FeedbackSurvivesIfItFits'
<1>1. /\ at = "request" /\ iter' = iter + 1 /\ prompt' = entries /\ added' = added
      /\ iter \in Nat
  BY DEF Request, TypeOK
<1>2. SUFFICES ASSUME iter' > 1
      PROVE  \E e \in Range(added') :
               /\ e.label = "test_feedback" /\ e.iter = iter' - 1
               /\ SumOf(PinnedTokensOf(prompt')) + e.tokens =< limit => e \in Range(prompt')
  BY DEF FeedbackSurvivesIfItFits, PinnedTokensOf, Range, SumOf, Pinned
<1>3. LastIsFeedback
  BY <1>1, <1>2 DEF FeedbackInv
<1>4. PICK e : e = added[Len(added)]
  OBVIOUS
<1>5. e \in Range(added) /\ e.label = "test_feedback" /\ e.iter = iter
  <2>1. Len(added) \in DOMAIN added
    BY <1>3 DEF LastIsFeedback, TypeOK
  <2> QED
    BY <1>3, <1>4, <2>1 DEF LastIsFeedback, Range
<1>6. SumOf(PinnedTokensOf(entries)) + e.tokens =< limit => e \in Range(entries)
  BY <1>3, <1>4, LastFits DEF LastIsFeedback, BInv
<1>7. e.iter = iter' - 1
  BY <1>1, <1>5
<1>8. e \in Range(added')
  BY <1>1, <1>5
<1>9. SumOf(PinnedTokensOf(prompt')) + e.tokens =< limit => e \in Range(prompt')
  BY <1>1, <1>6
<1> QED
  BY <1>5, <1>7, <1>8, <1>9

\* A prompt that was sent stays as it was, and so do its iteration and all that
\* was added.
LEMMA FeedbackStays ==
  ASSUME FeedbackSurvivesIfItFits, UNCHANGED <<iter, prompt>>,
         Range(added) \subseteq Range(added')
  PROVE  FeedbackSurvivesIfItFits'
<1>1. SUFFICES ASSUME iter' > 1
      PROVE  \E e \in Range(added') :
               /\ e.label = "test_feedback" /\ e.iter = iter' - 1
               /\ SumOf(PinnedTokensOf(prompt')) + e.tokens =< limit => e \in Range(prompt')
  BY DEF FeedbackSurvivesIfItFits, PinnedTokensOf, Range, SumOf, Pinned
<1>2. PICK e \in Range(added) :
        /\ e.label = "test_feedback" /\ e.iter = iter - 1
        /\ SumOf(PinnedTokensOf(prompt)) + e.tokens =< limit => e \in Range(prompt)
  BY <1>1 DEF FeedbackSurvivesIfItFits
<1>3. e \in Range(added')
  OBVIOUS
<1>4. e.iter = iter' - 1
  BY <1>2
<1>5. SumOf(PinnedTokensOf(prompt')) + e.tokens =< limit => e \in Range(prompt')
  BY <1>2
<1> QED
  BY <1>2, <1>3, <1>4, <1>5

LEMMA AddFeedbackInv ==
  ASSUME TypeOK, FeedbackInv, NEW label \in Labels, NEW next, Add(label, next),
         UNCHANGED <<iter, prompt>>, next \in {"plan", "agents"} => iter = 0,
         next = "request" => iter = 0 \/ label = "test_feedback"
  PROVE  FeedbackInv'
<1>1. PICK e : NewEntry(e, label) /\ back' = next
  BY AddAppends
<1>2. /\ added \in Seq(Entry) /\ e \in Entry /\ added' = Append(added, e) /\ at' = "evict"
      /\ e.label = label /\ e.iter = iter
  BY <1>1 DEF NewEntry, TypeOK
<1>3. Range(added') = Range(added) \cup {e}
  BY <1>2, Appended
<1>4. added' # <<>> /\ added'[Len(added')] = e
  BY <1>2
<1>5. FeedbackSurvivesIfItFits'
  BY <1>3, FeedbackStays DEF FeedbackInv
<1>6. label = "test_feedback" => LastIsFeedback'
  BY <1>2, <1>4 DEF LastIsFeedback
<1> QED
  BY <1>1, <1>2, <1>5, <1>6 DEF FeedbackInv

LEMMA FeedbackInductive ==
  TypeOK /\ BInv /\ FeedbackInv /\ [Next]_vars => FeedbackInv'
<1> SUFFICES ASSUME TypeOK, BInv, FeedbackInv, [Next]_vars PROVE FeedbackInv'
  OBVIOUS
<1>l. {"spec", "plan", "agents_instructions", "tool", "test_feedback"} \subseteq Labels
  BY DEF Labels
<1>1. CASE AddSpec
  BY <1>1, <1>l, AddFeedbackInv DEF AddSpec, run, FeedbackInv
<1>2. CASE AddPlan
  BY <1>2, <1>l, AddFeedbackInv DEF AddPlan, run, FeedbackInv
<1>3. CASE AddAgents
  BY <1>3, <1>l, AddFeedbackInv DEF AddAgents, run, FeedbackInv
<1>4. CASE AddResult
  BY <1>4, <1>l, AddFeedbackInv DEF AddResult
<1>5. CASE AddFeedback
  BY <1>5, <1>l, AddFeedbackInv DEF AddFeedback, run
<1>6. ASSUME UNCHANGED <<iter, prompt, added>>
      PROVE  FeedbackSurvivesIfItFits' /\ LastIsFeedback' = LastIsFeedback
  <2>1. FeedbackSurvivesIfItFits'
    BY <1>6, FeedbackStays DEF FeedbackInv
  <2>2. LastIsFeedback' = LastIsFeedback
    BY <1>6 DEF LastIsFeedback
  <2> QED
    BY <2>1, <2>2
<1>7. CASE NoAgents \/ Finish
  BY <1>6, <1>7 DEF NoAgents, Finish, builder, run, FeedbackInv
<1>8. CASE Request
  BY <1>8, RequestTellsFeedback DEF Request, FeedbackInv
<1>9. CASE Evict
  BY <1>6, <1>9 DEF Evict, run, FeedbackInv
<1>10. CASE Added
  BY <1>6, <1>10 DEF Added, run, FeedbackInv, TypeOK
<1>11. CASE UNCHANGED vars
  BY <1>6, <1>11 DEF vars, run, FeedbackInv
<1> QED
  BY <1>1, <1>2, <1>3, <1>4, <1>5, <1>7, <1>8, <1>9, <1>10, <1>11 DEF Next

-----------------------------------------------------------------------------
(* The theorems.                                                           *)

LEMMA BuilderInductive == TypeOK /\ BInv /\ [Next]_vars => BInv'
<1> SUFFICES ASSUME TypeOK, BInv, [Next]_vars PROVE BInv'
  OBVIOUS
<1>1. CASE AddSpec \/ AddPlan \/ AddAgents \/ AddResult \/ AddFeedback
  <2>1. PICK label \in Labels : \E e : NewEntry(e, label)
    BY <1>1, Adding
  <2>2. PICK e : NewEntry(e, label)
    BY <2>1
  <2>3. EntriesInv' /\ TotalInv' /\ NoMoreInv'
    BY <2>2, AddEntries, AddTotal, AddNoMore DEF BInv
  <2>4. FitsInv'
    BY <2>2 DEF NewEntry, FitsInv
  <2> QED
    BY <2>3, <2>4 DEF BInv
<1>2. CASE Evict
  <2>1. EntriesInv' /\ NoMoreInv'
    BY <1>2, EvictKeeps DEF BInv
  <2>2. TotalInv'
    BY <1>2, EvictTotal DEF BInv
  <2>3. FitsInv'
    BY <1>2 DEF Evict, FitsInv
  <2> QED
    BY <2>1, <2>2, <2>3 DEF BInv
<1>3. ASSUME UNCHANGED <<entries, total, added>>, FitsInv' PROVE BInv'
  <2>1. EntriesInv'
    <3>1. \A m \in DOMAIN added' : added'[m].n = m
      BY <1>3 DEF BInv, EntriesInv
    <3>2. Increasing(entries')
      BY <1>3 DEF BInv, EntriesInv
    <3>3. \E c \in 0..Len(added') : Range(entries') = Kept(added', c)
      BY <1>3 DEF BInv, EntriesInv
    <3> QED
      BY <3>1, <3>2, <3>3 DEF EntriesInv, Increasing, Kept, Pinned, Range
  <2>2. TotalInv'
    BY <1>3 DEF BInv, TotalInv, TokensOf, SumOf
  <2>3. NoMoreInv'
    BY <1>3 DEF BInv, NoMoreInv, Evicted, Range
  <2> QED
    BY <1>3, <2>1, <2>2, <2>3 DEF BInv
<1>4. CASE NoAgents \/ Request \/ Finish \/ Added \/ UNCHANGED vars
  <2>1. UNCHANGED <<entries, total, added>>
    BY <1>4 DEF NoAgents, Request, Finish, Added, vars, builder
  <2>2. Unpinned' = Unpinned
    BY <2>1 DEF Unpinned, Pinned
  <2>3. FitsInv'
    BY <1>4, <2>1, <2>2 DEF NoAgents, Request, Finish, Added, vars, BInv, FitsInv
  <2> QED
    BY <1>3, <2>1, <2>3
<1> QED
  BY <1>1, <1>2, <1>4 DEF Next

LEMMA BuilderInitial == Init => TypeOK /\ BInv /\ FeedbackInv
<1> SUFFICES ASSUME Init PROVE TypeOK /\ BInv /\ FeedbackInv
  OBVIOUS
<1>1. /\ <<>> \in Seq(Entry) /\ DOMAIN entries = {} /\ DOMAIN added = {}
      /\ Len(added) = 0 /\ Range(entries) = {}
  BY DEF Init, Range
<1>2. TypeOK
  BY <1>1, ContextBuilderAssumption DEF Init, TypeOK
<1>3. EntriesInv
  <2>1. 0 \in 0..Len(added) /\ Kept(added, 0) = {}
    BY <1>1 DEF Kept
  <2> QED
    BY <1>1, <2>1 DEF EntriesInv, Increasing
<1>4. TotalInv
  <2>1. TokensOf(entries) = <<>>
    BY DEF Init, TokensOf
  <2> QED
    BY <2>1, SumOfNone DEF Init, TotalInv
<1>5. NoMoreInv /\ FitsInv
  BY <1>1, ContextBuilderAssumption DEF Init, NoMoreInv, Evicted, FitsInv
<1>6. FeedbackInv
  BY DEF Init, FeedbackInv, FeedbackSurvivesIfItFits
<1> QED
  BY <1>2, <1>3, <1>4, <1>5, <1>6 DEF BInv

LEMMA BuilderAlways == Spec => [](TypeOK /\ BInv /\ FeedbackInv)
<1>1. TypeOK /\ BInv /\ FeedbackInv /\ [Next]_vars => TypeOK' /\ BInv' /\ FeedbackInv'
  BY TypeInductive, BuilderInductive, FeedbackInductive DEF BInv
<1> QED
  BY <1>1, BuilderInitial, PTL DEF Spec

\* Evictions leave the spec, the plan and the newest of the others, in the order
\* they were added (oldestUnpinnedIdx).
THEOREM PinnedAndNewestStay == Spec => []KeepsPinnedAndNewest
<1>1. BInv => KeepsPinnedAndNewest
  BY DEF BInv, EntriesInv, Increasing, Kept, KeepsPinnedAndNewest
<1> QED
  BY <1>1, BuilderAlways, PTL

\* The estimate is the sum of what is there, it is within the limit once Add
\* has returned, and nothing was evicted that would fit (evictIfNeeded).
THEOREM EvictionIsExact == Spec => []EvictsExactly
<1>1. BInv => EvictsExactly
  BY DEF BInv, TotalInv, FitsInv, NoMoreInv, Evicted, EvictsExactly
<1> QED
  BY <1>1, BuilderAlways, PTL

\* The feedback of a failed verification is in the next prompt when it fits
\* beside the pinned entries (phaseIterate, buildIterRequest).
THEOREM FeedbackReachesTheModel == Spec => []FeedbackSurvivesIfItFits
BY BuilderAlways, PTL DEF FeedbackInv
=============================================================================
