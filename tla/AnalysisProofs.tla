---------------------------- MODULE AnalysisProofs ----------------------------
(***************************************************************************)
(* For any devices, samples, windows and bounds: what the windows hold,    *)
(* what the repository holds of a topic after crashes, failed commits and  *)
(* redeliveries, and what an anomaly rests on.                             *)
(***************************************************************************)
EXTENDS Analysis, SequenceTheorems, FiniteSetTheorems, WellFoundedInduction, TLAPS

------------------------------------------------------------------------------
(* Least and greatest numbers *)

LEMMA Least ==
  ASSUME NEW S \in SUBSET Nat, S # {}
  PROVE  \E x \in S : \A y \in S : x <= y
<1> DEFINE R == OpToRel(<, Nat)
<1>1. IsWellFoundedOn(R, Nat)
  BY NatLessThanWellFounded
<1>2. \A x, y \in Nat : y < x => <<y, x>> \in R
  BY DEF OpToRel
<1> HIDE DEF R
<1>3. PICK x \in S : \A y \in S : ~ (<<y, x>> \in R)
  BY <1>1, WFMin
<1>4. \A y \in S : ~(y < x)
  <2> TAKE y \in S
  <2>1. y \in Nat /\ x \in Nat
    OBVIOUS
  <2> QED
    BY <1>2, <1>3, <2>1, Zenon
<1> QED
  BY <1>4

LEMMA Greatest ==
  ASSUME NEW n \in Nat, NEW S \in SUBSET (1..n), S # {}
  PROVE  \E x \in S : \A y \in S : y <= x
<1> DEFINE T == {m \in 0..n : n - m \in S}
<1>1. \A s \in S : s \in 1..n /\ n - s \in 0..n /\ n - (n - s) = s
  <2>1. \A s \in 1..n : n - s \in 0..n /\ n - (n - s) = s
    OBVIOUS
  <2>2. S \subseteq 1..n
    OBVIOUS
  <2> HIDE DEF T
  <2> QED
    BY <2>1, <2>2
<1>2. \A s \in S : n - s \in T
  BY <1>1, Zenon
<1>3. T # {} /\ T \in SUBSET Nat
  <2>1. T \in SUBSET Nat
    OBVIOUS
  <2> HIDE DEF T
  <2> QED
    BY <1>2, <2>1
<1>4. PICK m \in T : \A y \in T : m <= y
  BY <1>3, Least
<1>5. n - m \in S /\ m \in 0..n
  OBVIOUS
<1> HIDE DEF T
<1>6. \A s \in S : m <= n - s
  BY <1>2, <1>4, Zenon
<1>7. \A s \in S : s <= n - m
  BY <1>1, <1>5, <1>6
<1> QED
  BY <1>5, <1>7

------------------------------------------------------------------------------
(* The operators of AnomalyRules *)

\* Evict drops the samples before the first fresh one.
LEMMA EvictStopsAtFresh ==
  ASSUME NEW S, S \subseteq Sample, NEW samples \in Seq(S), NEW cutoff \in Int
  PROVE  \E n \in 0..Len(samples) :
            /\ Evict(samples, cutoff) = SubSeq(samples, n + 1, Len(samples))
            /\ \A i \in 1..n : samples[i].at < cutoff
            /\ n < Len(samples) => samples[n + 1].at >= cutoff
<1> DEFINE fresh == {i \in DOMAIN samples : samples[i].at >= cutoff}
           first == CHOOSE i \in fresh : \A j \in fresh : i <= j
<1>1. Len(samples) \in Nat /\ DOMAIN samples = 1..Len(samples)
  OBVIOUS
<1>2. \A i \in 1..Len(samples) : samples[i].at \in Int
  BY DEF Sample
<1>3. CASE fresh = {}
  <2>1. Evict(samples, cutoff) = << >>
    BY <1>3 DEF Evict
  <2>2. SubSeq(samples, Len(samples) + 1, Len(samples)) = << >>
    BY <1>1, SubSeqEmpty
  <2>3. \A i \in 1..Len(samples) : samples[i].at < cutoff
    BY <1>1, <1>2, <1>3
  <2> QED
    BY <1>1, <2>1, <2>2, <2>3
<1>4. CASE fresh # {}
  <2>1. Evict(samples, cutoff) = SubSeq(samples, first, Len(samples))
    BY <1>4 DEF Evict
  <2>2. fresh \in SUBSET Nat
    BY <1>1
  <2>3. first \in fresh /\ \A j \in fresh : first <= j
    BY <1>4, <2>2, Least
  <2> HIDE DEF first
  <2>4. \A i \in 1..(first - 1) : samples[i].at < cutoff
    BY <1>1, <1>2, <2>3
  <2>5. first - 1 \in 0..Len(samples) /\ (first - 1) + 1 = first /\ samples[first].at >= cutoff
    BY <1>1, <2>3
  <2> QED
    BY <2>1, <2>4, <2>5
<1> QED
  BY <1>3, <1>4

\* What eviction makes of one window, and what WindowsExact follows from: a suffix of all
\* samples, whose head is not older than the window's duration counted from the newest, and
\* nothing was dropped that was not too old for a sample after it.
Keeps(kept, all, duration) ==
    LET dropped == Len(all) - Len(kept)
        TooOldFor(i, j) == all[i].at < all[j].at - duration
    IN /\ dropped \in Nat /\ kept = SubSeq(all, dropped + 1, Len(all))
       /\ all # << >> => kept # << >> /\ ~TooOldFor(dropped + 1, Len(all))
       /\ \A i \in 1..dropped : \E j \in i..Len(all) : TooOldFor(i, j)

\* What a window keeps are the samples past those it has dropped.
LEMMA KeptAt ==
  ASSUME NEW S, NEW all \in Seq(S), NEW duration, NEW kept, Keeps(kept, all, duration)
  PROVE  LET was == Len(all) - Len(kept)
         IN /\ was \in Nat /\ was <= Len(all)
            /\ kept \in Seq(S) /\ Len(kept) = Len(all) - was
            /\ \A i \in 1..Len(kept) : kept[i] = all[was + i]
<1> DEFINE was == Len(all) - Len(kept)
<1>1. Len(all) \in Nat
  BY LenProperties
<1>2. was \in Nat /\ kept = SubSeq(all, was + 1, Len(all))
  BY DEF Keeps
<1> HIDE DEF was
<1>3. \A i \in (was + 1)..Len(all) : all[i] \in S
  BY <1>1, <1>2, ElementOfSeq
<1>4. /\ kept \in Seq(S)
      /\ Len(kept) = IF was + 1 <= Len(all) THEN Len(all) - (was + 1) + 1 ELSE 0
      /\ \A i \in 1..(Len(all) - (was + 1) + 1) : kept[i] = all[(was + 1) + i - 1]
  BY <1>1, <1>2, <1>3, SubSeqProperties
<1>5. was = Len(all) - Len(kept) /\ Len(kept) \in Nat
  BY <1>4, LenProperties DEF was
<1>6. Len(kept) = Len(all) - was /\ was <= Len(all)
  BY <1>1, <1>2, <1>5
<1>7. ASSUME NEW i \in 1..Len(kept) PROVE kept[i] = all[was + i]
  <2>1. i \in 1..(Len(all) - (was + 1) + 1) /\ (was + 1) + i - 1 = was + i
    BY <1>1, <1>2, <1>6
  <2> QED
    BY <1>4, <2>1
<1> QED
  BY <1>2, <1>4, <1>6, <1>7 DEF was

\* A window that keeps what it should still does so when it takes one more sample.
LEMMA AddSampleKeeps ==
  ASSUME NEW S, S \subseteq Sample, NEW all \in Seq(S), NEW s \in S,
         NEW duration \in Nat, NEW kept, Keeps(kept, all, duration)
  PROVE  /\ Keeps(AddSample(kept, s, duration), Append(all, s), duration)
         /\ AddSample(kept, s, duration) \in Seq(S)
<1> DEFINE more == Append(all, s)
           was  == Len(all) - Len(kept)
           grown == Append(kept, s)
           cutoff == s.at - duration
<1>1. /\ Len(all) \in Nat /\ more \in Seq(S) /\ Len(more) = Len(all) + 1
      /\ \A i \in 1..Len(all) : more[i] = all[i]
      /\ more[Len(more)] = s
  BY AppendProperties
<1>2. was \in Nat /\ kept = SubSeq(all, was + 1, Len(all))
  BY DEF Keeps
<1>3. \A i \in 1..was : \E j \in i..Len(all) : all[i].at < all[j].at - duration
  BY DEF Keeps
<1> HIDE DEF was
<1>4. kept \in Seq(S) /\ Len(kept) = Len(all) - was /\ was <= Len(all)
      /\ \A i \in 1..Len(kept) : kept[i] = all[was + i]
  BY KeptAt DEF was
<1>5. /\ grown \in Seq(S) /\ Len(grown) = Len(more) - was
      /\ \A i \in 1..Len(grown) : grown[i] = more[was + i]
  <2>1. /\ grown \in Seq(S) /\ Len(grown) = Len(kept) + 1
        /\ \A i \in 1..Len(kept) : grown[i] = kept[i]
        /\ grown[Len(kept) + 1] = s
    BY <1>4, AppendProperties
  <2> HIDE DEF grown, more
  <2>2. Len(kept) \in Nat /\ Len(grown) = Len(more) - was
    BY <1>1, <1>2, <1>4, <2>1
  <2>3. ASSUME NEW i \in 1..Len(grown) PROVE grown[i] = more[was + i]
    <3>1. CASE i = Len(kept) + 1
      BY <1>1, <1>2, <1>4, <2>1, <2>2, <3>1
    <3>2. CASE i \in 1..Len(kept)
      BY <1>1, <1>2, <1>4, <2>1, <2>2, <3>2
    <3> QED
      BY <2>1, <2>2, <3>1, <3>2
  <2> QED
    BY <2>1, <2>2, <2>3
<1>6. s.at \in Int /\ cutoff \in Int /\ cutoff <= s.at
  BY DEF Sample
<1> HIDE DEF grown, more, cutoff
<1>7. PICK n \in 0..Len(grown) :
          /\ Evict(grown, cutoff) = SubSeq(grown, n + 1, Len(grown))
          /\ \A i \in 1..n : grown[i].at < cutoff
          /\ n < Len(grown) => grown[n + 1].at >= cutoff
  BY <1>5, <1>6, EvictStopsAtFresh
<1>8. Len(grown) >= 1 /\ n < Len(grown)
  <2>1. Len(grown) >= 1 /\ grown[Len(grown)] = s
    <3>1. Len(grown) \in 1..Len(grown) /\ was + Len(grown) = Len(more)
      BY <1>1, <1>2, <1>4, <1>5
    <3> QED
      BY <1>1, <1>5, <3>1
  <2>2. Len(grown) \in Nat /\ n \in Nat /\ n <= Len(grown)
    BY <1>5, <1>7, LenProperties
  <2>3. ~(n = Len(grown))
    <3>1. n = Len(grown) => grown[n].at < cutoff
      BY <1>7, <2>1, <2>2
    <3> QED
      BY <1>6, <2>1, <3>1
  <2> QED
    BY <2>1, <2>2, <2>3
<1> DEFINE kept1 == Evict(grown, cutoff)
<1>9. kept1 \in Seq(S) /\ Len(kept1) = Len(grown) - n
      /\ \A i \in 1..Len(kept1) : kept1[i] = grown[n + i]
  <2>1. \A i \in (n + 1)..Len(grown) : grown[i] \in S
    BY <1>5, <1>8, ElementOfSeq
  <2>2. Len(grown) \in Int /\ n \in Nat
    BY <1>5, LenProperties
  <2>3. /\ kept1 \in Seq(S)
        /\ Len(kept1) = IF n + 1 <= Len(grown) THEN Len(grown) - (n + 1) + 1 ELSE 0
        /\ \A i \in 1..(Len(grown) - (n + 1) + 1) : kept1[i] = grown[(n + 1) + i - 1]
    BY <1>7, <2>1, <2>2, SubSeqProperties
  <2> HIDE DEF kept1
  <2>4. Len(kept1) = Len(grown) - n
    BY <1>8, <2>2, <2>3
  <2>5. ASSUME NEW i \in 1..Len(kept1) PROVE kept1[i] = grown[n + i]
    <3>1. i \in 1..(Len(grown) - (n + 1) + 1) /\ (n + 1) + i - 1 = n + i
      BY <2>2, <2>4
    <3> QED
      BY <2>3, <3>1
  <2> QED
    BY <2>3, <2>4, <2>5
<1> HIDE DEF kept1
<1> DEFINE now == Len(more) - Len(kept1)
<1>10. now = was + n /\ now \in Nat /\ now < Len(more)
  BY <1>1, <1>2, <1>5, <1>8, <1>9
<1> HIDE DEF now
<1>11. kept1 = SubSeq(more, now + 1, Len(more))
  <2> DEFINE tail == SubSeq(more, now + 1, Len(more))
  <2>1. \A i \in (now + 1)..Len(more) : more[i] \in S
    BY <1>1, <1>10, ElementOfSeq
  <2>2. Len(more) \in Nat
    BY <1>1
  <2>3. /\ tail \in Seq(S)
        /\ Len(tail) = Len(more) - now
        /\ \A i \in 1..(Len(more) - now) : tail[i] = more[now + i]
    <3>1. /\ tail \in Seq(S)
          /\ Len(tail) = IF now + 1 <= Len(more) THEN Len(more) - (now + 1) + 1 ELSE 0
          /\ \A i \in 1..(Len(more) - (now + 1) + 1) : tail[i] = more[(now + 1) + i - 1]
      <4>1. now + 1 \in Int /\ Len(more) \in Int
        BY <1>10, <2>2
      <4> QED
        BY <2>1, <4>1, SubSeqProperties
    <3> HIDE DEF tail
    <3>2. Len(tail) = Len(more) - now
      BY <1>10, <2>2, <3>1
    <3>3. ASSUME NEW i \in 1..(Len(more) - now) PROVE tail[i] = more[now + i]
      <4>1. i \in 1..(Len(more) - (now + 1) + 1) /\ (now + 1) + i - 1 = now + i
        BY <1>10, <2>2
      <4> QED
        BY <3>1, <4>1
    <3> QED
      BY <3>1, <3>2, <3>3
  <2> HIDE DEF tail
  <2>4. Len(tail) = Len(kept1)
    BY <1>1, <1>2, <1>5, <1>9, <1>10, <2>3
  <2>5. ASSUME NEW i \in 1..Len(kept1) PROVE kept1[i] = tail[i]
    <3>1. kept1[i] = grown[n + i] /\ n + i \in 1..Len(grown)
      <4>1. Len(grown) \in Nat /\ n \in Nat /\ Len(kept1) = Len(grown) - n
        BY <1>5, <1>7, <1>9, LenProperties
      <4> QED
        BY <1>9, <4>1
    <3>2. grown[n + i] = more[was + (n + i)]
      BY <1>5, <3>1
    <3>3. i \in 1..(Len(more) - now) /\ was + (n + i) = now + i
      BY <1>2, <1>10, <2>2, <2>3, <2>4
    <3> QED
      BY <2>3, <3>1, <3>2, <3>3
  <2>6. kept1 = tail
    BY <1>9, <2>3, <2>4, <2>5, SeqEqual
  <2> QED
    BY <2>6 DEF tail
<1>12. more # << >> /\ kept1 # << >>
  BY <1>1, <1>8, <1>9, EmptySeq
<1>13. ~(more[now + 1].at < more[Len(more)].at - duration)
  <2>1. grown[n + 1] = more[now + 1]
    <3>1. Len(grown) \in Nat /\ n \in Nat
      BY <1>5, <1>7, LenProperties
    <3>2. n + 1 \in 1..Len(grown) /\ was + (n + 1) = now + 1
      BY <1>2, <1>8, <1>10, <3>1
    <3> QED
      BY <1>5, <3>2
  <2>2. more[now + 1].at >= cutoff
    BY <1>7, <1>8, <2>1
  <2>3. more[now + 1] \in S
    BY <1>1, <1>10, ElementOfSeq
  <2>4. more[now + 1].at \in Int
    BY <2>3 DEF Sample
  <2> QED
    BY <1>1, <1>6, <2>2, <2>4 DEF cutoff
<1>14. ASSUME NEW i \in 1..now
       PROVE  \E j \in i..Len(more) : more[i].at < more[j].at - duration
  <2>1. CASE i \in 1..was
    <3>1. PICK j \in i..Len(all) : all[i].at < all[j].at - duration
      BY <1>3, <2>1
    <3>2. more[i] = all[i] /\ more[j] = all[j] /\ j \in i..Len(more)
      BY <1>1, <1>4, <2>1
    <3> QED
      BY <3>1, <3>2
  <2>2. CASE i > was
    <3>1. i - was \in 1..n /\ i - was \in 1..Len(grown) /\ was + (i - was) = i
      BY <1>2, <1>7, <1>10, <2>2
    <3>2. grown[i - was] = more[i] /\ more[i].at < cutoff
      BY <1>5, <1>7, <3>1
    <3>3. Len(more) \in i..Len(more)
      BY <1>1, <1>10
    <3> QED
      BY <1>1, <3>2, <3>3 DEF cutoff
  <2> QED
    BY <1>2, <2>1, <2>2
<1>15. Keeps(kept1, more, duration)
  BY <1>10, <1>11, <1>12, <1>13, <1>14 DEF Keeps, now
<1> QED
  BY <1>9, <1>15 DEF AddSample, kept1, more, grown, cutoff

\* The running sums of n values.
SumsOf(v, n, f) == f = [i \in 0..n |-> IF i = 0 THEN 0 ELSE f[i - 1] + v[i]]

\* A function that is what the running sums define satisfies their equations.
LEMMA SumsStep ==
  ASSUME NEW n \in Nat, NEW v, NEW f, NEW g,
         g = [i \in 0..n |-> IF i = 0 THEN 0 ELSE f[i - 1] + v[i]]
  PROVE  g[0] = 0 /\ \A i \in 1..n : g[i] = f[i - 1] + v[i]
OBVIOUS

LEMMA SumsEquations ==
  ASSUME NEW n \in Nat, NEW v, NEW f, SumsOf(v, n, f)
  PROVE  f[0] = 0 /\ \A i \in 1..n : f[i] = f[i - 1] + v[i]
<1>1. PICK g : g = f
  OBVIOUS
<1>2. g = [i \in 0..n |-> IF i = 0 THEN 0 ELSE f[i - 1] + v[i]]
  BY <1>1, Zenon DEF SumsOf
<1>3. g[0] = 0 /\ \A i \in 1..n : g[i] = f[i - 1] + v[i]
  BY ONLY <1>2, n \in Nat, SumsStep
<1> QED
  BY <1>1, <1>3, Zenon

\* There are such sums, of however many values: else there were a least number without.
LEMMA SumsExist ==
  ASSUME NEW n \in Nat, NEW v
  PROVE  \E f : SumsOf(v, n, f)
<1> DEFINE without == {m \in Nat : ~ \E f : SumsOf(v, m, f)}
<1>1. SUFFICES ASSUME without # {} PROVE FALSE
  OBVIOUS
<1>2. PICK m \in without : \A k \in without : m <= k
  BY <1>1, Least
<1>3. m \in Nat /\ ~ \E f : SumsOf(v, m, f)
  OBVIOUS
<1>4. CASE m = 0
  <2> DEFINE f == [i \in {0} |-> 0]
  <2>1. PICK g : g = [i \in {0} |-> 0]
    OBVIOUS
  <2>2. g = [i \in 0..0 |-> IF i = 0 THEN 0 ELSE g[i - 1] + v[i]]
    BY ONLY <2>1
  <2> QED
    BY <1>3, <1>4, <2>2 DEF SumsOf
<1>5. CASE m > 0
  <2>1. m - 1 \in Nat /\ ~(m <= m - 1)
    BY <1>3, <1>5
  <2>2. PICK f : SumsOf(v, m - 1, f)
    BY <1>2, <2>1
  <2>3. f[0] = 0 /\ \A i \in 1..(m - 1) : f[i] = f[i - 1] + v[i]
    BY <2>1, <2>2, SumsEquations
  <2>4. PICK g : g = [i \in 0..m |-> IF i = m THEN f[m - 1] + v[m] ELSE f[i]]
    OBVIOUS
  <2>5. g = [i \in 0..m |-> IF i = 0 THEN 0 ELSE g[i - 1] + v[i]]
    <3>1. \A i \in 0..m : g[i] = IF i = 0 THEN 0 ELSE g[i - 1] + v[i]
      BY <1>3, <1>5, <2>3, <2>4
    <3>2. DOMAIN g = 0..m /\ g = [i \in 0..m |-> g[i]]
      BY <2>4, Zenon
    <3> QED
      BY <3>1, <3>2, Zenon
  <2> QED
    BY <1>3, <2>5 DEF SumsOf
<1> QED
  BY <1>3, <1>4, <1>5

\* The sum of integers is an integer.
LEMMA SumsInteger ==
  ASSUME NEW n \in Nat, NEW v, \A i \in 1..n : v[i] \in Int, NEW f, SumsOf(v, n, f)
  PROVE  f[n] \in Int
<1> DEFINE wrong == {m \in 0..n : f[m] \notin Int}
<1>1. f[0] = 0 /\ \A i \in 1..n : f[i] = f[i - 1] + v[i]
  BY SumsEquations
<1>2. SUFFICES ASSUME wrong # {} PROVE FALSE
  OBVIOUS
<1>3. PICK m \in wrong : \A k \in wrong : m <= k
  <2>1. wrong \in SUBSET Nat
    OBVIOUS
  <2> HIDE DEF wrong
  <2> QED
    BY <1>2, <2>1, Least
<1>4. m \in 1..n /\ m - 1 \in 0..n /\ ~(m <= m - 1)
  <2>1. m \in 0..n /\ m # 0
    BY <1>1
  <2> QED
    BY ONLY <2>1, n \in Nat
<1>5. f[m - 1] \in Int
  BY <1>3, <1>4
<1> QED
  BY <1>1, <1>3, <1>4, <1>5

LEMMA TotalInteger ==
  ASSUME NEW S, S \subseteq Sample, NEW samples \in Seq(S), NEW g \in Signals
  PROVE  Total(samples, g) \in Int
<1> DEFINE v == [i \in 1..Len(samples) |-> samples[i].value[g]]
           upTo == CHOOSE f : f = [i \in 0..Len(samples) |->
                        IF i = 0 THEN 0 ELSE f[i - 1] + samples[i].value[g]]
<1>1. Len(samples) \in Nat
  BY LenProperties
<1>2. \A i \in 1..Len(samples) : v[i] \in Int
  BY ElementOfSeq DEF Sample
<1>3. PICK f : SumsOf(v, Len(samples), f)
  BY <1>1, SumsExist
<1>4. \A h : [i \in 0..Len(samples) |-> IF i = 0 THEN 0 ELSE h[i - 1] + samples[i].value[g]]
           = [i \in 0..Len(samples) |-> IF i = 0 THEN 0 ELSE h[i - 1] + v[i]]
  <2> TAKE h
  <2>1. \A i \in 0..Len(samples) : i # 0 => i \in 1..Len(samples)
    BY <1>1
  <2> QED
    BY <2>1
<1> HIDE DEF v
<1>5. f = [i \in 0..Len(samples) |-> IF i = 0 THEN 0 ELSE f[i - 1] + samples[i].value[g]]
  BY <1>3, <1>4, Zenon DEF SumsOf
<1>6. upTo = [i \in 0..Len(samples) |-> IF i = 0 THEN 0 ELSE upTo[i - 1] + samples[i].value[g]]
  BY <1>5, Zenon
<1>7. Total(samples, g) = upTo[Len(samples)]
  BY Zenon DEF Total
<1> HIDE DEF upTo
<1>8. SumsOf(v, Len(samples), upTo)
  BY <1>4, <1>6, Zenon DEF SumsOf
<1> QED
  BY <1>1, <1>2, <1>7, <1>8, SumsInteger

LEMMA MetricsTyped ==
  ASSUME NEW S, S \subseteq Sample, NEW samples \in Seq(S)
  PROVE  /\ CalculateMetrics(samples) \in RollingMetrics
         /\ CalculateMetrics(samples).count = Len(samples)
BY TotalInteger, LenProperties DEF CalculateMetrics, RollingMetrics

\* An anomaly of a metric rests on two samples.
LEMMA MetricAnomaliesTyped ==
  ASSUME NEW m \in RollingMetrics
  PROVE  /\ MetricAnomalies(m) \subseteq Anomaly
         /\ MetricAnomalies(m) # {} => m.count >= 2
<1>1. \A g \in Signals : WarningThreshold[g] \in Nat /\ CriticalThreshold[g] \in Nat
  BY DEF Signals, WarningThreshold, CriticalThreshold
<1>2. MetricAnomalies(m) # {} => m.count >= 2
  BY DEF MetricAnomalies, MinSamplesForRollingAnomaly, RollingMetrics
<1>3. ASSUME NEW a \in MetricAnomalies(m) PROVE a \in Anomaly
  <2>1. \E g \in Signals :
           \/ a = [signal |-> g, severity |-> "CRITICAL", threshold |-> CriticalThreshold[g]]
           \/ a = [signal |-> g, severity |-> "WARNING", threshold |-> WarningThreshold[g]]
    BY <1>3 DEF MetricAnomalies
  <2> QED
    BY <1>1, <2>1 DEF Anomaly
<1> QED
  BY <1>2, <1>3

LEMMA HealthAnomalyTyped ==
  ASSUME NEW status
  PROVE  /\ HealthToAnomaly(status) \subseteq Anomaly
         /\ \A a \in HealthToAnomaly(status) : a.signal = "HEALTH"
<1>1. \/ HealthToAnomaly(status) = {}
      \/ \E severity \in {"WARNING", "CRITICAL"}, threshold \in Nat :
            HealthToAnomaly(status) =
                {[signal |-> "HEALTH", severity |-> severity, threshold |-> threshold]}
  BY DEF HealthToAnomaly
<1> QED
  BY <1>1 DEF Anomaly

------------------------------------------------------------------------------
(* The steps, grouped by what they leave alone *)

\* A goroutine between messages moves on without one.
Idling(t) == CheckClosed(t) \/ FetchFails(t) \/ BackoffOver(t) \/ ExitReader(t)

\* A goroutine is done with a message, or gives up its commit.
Committing(t) == CommitSucceeds(t) \/ CommitFails(t)

\* The life of the process and of the repository around the goroutines.
Surroundings ==
    \/ BeginStart \/ OpenReaders \/ EndStart
    \/ RequestShutdown \/ Shutdown \/ StorageChanges \/ UNCHANGED vars

LEMMA Steps ==
  ASSUME [Next]_vars
  PROVE  \/ \E t \in Topics : Idling(t) \/ Fetch(t) \/ SaveLatest(t) \/ SaveAnalysis(t)
                                \/ Committing(t) \/ Publish(t)
         \/ Aggregate \/ SaveRolling \/ EvaluateMetrics \/ EvaluateHealth
         \/ LaunchReaders \/ Restart \/ Surroundings
<1>1. "telemetry" \in Topics /\ "health" \in Topics
  BY DEF Topics
<1>2. CASE TelemetryReader
  BY <1>1, <1>2 DEF TelemetryReader, Consume, Idling, Committing
<1>3. CASE HealthReader
  BY <1>1, <1>3 DEF HealthReader, Consume, Idling, Committing
<1>4. CASE Starter
  BY <1>4 DEF Starter, Surroundings
<1> QED
  BY <1>2, <1>3, <1>4 DEF Next, Service, Surroundings, Stopped, Blocked

LEMMA SurroundingsFrame ==
  ASSUME Surroundings
  PROVE  UNCHANGED <<log, committed, pc, position, unsaved, result, windows, healthState,
                     latest, rolling, analyses, restarts, rejoins, taken>>
BY DEF Surroundings, BeginStart, OpenReaders, EndStart, RequestShutdown, Shutdown, CancelConsumer,
       CloseConsumer, CloseReaders, CloseRepository, StorageChanges,
       vars, brokerVars, readerVars, memoryVars, repoVars, runVars, pastVars

LEMMA IdlingFrame ==
  ASSUME NEW t \in Topics, Idling(t)
  PROVE  /\ pc[t] \in {"check", "fetch", "backoff"}
         /\ \E label \in {"check", "fetch", "backoff", "exited"} : pc' = [pc EXCEPT ![t] = label]
         /\ UNCHANGED <<log, committed, position, unsaved, result, windows, healthState,
                        latest, rolling, analyses, restarts, rejoins, taken,
                        storageUp, cancelled, closed, run, starting, readers>>
BY DEF Idling, CheckClosed, FetchFails, BackoffOver, ExitReader, Goto,
       brokerVars, readerVars, memoryVars, repoVars, runVars, pastVars

------------------------------------------------------------------------------
(* Logs, offsets and goroutines *)

\* Where a goroutine has a message in hand that it could decode.
Handling == {"save", "aggregate", "roll", "evaluate", "analyse"}

AnyMessage == Messages("telemetry") \cup Messages("health")

ReaderInv ==
    /\ log \in [Topics -> Seq(AnyMessage)]
    /\ committed \in [Topics -> Nat]
    /\ position \in [Topics -> Nat]
    /\ pc \in [Topics -> Labels]
    /\ \A t \in Topics :
          /\ log[t] \in Seq(Messages(t))
          /\ Len(log[t]) <= MaxEvents[t]
          /\ committed[t] <= position[t]
          /\ position[t] <= Len(log[t])
          /\ pc[t] \in Handling \cup {"commit"} => position[t] < Len(log[t])
          /\ pc[t] \in Handling => Message(t) # Junk

LEMMA InitReaders == Init => ReaderInv
<1> SUFFICES ASSUME Init PROVE ReaderInv
  OBVIOUS
<1>1. \A S : << >> \in Seq(S) /\ Len(<< >>) = 0
  BY EmptySeq
<1>2. \A t \in Topics : MaxEvents[t] \in Nat
  BY AnalysisAssumption
<1> QED
  BY <1>1, <1>2 DEF Init, ReaderInv, Labels, Handling

LEMMA StepReaders == ReaderInv /\ [Next]_vars => ReaderInv'
<1> SUFFICES ASSUME ReaderInv, [Next]_vars PROVE ReaderInv'
  OBVIOUS
<1> USE DEF ReaderInv, Handling, Labels
<1>1. \A t \in Topics : Len(log[t]) \in Nat /\ Messages(t) \subseteq AnyMessage
  BY LenProperties DEF AnyMessage, Topics
<1>2. ASSUME NEW t \in Topics, Idling(t) PROVE ReaderInv'
  BY <1>2, IdlingFrame DEF Message
<1>3. ASSUME NEW t \in Topics, Fetch(t) PROVE ReaderInv'
  BY <1>1, <1>3 DEF Fetch, FetchMessage, Goto, Message, brokerVars
<1>4. ASSUME NEW t \in Topics, SaveLatest(t) PROVE ReaderInv'
  BY <1>4 DEF SaveLatest, AfterSave, Goto, Message, brokerVars
<1>5. ASSUME NEW t \in Topics, SaveAnalysis(t) PROVE ReaderInv'
  BY <1>5 DEF SaveAnalysis, Goto, Message, brokerVars
<1>6. ASSUME NEW t \in Topics, Committing(t) PROVE ReaderInv'
  <2>1. CASE CommitSucceeds(t)
    BY <1>1, <2>1 DEF CommitSucceeds, Goto, Message
  <2>2. CASE CommitFails(t)
    <3>1. PICK p \in {position[t] + 1, committed[t]} : position' = [position EXCEPT ![t] = p]
      BY <2>2 DEF CommitFails
    <3>2. UNCHANGED <<log, committed>> /\ pc' = [pc EXCEPT ![t] = "check"]
      BY <2>2 DEF CommitFails, Goto, brokerVars
    <3>3. p \in Nat /\ committed[t] <= p /\ p <= Len(log[t])
      BY <1>1, <2>2, <3>1 DEF CommitFails
    <3> QED
      BY <1>1, <3>1, <3>2, <3>3 DEF Message
  <2> QED
    BY <1>6, <2>1, <2>2 DEF Committing
<1>7. ASSUME NEW t \in Topics, Publish(t) PROVE ReaderInv'
  <2>1. PICK m \in Messages(t) : log' = [log EXCEPT ![t] = Append(@, m)]
    BY <1>7 DEF Publish
  <2>2. UNCHANGED <<committed, position, pc>> /\ Len(log[t]) < MaxEvents[t]
    BY <1>7 DEF Publish, readerVars
  <2>3. /\ Append(log[t], m) \in Seq(Messages(t))
        /\ Append(log[t], m) \in Seq(AnyMessage)
        /\ Len(Append(log[t], m)) = Len(log[t]) + 1
        /\ \A i \in 1..Len(log[t]) : Append(log[t], m)[i] = log[t][i]
    BY <1>1, AppendProperties
  <2>4. MaxEvents[t] \in Nat
    BY AnalysisAssumption
  <2>5. log' \in [Topics -> Seq(AnyMessage)] /\ log'[t] = Append(log[t], m)
        /\ \A u \in Topics \ {t} : log'[u] = log[u]
    BY <2>1, <2>3
  <2> HIDE DEF Handling, Labels
  <2>6. ASSUME NEW u \in Topics
        PROVE  /\ log'[u] \in Seq(Messages(u))
               /\ Len(log'[u]) <= MaxEvents[u]
               /\ Len(log[u]) <= Len(log'[u])
               /\ \A i \in 1..Len(log[u]) : log'[u][i] = log[u][i]
    <3> DEFINE Grows(v) == /\ log'[v] \in Seq(Messages(v))
                           /\ Len(log'[v]) <= MaxEvents[v]
                           /\ Len(log[v]) <= Len(log'[v])
                           /\ \A i \in 1..Len(log[v]) : log'[v][i] = log[v][i]
    <3>1. CASE u = t
      <4>1. Grows(t)
        BY <1>1, <2>2, <2>3, <2>4, <2>5
      <4> QED
        BY <3>1, <4>1, Zenon
    <3>2. CASE u # t
      BY <1>1, <2>5, <3>2
    <3> QED
      BY <3>1, <3>2
  <2>7. ASSUME NEW u \in Topics
        PROVE  /\ pc[u] \in Handling \cup {"commit"} => position[u] < Len(log'[u])
               /\ pc[u] \in Handling => log'[u][position[u] + 1] # Junk
               /\ position[u] <= Len(log'[u])
    <3>1. Len(log'[u]) \in Nat
      BY <2>6, LenProperties
    <3>2. position[u] < Len(log[u]) => position[u] + 1 \in 1..Len(log[u])
      BY <1>1
    <3>3. /\ pc[u] \in Handling \cup {"commit"} => position[u] < Len(log[u])
          /\ pc[u] \in Handling => log[u][position[u] + 1] # Junk
          /\ position[u] \in Nat /\ Len(log[u]) \in Nat /\ position[u] <= Len(log[u])
      BY <1>1 DEF Message
    <3>4. Len(log[u]) <= Len(log'[u])
      BY <2>6
    <3>5. ASSUME pc[u] \in Handling PROVE log'[u][position[u] + 1] # Junk
      <4>1. position[u] + 1 \in 1..Len(log[u])
        BY <3>2, <3>3, <3>5
      <4>2. log'[u][position[u] + 1] = log[u][position[u] + 1]
        BY <2>6, <4>1
      <4> QED
        BY <3>3, <3>5, <4>2
    <3> HIDE DEF ReaderInv
    <3> QED
      BY <3>1, <3>3, <3>4, <3>5
  <2> QED
    BY <2>2, <2>5, <2>6, <2>7 DEF Message
<1>8. CASE Aggregate
  BY <1>8 DEF Aggregate, Goto, Message, Topics, brokerVars
<1>9. CASE SaveRolling
  BY <1>9 DEF SaveRolling, Goto, Message, Topics, brokerVars
<1>10. CASE EvaluateMetrics
  BY <1>10 DEF EvaluateMetrics, Goto, Message, Topics, brokerVars
<1>11. CASE EvaluateHealth
  BY <1>11 DEF EvaluateHealth, Goto, Message, Topics, brokerVars
<1>12. CASE LaunchReaders
  BY <1>12 DEF LaunchReaders, LaunchLoops, brokerVars
<1>13. CASE Restart
  BY <1>1, <1>13 DEF Restart, brokerVars
<1>14. CASE Surroundings
  BY <1>14, SurroundingsFrame DEF Message
<1> QED
  BY <1>2, <1>3, <1>4, <1>5, <1>6, <1>7, <1>8, <1>9, <1>10, <1>11, <1>12, <1>13, <1>14, Steps

\* What a goroutine has in hand is an event of its topic.
LEMMA InHand ==
  ASSUME ReaderInv, NEW t \in Topics, pc[t] \in Handling
  PROVE  /\ Message(t) \in Messages(t) \ {Junk}
         /\ Device(t) \in Devices
         /\ t = "telemetry" => Message(t).sample \in Samples
         /\ t = "health" => Message(t).status \in Reported
<1>1. log[t] \in Seq(Messages(t)) /\ position[t] \in Nat /\ position[t] < Len(log[t])
      /\ Message(t) # Junk
  BY DEF ReaderInv
<1>2. position[t] + 1 \in 1..Len(log[t])
  BY <1>1, LenProperties
<1>3. Message(t) \in Messages(t) \ {Junk}
  BY <1>1, <1>2, ElementOfSeq DEF Message
<1> QED
  BY <1>3 DEF Messages, Device, Topics

------------------------------------------------------------------------------
(* Memory and repository *)

LEMMA Frames ==
  ASSUME [Next]_vars
  PROVE  /\ UNCHANGED <<windows, taken>> \/ Aggregate \/ Restart
         /\ UNCHANGED unsaved \/ Aggregate \/ SaveRolling \/ Restart
         /\ UNCHANGED healthState \/ EvaluateHealth \/ Restart
         /\ \/ UNCHANGED result \/ EvaluateMetrics \/ EvaluateHealth \/ Restart
            \/ \E t \in Topics : SaveAnalysis(t)
         /\ UNCHANGED latest \/ \E t \in Topics : SaveLatest(t)
         /\ UNCHANGED rolling \/ SaveRolling
         /\ UNCHANGED analyses \/ \E t \in Topics : SaveAnalysis(t)
         /\ UNCHANGED rejoins \/ \E t \in Topics : CommitFails(t)
         /\ UNCHANGED log \/ \E t \in Topics : Publish(t)
<1> USE DEF brokerVars, readerVars, memoryVars, repoVars, pastVars
<1>1. ASSUME NEW t \in Topics,
             Idling(t) \/ Fetch(t) \/ SaveLatest(t) \/ SaveAnalysis(t) \/ Committing(t) \/ Publish(t)
      PROVE  /\ UNCHANGED <<windows, taken, unsaved, healthState, rolling>>
             /\ UNCHANGED result \/ SaveAnalysis(t)
             /\ UNCHANGED latest \/ SaveLatest(t)
             /\ UNCHANGED analyses \/ SaveAnalysis(t)
             /\ UNCHANGED rejoins \/ CommitFails(t)
             /\ UNCHANGED log \/ Publish(t)
  BY <1>1, IdlingFrame DEF Fetch, SaveLatest, SaveAnalysis, Committing, CommitSucceeds, CommitFails,
     Publish
<1>2. CASE Aggregate \/ SaveRolling \/ EvaluateMetrics \/ EvaluateHealth \/ LaunchReaders
  BY <1>2 DEF Aggregate, SaveRolling, EvaluateMetrics, EvaluateHealth, LaunchReaders
<1>3. CASE Restart
  BY <1>3 DEF Restart
<1>4. CASE Surroundings
  BY <1>4, SurroundingsFrame
<1> QED
  BY <1>1, <1>2, <1>3, <1>4, Steps

MemoryInv ==
    /\ unsaved \subseteq DOMAIN Windows
    /\ result \in [Topics -> SUBSET Anomaly]
    /\ windows \in [Devices -> [DOMAIN Windows -> Seq(Samples)]]
    /\ healthState \in [Devices -> Reported \cup {None}]
    /\ taken \in [Devices -> Seq(Samples)]

WindowsKept == \A d \in Devices, w \in DOMAIN Windows : Keeps(windows[d][w], taken[d], Windows[w])

LEMMA InitMemory == Init => MemoryInv /\ WindowsKept
<1> SUFFICES ASSUME Init PROVE MemoryInv /\ WindowsKept
  OBVIOUS
<1>1. \A S : << >> \in Seq(S) /\ Len(<< >>) = 0
  BY EmptySeq
<1>2. SubSeq(<< >>, 1, 0) = << >>
  BY SubSeqEmpty
<1>3. MemoryInv
  BY <1>1 DEF Init, MemoryInv, EmptyWindows
<1>4. WindowsKept
  BY <1>1, <1>2 DEF Init, WindowsKept, Keeps, EmptyWindows
<1> QED
  BY <1>3, <1>4

LEMMA StepWindows ==
  ASSUME ReaderInv, MemoryInv, WindowsKept, [Next]_vars
  PROVE  /\ windows' \in [Devices -> [DOMAIN Windows -> Seq(Samples)]]
         /\ taken' \in [Devices -> Seq(Samples)]
         /\ WindowsKept'
<1>1. CASE UNCHANGED <<windows, taken>>
  BY <1>1 DEF MemoryInv, WindowsKept
<1>2. CASE Aggregate
  <2> DEFINE d == Device("telemetry")
             s == Message("telemetry").sample
             added == [w \in DOMAIN Windows |-> AddSample(windows[d][w], s, Windows[w])]
             all == Append(taken[d], s)
  <2>1. d \in Devices /\ s \in Samples
    BY <1>2, InHand DEF Aggregate, Handling, Topics
  <2>2. windows' = [windows EXCEPT ![d] = added] /\ taken' = [taken EXCEPT ![d] = all]
    BY <1>2 DEF Aggregate
  <2> HIDE DEF d, s
  <2>3. ASSUME NEW w \in DOMAIN Windows
        PROVE  Keeps(added[w], all, Windows[w]) /\ added[w] \in Seq(Samples)
    BY <2>1, AddSampleKeeps, AnalysisAssumption DEF MemoryInv, WindowsKept
  <2>4. all \in Seq(Samples)
    BY <2>1, AppendProperties DEF MemoryInv
  <2>5. added \in [DOMAIN Windows -> Seq(Samples)]
    <3>1. added = [w \in DOMAIN Windows |-> added[w]]
      BY Zenon
    <3> HIDE DEF added
    <3> QED
      BY <2>3, <3>1
  <2> HIDE DEF added, all
  <2>6. /\ windows' \in [Devices -> [DOMAIN Windows -> Seq(Samples)]] /\ windows'[d] = added
        /\ taken' \in [Devices -> Seq(Samples)] /\ taken'[d] = all
        /\ \A e \in Devices \ {d} : windows'[e] = windows[e] /\ taken'[e] = taken[e]
    BY <2>1, <2>2, <2>4, <2>5 DEF MemoryInv
  <2>7. ASSUME NEW e \in Devices, NEW w \in DOMAIN Windows
        PROVE  Keeps(windows'[e][w], taken'[e], Windows[w])
    <3>1. CASE e = d
      BY <2>3, <2>6, <3>1, Zenon
    <3>2. CASE e # d
      <4>1. windows'[e] = windows[e] /\ taken'[e] = taken[e]
        BY <2>6, <3>2
      <4>2. Keeps(windows[e][w], taken[e], Windows[w])
        BY DEF WindowsKept
      <4> QED
        BY <4>1, <4>2, Zenon
    <3> QED
      BY <3>1, <3>2
  <2> QED
    BY <2>6, <2>7 DEF WindowsKept
<1>3. CASE Restart
  <2>1. << >> \in Seq(Samples) /\ Len(<< >>) = 0
    BY EmptySeq
  <2>2. SubSeq(<< >>, 1, 0) = << >>
    BY SubSeqEmpty
  <2>3. windows' = EmptyWindows /\ taken' = [d \in Devices |-> << >>]
    BY <1>3 DEF Restart
  <2>4. \A w \in DOMAIN Windows : Keeps(<< >>, << >>, Windows[w])
    BY <2>1, <2>2 DEF Keeps
  <2> QED
    BY <2>1, <2>3, <2>4 DEF EmptyWindows, WindowsKept
<1> QED
  BY <1>1, <1>2, <1>3, Frames

LEMMA StepMemory ==
  ASSUME ReaderInv, MemoryInv, WindowsKept, [Next]_vars
  PROVE  MemoryInv' /\ WindowsKept'
<1>1. /\ windows' \in [Devices -> [DOMAIN Windows -> Seq(Samples)]]
      /\ taken' \in [Devices -> Seq(Samples)]
      /\ WindowsKept'
  BY StepWindows
<1>2. unsaved' \subseteq DOMAIN Windows
  BY Frames DEF MemoryInv, Aggregate, SaveRolling, Restart
<1>3. healthState' \in [Devices -> Reported \cup {None}]
  <2>1. CASE EvaluateHealth
    <3>1. Device("health") \in Devices /\ Message("health").status \in Reported
      BY <2>1, InHand DEF EvaluateHealth, Handling, Topics
    <3> QED
      BY <2>1, <3>1 DEF EvaluateHealth, MemoryInv
  <2>2. CASE Restart
    BY <2>2 DEF Restart
  <2> QED
    BY <2>1, <2>2, Frames DEF MemoryInv
<1>4. result' \in [Topics -> SUBSET Anomaly]
  <2>1. CASE EvaluateMetrics
    <3> DEFINE d == Device("telemetry")
    <3>1. d \in Devices
      BY <2>1, InHand DEF EvaluateMetrics, Handling, Topics
    <3> HIDE DEF d
    <3>2. PICK w \in TargetWindows :
             result' = [result EXCEPT !["telemetry"] =
                MetricAnomalies(CalculateMetrics(windows[d][w])) \cup HealthToAnomaly(healthState[d])]
      BY <2>1 DEF EvaluateMetrics, d
    <3>3. w \in DOMAIN Windows
      BY DEF TargetWindows
    <3>4. windows[d][w] \in Seq(Samples)
      BY <3>1, <3>3 DEF MemoryInv
    <3>5. CalculateMetrics(windows[d][w]) \in RollingMetrics
      BY <3>4, MetricsTyped, AnalysisAssumption
    <3>6. MetricAnomalies(CalculateMetrics(windows[d][w])) \cup HealthToAnomaly(healthState[d])
             \in SUBSET Anomaly
      BY <3>5, MetricAnomaliesTyped, HealthAnomalyTyped
    <3> QED
      BY <3>2, <3>6 DEF MemoryInv
  <2>2. CASE EvaluateHealth
    <3>1. HealthToAnomaly(Message("health").status) \in SUBSET Anomaly
      BY HealthAnomalyTyped
    <3> QED
      BY <2>2, <3>1 DEF EvaluateHealth, MemoryInv
  <2>3. ASSUME NEW t \in Topics, SaveAnalysis(t) PROVE result' \in [Topics -> SUBSET Anomaly]
    BY <2>3 DEF SaveAnalysis, MemoryInv
  <2>4. CASE Restart
    BY <2>4 DEF Restart
  <2> QED
    BY <2>1, <2>2, <2>3, <2>4, Frames DEF MemoryInv
<1> QED
  BY <1>1, <1>2, <1>3, <1>4 DEF MemoryInv

RepositoryInv ==
    /\ latest \in [Topics -> [Devices -> AnyMessage \cup {None}]]
    /\ \A t \in Topics, d \in Devices : latest[t][d] \in {None} \cup (Messages(t) \ {Junk})
    /\ rolling \in [Devices -> [DOMAIN Windows -> RollingMetrics \cup {None}]]
    /\ analyses \in [Devices -> (SUBSET Anomaly) \cup {None}]

LEMMA StepRepository ==
  ASSUME ReaderInv, MemoryInv, RepositoryInv, [Next]_vars
  PROVE  RepositoryInv'
<1>1. /\ latest' \in [Topics -> [Devices -> AnyMessage \cup {None}]]
      /\ \A t \in Topics, d \in Devices : latest'[t][d] \in {None} \cup (Messages(t) \ {Junk})
  <2>1. ASSUME NEW t \in Topics, SaveLatest(t), latest' # latest
        PROVE  /\ latest' \in [Topics -> [Devices -> AnyMessage \cup {None}]]
               /\ \A u \in Topics, d \in Devices :
                     latest'[u][d] \in {None} \cup (Messages(u) \ {Junk})
    <3> DEFINE e == Device(t)
               m == Message(t)
    <3>1. latest' = [latest EXCEPT ![t][e] = m]
      BY <2>1 DEF SaveLatest
    <3>2. e \in Devices /\ m \in Messages(t) \ {Junk}
      BY <2>1, InHand DEF SaveLatest, Handling
    <3>3. m \in AnyMessage
      BY <3>2 DEF AnyMessage, Topics
    <3> HIDE DEF e, m
    <3>4. /\ latest' \in [Topics -> [Devices -> AnyMessage \cup {None}]]
          /\ latest'[t][e] = m
          /\ \A u \in Topics, d \in Devices : u # t \/ d # e => latest'[u][d] = latest[u][d]
      BY <3>1, <3>2, <3>3 DEF RepositoryInv
    <3>5. ASSUME NEW u \in Topics, NEW d \in Devices
          PROVE  latest'[u][d] \in {None} \cup (Messages(u) \ {Junk})
      <4>1. CASE u = t /\ d = e
        <5>1. latest'[t][e] \in {None} \cup (Messages(t) \ {Junk})
          BY <3>2, <3>4
        <5> QED
          BY <4>1, <5>1, Zenon
      <4>2. CASE u # t \/ d # e
        BY <3>4, <4>2 DEF RepositoryInv
      <4> QED
        BY <4>1, <4>2
    <3> QED
      BY <3>4, <3>5
  <2> QED
    BY <2>1, Frames DEF RepositoryInv
<1>2. rolling' \in [Devices -> [DOMAIN Windows -> RollingMetrics \cup {None}]]
  <2>1. ASSUME SaveRolling, rolling' # rolling
        PROVE  rolling' \in [Devices -> [DOMAIN Windows -> RollingMetrics \cup {None}]]
    <3> DEFINE d == Device("telemetry")
    <3>1. d \in Devices
      BY <2>1, InHand DEF SaveRolling, Handling, Topics
    <3> HIDE DEF d
    <3>2. PICK w \in unsaved : rolling' = [rolling EXCEPT ![d][w] = CalculateMetrics(windows[d][w])]
      BY <2>1 DEF SaveRolling, d
    <3>3. w \in DOMAIN Windows
      BY DEF MemoryInv
    <3>4. windows[d][w] \in Seq(Samples)
      BY <3>1, <3>3 DEF MemoryInv
    <3>5. CalculateMetrics(windows[d][w]) \in RollingMetrics
      BY <3>4, MetricsTyped, AnalysisAssumption
    <3> QED
      BY <3>1, <3>2, <3>3, <3>5 DEF RepositoryInv
  <2> QED
    BY <2>1, Frames DEF RepositoryInv
<1>3. analyses' \in [Devices -> (SUBSET Anomaly) \cup {None}]
  <2>1. ASSUME NEW t \in Topics, SaveAnalysis(t)
        PROVE  analyses' \in [Devices -> (SUBSET Anomaly) \cup {None}]
    <3>1. Device(t) \in Devices /\ result[t] \in SUBSET Anomaly
      BY <2>1, InHand DEF SaveAnalysis, Handling, MemoryInv
    <3> QED
      BY <2>1, <3>1 DEF SaveAnalysis, RepositoryInv
  <2> QED
    BY <2>1, Frames DEF RepositoryInv
<1> QED
  BY <1>1, <1>2, <1>3 DEF RepositoryInv

------------------------------------------------------------------------------
(* The life of the process *)

LifeInv ==
    /\ run \in {"serving", "draining", "closing", "closingReaders", "waiting", "stopped"}
    /\ starting \in {"called", "refused", "opening", "launching", "waiting", "returned"}
    /\ readers \in {"none", "open", "closed"}
    /\ restarts \in 0..MaxRestarts /\ rejoins \in 0..MaxRejoins

\* Without trouble of the repository and without shutdown every write lands.
Quiet == Faults \cap {"storage", "shutdown"} = {}

SwitchInv ==
    /\ storageUp \in BOOLEAN /\ cancelled \in BOOLEAN /\ closed \in BOOLEAN
    /\ Quiet => storageUp /\ ~cancelled /\ run = "serving"

LEMMA InitLife == Init => LifeInv /\ SwitchInv
<1> SUFFICES ASSUME Init PROVE LifeInv /\ SwitchInv
  OBVIOUS
<1>1. LifeInv
  BY AnalysisAssumption DEF Init, LifeInv
<1>2. SwitchInv
  BY Zenon DEF Init, SwitchInv
<1> QED
  BY <1>1, <1>2

LEMMA StepLife ==
  ASSUME LifeInv, SwitchInv, [Next]_vars
  PROVE  LifeInv' /\ SwitchInv'
<1> USE AnalysisAssumption
<1>1. ASSUME NEW t \in Topics,
             Idling(t) \/ Fetch(t) \/ SaveLatest(t) \/ SaveAnalysis(t) \/ Committing(t) \/ Publish(t)
      PROVE  LifeInv' /\ SwitchInv'
  <2>1. UNCHANGED <<storageUp, cancelled, closed, run, starting, readers, restarts>>
    BY <1>1, IdlingFrame DEF Fetch, SaveLatest, SaveAnalysis, Committing, CommitSucceeds,
       CommitFails, Publish, runVars, pastVars
  <2>2. rejoins' \in 0..MaxRejoins
    BY <1>1, Frames DEF LifeInv, CommitFails
  <2> QED
    BY <2>1, <2>2 DEF LifeInv, SwitchInv
<1>2. CASE Aggregate \/ SaveRolling \/ EvaluateMetrics \/ EvaluateHealth
  BY <1>2 DEF Aggregate, SaveRolling, EvaluateMetrics, EvaluateHealth, LifeInv, SwitchInv,
     runVars, pastVars
<1>3. CASE LaunchReaders
  BY <1>3 DEF LaunchReaders, LifeInv, SwitchInv, pastVars
<1>4. CASE Restart
  <2>1. LifeInv'
    BY <1>4 DEF Restart, LifeInv
  <2>2. SwitchInv'
    BY <1>4, Zenon DEF Restart, SwitchInv
  <2> QED
    BY <2>1, <2>2
<1>5. CASE Surroundings
  <2> USE DEF Surroundings, BeginStart, OpenReaders, EndStart, RequestShutdown, Shutdown,
              CancelConsumer, CloseConsumer, CloseReaders, CloseRepository, GoRun, StorageChanges,
              vars, runVars
  <2>1. restarts' = restarts /\ rejoins' = rejoins
    BY <1>5, SurroundingsFrame
  <2>2. LifeInv'
    BY <1>5, <2>1 DEF LifeInv
  <2> DEFINE Turns ==
        /\ storageUp' = storageUp \/ ("storage" \in Faults /\ storageUp' = ~storageUp)
        /\ cancelled' = cancelled \/ cancelled' = TRUE
        /\ closed' = closed \/ closed' = TRUE
        /\ \/ cancelled' = cancelled /\ run' = run
           \/ run # "serving"
           \/ "shutdown" \in Faults
  <2>3. Turns
    <3>1. CASE BeginStart
      BY <3>1
    <3>2. CASE OpenReaders
      BY <3>2
    <3>3. CASE EndStart
      BY <3>3
    <3>4. CASE RequestShutdown
      BY <3>4
    <3>5. CASE CancelConsumer
      BY <3>5
    <3>6. CASE CloseConsumer
      BY <3>6
    <3>7. CASE CloseReaders
      BY <3>7
    <3>8. CASE CloseRepository
      BY <3>8
    <3>9. CASE StorageChanges
      BY <3>9
    <3>10. CASE UNCHANGED vars
      BY <3>10
    <3> QED
      BY <1>5, <3>1, <3>2, <3>3, <3>4, <3>5, <3>6, <3>7, <3>8, <3>9, <3>10 DEF Surroundings, Shutdown
  <2>4. Quiet => "storage" \notin Faults /\ "shutdown" \notin Faults
    BY DEF Quiet
  <2>5. storageUp' \in BOOLEAN /\ cancelled' \in BOOLEAN /\ closed' \in BOOLEAN
    BY <2>3, Zenon DEF SwitchInv
  <2>6. ASSUME Quiet PROVE storageUp' /\ ~cancelled' /\ run' = "serving"
    <3>1. storageUp /\ ~cancelled /\ run = "serving"
      BY <2>6 DEF SwitchInv
    <3>2. storageUp' = storageUp
      BY <2>3, <2>4, <2>6
    <3>3. cancelled' = cancelled /\ run' = run
      BY <2>3, <2>4, <2>6, <3>1
    <3> QED
      BY <3>1, <3>2, <3>3
  <2> QED
    BY <2>2, <2>5, <2>6 DEF SwitchInv
<1> QED
  BY <1>1, <1>2, <1>3, <1>4, <1>5, Steps

------------------------------------------------------------------------------

\* Types, offsets, windows and the quiet that Faults promises, all at once.
IInv == ReaderInv /\ MemoryInv /\ WindowsKept /\ RepositoryInv /\ LifeInv /\ SwitchInv

LEMMA InitInvariant == Init => IInv
<1> SUFFICES ASSUME Init PROVE IInv
  OBVIOUS
<1>1. RepositoryInv
  BY DEF Init, RepositoryInv
<1> QED
  BY <1>1, InitLife, InitReaders, InitMemory DEF IInv

LEMMA StepInvariant == IInv /\ [Next]_vars => IInv'
<1> SUFFICES ASSUME IInv, [Next]_vars PROVE IInv'
  OBVIOUS
<1> QED
  BY StepReaders, StepMemory, StepRepository, StepLife DEF IInv

LEMMA Inductive == Spec => []IInv
BY InitInvariant, StepInvariant, PTL DEF Spec

\* The logs, offsets, goroutines, memory and repository keep their shape; a committed
\* offset never passes the reader nor the end of its topic, through crashes and rejoins.
THEOREM TypeCorrect == Spec => []TypeOK
<1>1. IInv => TypeOK
  <2> SUFFICES ASSUME IInv PROVE TypeOK
    OBVIOUS
  <2>1. ASSUME NEW t \in Topics
        PROVE  /\ Len(log[t]) <= MaxEvents[t] /\ \A i \in DOMAIN log[t] : log[t][i] \in Messages(t)
               /\ pc[t] \in Labels
               /\ committed[t] \in 0..position[t]
               /\ position[t] \in 0..Len(log[t])
               /\ pc[t] \notin {"off", "check", "fetch", "backoff", "exited"}
                     => position[t] < Len(log[t])
    <3>1. Len(log[t]) \in Nat
      BY LenProperties DEF IInv, ReaderInv
    <3> QED
      BY <3>1, ElementOfSeq DEF IInv, ReaderInv, Labels, Handling
  <2>2. \A t \in Topics : result[t] \subseteq Anomaly
    BY DEF IInv, MemoryInv
  <2>3. \A d \in Devices : /\ \A w \in DOMAIN Windows : rolling[d][w] \in RollingMetrics \cup {None}
                           /\ healthState[d] \in Reported \cup {None}
                           /\ analyses[d] = None \/ analyses[d] \subseteq Anomaly
                           /\ \A i \in DOMAIN taken[d] : taken[d][i] \in Samples
    BY DEF IInv, MemoryInv, RepositoryInv
  <2> QED
    BY <2>1, <2>2, <2>3 DEF IInv, MemoryInv, RepositoryInv, LifeInv, SwitchInv, TypeOK
<1> QED
  BY Inductive, <1>1, PTL

\* Such a window holds each sample once, in order, none is missing that never was too old,
\* and of samples in the order of their times none is too old.
LEMMA KeptExactly ==
  ASSUME NEW S, S \subseteq Sample, NEW all \in Seq(S), NEW duration \in Nat,
         NEW kept, Keeps(kept, all, duration)
  PROVE  \E from \in [DOMAIN kept -> DOMAIN all] :
            /\ \A k, l \in DOMAIN kept : k < l => from[k] < from[l]
            /\ \A k \in DOMAIN kept : kept[k] = all[from[k]]
            /\ \A i \in DOMAIN all :
                  (\A j \in i..Len(all) : ~(all[i].at < all[j].at - duration))
                      => \E k \in DOMAIN kept : from[k] = i
            /\ (\A i, j \in DOMAIN all : i <= j => all[i].at <= all[j].at) =>
                  \A k \in DOMAIN kept : ~(all[from[k]].at < all[Len(all)].at - duration)
<1> DEFINE was == Len(all) - Len(kept)
           from == [k \in DOMAIN kept |-> was + k]
<1>1. /\ was \in Nat /\ was <= Len(all) /\ Len(kept) = Len(all) - was
      /\ \A i \in 1..Len(kept) : kept[i] = all[was + i]
  BY KeptAt
<1>2. kept \in Seq(S)
  BY KeptAt
<1>3. /\ Len(all) \in Nat /\ DOMAIN all = 1..Len(all)
      /\ Len(kept) \in Nat /\ DOMAIN kept = 1..Len(kept)
  BY <1>2, LenProperties
<1>4. \A i \in 1..Len(all) : all[i].at \in Int
  <2>1. \A i \in 1..Len(all) : all[i] \in Sample
    BY ElementOfSeq
  <2> QED
    BY <2>1 DEF Sample
<1>5. /\ \A i \in 1..was : \E j \in i..Len(all) : all[i].at < all[j].at - duration
      /\ all # << >> => ~(all[was + 1].at < all[Len(all)].at - duration)
  BY DEF Keeps
<1> HIDE DEF was
<1>6. from \in [DOMAIN kept -> DOMAIN all]
  BY <1>1, <1>3
<1>7. \A k \in DOMAIN kept : from[k] = was + k
  OBVIOUS
<1> HIDE DEF from
<1>8. \A k, l \in DOMAIN kept : k < l => from[k] < from[l]
  BY <1>1, <1>3, <1>7
<1>9. \A k \in DOMAIN kept : kept[k] = all[from[k]]
  BY <1>1, <1>3, <1>7
<1>10. ASSUME NEW i \in DOMAIN all,
              \A j \in i..Len(all) : ~(all[i].at < all[j].at - duration)
       PROVE  \E k \in DOMAIN kept : from[k] = i
  <2>1. i \notin 1..was
    BY <1>5, <1>10
  <2>2. i - was \in DOMAIN kept
    BY <1>1, <1>3, <2>1
  <2>3. from[i - was] = i
    BY <1>1, <1>3, <1>7, <2>2
  <2> QED
    BY <2>2, <2>3
<1>11. ASSUME \A i, j \in DOMAIN all : i <= j => all[i].at <= all[j].at,
              NEW k \in DOMAIN kept
       PROVE  ~(all[from[k]].at < all[Len(all)].at - duration)
  <2>1. /\ was + 1 \in DOMAIN all /\ from[k] \in DOMAIN all /\ Len(all) \in DOMAIN all
        /\ was + 1 <= from[k]
    BY <1>1, <1>3, <1>7
  <2>2. all # << >>
    BY <1>3, <2>1
  <2>3. ~(all[was + 1].at < all[Len(all)].at - duration)
    BY <1>5, <2>2
  <2>4. all[was + 1].at <= all[from[k]].at
    BY <1>11, <2>1
  <2>5. all[was + 1].at \in Int /\ all[from[k]].at \in Int /\ all[Len(all)].at \in Int
    BY <1>3, <1>4, <2>1
  <2> QED
    BY <2>3, <2>4, <2>5
<1> QED
  BY <1>6, <1>8, <1>9, <1>10, <1>11

\* Each window of a device holds the samples of that device the process has aggregated,
\* redelivered ones again, once each and in order, misses none that was never too old for one
\* after it, whatever the order of their times, and keeps none too old when they came in order.
THEOREM WindowsAreExact == Spec => []WindowsExact
<1>1. IInv => WindowsExact
  <2> SUFFICES ASSUME IInv, NEW d \in Devices, NEW w \in DOMAIN Windows
               PROVE  LET all  == taken[d]
                          kept == windows[d][w]
                          TooOldFor(i, j) == all[i].at < all[j].at - Windows[w]
                      IN \E from \in [DOMAIN kept -> DOMAIN all] :
                            /\ \A k, l \in DOMAIN kept : k < l => from[k] < from[l]
                            /\ \A k \in DOMAIN kept : kept[k] = all[from[k]]
                            /\ \A i \in DOMAIN all :
                                  (\A j \in i..Len(all) : ~TooOldFor(i, j))
                                      => \E k \in DOMAIN kept : from[k] = i
                            /\ (\A i, j \in DOMAIN all : i <= j => all[i].at <= all[j].at) =>
                                  \A k \in DOMAIN kept : ~TooOldFor(from[k], Len(all))
    BY Zenon DEF WindowsExact
  <2>1. taken[d] \in Seq(Samples) /\ Keeps(windows[d][w], taken[d], Windows[w])
    BY DEF IInv, MemoryInv, WindowsKept
  <2>2. Samples \subseteq Sample /\ Windows[w] \in Nat
    BY AnalysisAssumption
  <2> QED
    BY <2>1, <2>2, KeptExactly, Zenon
<1> QED
  BY Inductive, <1>1, PTL

------------------------------------------------------------------------------
(* The projection of a topic in the repository *)

\* LastOf, of any sequence of messages.
Mine(s, d, n) == {i \in 1..n : s[i] # Junk /\ s[i].device = d}
Newest(offsets) == CHOOSE i \in offsets : \A j \in offsets : j <= i
LastIn(s, d, n) == IF Mine(s, d, n) = {} THEN None ELSE s[Newest(Mine(s, d, n))]

LEMMA LastOfIsLastIn == \A t \in Topics, d \in Devices, n \in Nat : LastOf(t, d, n) = LastIn(log[t], d, n)
BY Zenon DEF LastOf, LastIn, Mine, Newest

\* One message more is the last of its device and leaves the others' as they are.
LEMMA LastInStep ==
  ASSUME NEW s, NEW d, NEW n \in Nat
  PROVE  /\ (s[n + 1] # Junk /\ s[n + 1].device = d) => LastIn(s, d, n + 1) = s[n + 1]
         /\ ~(s[n + 1] # Junk /\ s[n + 1].device = d) => LastIn(s, d, n + 1) = LastIn(s, d, n)
<1>1. CASE s[n + 1] # Junk /\ s[n + 1].device = d
  <2> DEFINE mine == Mine(s, d, n + 1)
             last == Newest(mine)
  <2>1. n + 1 \in mine /\ \A j \in mine : j \in Nat /\ j <= n + 1
    BY <1>1 DEF Mine
  <2> HIDE DEF mine
  <2>2. last \in mine /\ \A j \in mine : j <= last
    BY <2>1 DEF Newest
  <2> HIDE DEF last
  <2>3. last = n + 1
    BY <2>1, <2>2
  <2>4. LastIn(s, d, n + 1) = s[last]
    BY <2>1, Zenon DEF LastIn, mine, last
  <2> QED
    BY <1>1, <2>3, <2>4
<1>2. CASE ~(s[n + 1] # Junk /\ s[n + 1].device = d)
  <2>1. Mine(s, d, n + 1) = Mine(s, d, n)
    <3>1. \A i : i \in 1..(n + 1) <=> i \in 1..n \/ i = n + 1
      OBVIOUS
    <3> QED
      BY <1>2, <3>1 DEF Mine
  <2> QED
    BY <1>2, <2>1, Zenon DEF LastIn
<1> QED
  BY <1>1, <1>2

\* What is appended later does not change what came last before.
LEMMA LastInKept ==
  ASSUME NEW n \in Nat, NEW s, NEW longer, \A i \in 1..n : longer[i] = s[i], NEW d
  PROVE  LastIn(longer, d, n) = LastIn(s, d, n)
<1>1. Mine(longer, d, n) = Mine(s, d, n)
  BY DEF Mine
<1> DEFINE mine == Mine(s, d, n)
           last == Newest(mine)
<1>2. mine \in SUBSET (1..n)
  BY DEF Mine
<1> HIDE DEF mine
<1>3. mine # {} => last \in mine
  BY <1>2, Greatest DEF Newest
<1> HIDE DEF last
<1>4. mine # {} => longer[last] = s[last]
  BY <1>2, <1>3
<1>5. /\ LastIn(s, d, n) = IF mine = {} THEN None ELSE s[last]
      /\ LastIn(longer, d, n) = IF mine = {} THEN None ELSE longer[last]
  BY <1>1, Zenon DEF LastIn, mine, last
<1> QED
  BY <1>4, <1>5

\* How much of topic t the running process has projected or passed over.
ProjectedTo(t) ==
    IF pc[t] \in {"aggregate", "roll", "evaluate", "analyse", "commit"} THEN position[t] + 1 ELSE position[t]

\* The stored events of a topic are the last ones of some prefix of the log that reaches at
\* least as far as the reader: farther, when it goes again over what was projected before.
ProjectionInv ==
    \A t \in Topics, d \in Devices :
        \E n \in ProjectedTo(t)..Len(log[t]) : latest[t][d] = LastIn(log[t], d, n)

\* Nothing but a message that is projected or passed over brings a reader on.
LEMMA ReaderAdvances ==
  ASSUME ReaderInv, [Next]_vars, NEW u \in Topics
  PROVE  \/ ProjectedTo(u)' <= ProjectedTo(u)
         \/ /\ SaveLatest(u) \/ (Fetch(u) /\ Message(u) = Junk)
            /\ ProjectedTo(u)' = position[u] + 1 /\ ProjectedTo(u) = position[u]
            /\ position[u] < Len(log[u])
<1> USE DEF ProjectedTo, ReaderInv, Labels, Handling
<1>1. ASSUME NEW t \in Topics, Idling(t) PROVE ProjectedTo(u)' <= ProjectedTo(u)
  <2>1. PICK label \in {"check", "fetch", "backoff", "exited"} : pc' = [pc EXCEPT ![t] = label]
    BY <1>1, IdlingFrame
  <2>2. UNCHANGED position /\ pc[t] \in {"check", "fetch", "backoff"}
    BY <1>1, IdlingFrame
  <2> QED
    BY <2>1, <2>2
<1>2. ASSUME NEW t \in Topics, Fetch(t), ~(t = u /\ Message(u) = Junk)
      PROVE  ProjectedTo(u)' <= ProjectedTo(u)
  BY <1>2 DEF Fetch, FetchMessage, Goto
<1>3. ASSUME NEW t \in Topics, SaveLatest(t), t # u PROVE ProjectedTo(u)' <= ProjectedTo(u)
  BY <1>3 DEF SaveLatest, Goto, AfterSave
<1>4. ASSUME NEW t \in Topics, SaveAnalysis(t) PROVE ProjectedTo(u)' <= ProjectedTo(u)
  BY <1>4 DEF SaveAnalysis, Goto
<1>5. ASSUME NEW t \in Topics, Committing(t) PROVE ProjectedTo(u)' <= ProjectedTo(u)
  <2>1. PICK p \in {position[t] + 1, committed[t]} : position' = [position EXCEPT ![t] = p]
    BY <1>5 DEF Committing, CommitSucceeds, CommitFails
  <2>2. pc[t] = "commit" /\ pc' = [pc EXCEPT ![t] = "check"]
    BY <1>5 DEF Committing, CommitSucceeds, CommitFails, Goto
  <2>3. p \in Nat /\ p <= position[t] + 1
    BY <2>1
  <2> QED
    BY <2>1, <2>2, <2>3
<1>6. ASSUME NEW t \in Topics, Publish(t) PROVE ProjectedTo(u)' <= ProjectedTo(u)
  BY <1>6 DEF Publish, readerVars
<1>7. CASE Aggregate
  BY <1>7 DEF Aggregate, Goto, Topics
<1>8. CASE SaveRolling
  BY <1>8 DEF SaveRolling, Goto, Topics
<1>9. CASE EvaluateMetrics
  BY <1>9 DEF EvaluateMetrics, Goto, Topics
<1>10. CASE EvaluateHealth
  BY <1>10 DEF EvaluateHealth, Goto, Topics
<1>11. CASE LaunchReaders
  BY <1>11 DEF LaunchReaders, LaunchLoops
<1>12. CASE Restart
  BY <1>12 DEF Restart
<1>13. CASE Surroundings
  BY <1>13, SurroundingsFrame
<1>14. CASE Fetch(u) /\ Message(u) = Junk
  BY <1>14 DEF Fetch, FetchMessage, Goto
<1>15. CASE SaveLatest(u)
  BY <1>15 DEF SaveLatest, Goto, AfterSave
<1> QED
  BY <1>1, <1>2, <1>3, <1>4, <1>5, <1>6, <1>7, <1>8, <1>9, <1>10, <1>11, <1>12, <1>13, <1>14, <1>15,
     Steps

\* What is published stays.
LEMMA LogGrows ==
  ASSUME ReaderInv, [Next]_vars, NEW u \in Topics
  PROVE  /\ Len(log[u]) <= Len(log'[u])
         /\ \A i \in 1..Len(log[u]) : log'[u][i] = log[u][i]
<1>1. Len(log[u]) \in Nat
  BY LenProperties DEF ReaderInv
<1>2. ASSUME NEW t \in Topics, Publish(t)
      PROVE  /\ Len(log[u]) <= Len(log'[u])
             /\ \A i \in 1..Len(log[u]) : log'[u][i] = log[u][i]
  <2>1. PICK m \in Messages(t) : log' = [log EXCEPT ![t] = Append(@, m)]
    BY <1>2 DEF Publish
  <2>2. /\ Len(Append(log[t], m)) = Len(log[t]) + 1
        /\ \A i \in 1..Len(log[t]) : Append(log[t], m)[i] = log[t][i]
    BY AppendProperties DEF ReaderInv
  <2> QED
    BY <1>1, <2>1, <2>2 DEF ReaderInv
<1> QED
  BY <1>1, <1>2, Frames

\* Writes land: the repository answers and no shutdown cuts them.
Writable == storageUp /\ ~cancelled

LEMMA StepProjection ==
  ASSUME IInv, Writable, ProjectionInv, [Next]_vars
  PROVE  ProjectionInv'
<1> SUFFICES ASSUME NEW u \in Topics, NEW d \in Devices
             PROVE  \E n \in ProjectedTo(u)'..Len(log'[u]) : latest'[u][d] = LastIn(log'[u], d, n)
  BY DEF ProjectionInv
<1>1. PICK n \in ProjectedTo(u)..Len(log[u]) : latest[u][d] = LastIn(log[u], d, n)
  BY DEF ProjectionInv
<1>2. /\ position[u] \in Nat /\ position'[u] \in Nat
      /\ Len(log[u]) \in Nat /\ Len(log'[u]) \in Nat
      /\ ProjectedTo(u) \in Nat /\ ProjectedTo(u)' \in Nat
  <2>1. ReaderInv /\ ReaderInv'
    BY StepReaders DEF IInv
  <2> QED
    BY <2>1, LenProperties DEF ReaderInv, ProjectedTo
<1>3. n \in Nat /\ ProjectedTo(u) <= n /\ n <= Len(log[u])
  BY <1>1, <1>2
<1>4. /\ Len(log[u]) <= Len(log'[u])
      /\ LastIn(log'[u], d, n) = LastIn(log[u], d, n)
  <2>1. /\ Len(log[u]) <= Len(log'[u])
        /\ \A i \in 1..Len(log[u]) : log'[u][i] = log[u][i]
    BY LogGrows DEF IInv
  <2>2. \A i \in 1..n : log'[u][i] = log[u][i]
    BY <1>2, <1>3, <2>1
  <2> QED
    BY <1>3, <2>1, <2>2, LastInKept
<1>5. CASE ProjectedTo(u)' <= ProjectedTo(u) /\ latest'[u][d] = latest[u][d]
  BY <1>1, <1>2, <1>3, <1>4, <1>5
<1>6. CASE Fetch(u) /\ Message(u) = Junk /\ ProjectedTo(u)' = position[u] + 1
           /\ ProjectedTo(u) = position[u] /\ position[u] < Len(log[u])
  <2>1. latest' = latest /\ log' = log
    BY <1>6 DEF Fetch, repoVars, brokerVars
  <2>2. CASE n > position[u]
    BY <1>1, <1>2, <1>3, <1>6, <2>1, <2>2
  <2>3. CASE n = position[u]
    <3>1. LastIn(log[u], d, n + 1) = LastIn(log[u], d, n)
      BY <1>3, <1>6, <2>3, LastInStep DEF Message
    <3>2. n + 1 \in ProjectedTo(u)'..Len(log[u])
      BY <1>2, <1>3, <1>6, <2>3
    <3> QED
      BY <1>1, <2>1, <3>1, <3>2
  <2> QED
    BY <1>2, <1>3, <1>6, <2>2, <2>3
<1>7. CASE SaveLatest(u)
  <2>1. /\ ProjectedTo(u)' = position[u] + 1 /\ ProjectedTo(u) = position[u]
        /\ position[u] < Len(log[u]) /\ log' = log
    BY <1>7 DEF IInv, ReaderInv, Handling, SaveLatest, AfterSave, Goto, ProjectedTo, brokerVars
  <2>2. latest' = [latest EXCEPT ![u][Device(u)] = Message(u)]
    <3>1. Landings = {TRUE}
      BY DEF Landings, Writable
    <3> QED
      BY <1>7, <3>1 DEF SaveLatest
  <2>3. Message(u) = log[u][position[u] + 1] /\ Message(u) # Junk /\ Device(u) \in Devices
    BY <1>7, InHand DEF IInv, SaveLatest, Handling, Message
  <2>4. CASE d = Device(u)
    <3>1. latest'[u][d] = Message(u)
      BY <2>2, <2>3, <2>4 DEF IInv, RepositoryInv
    <3>2. LastIn(log[u], d, position[u] + 1) = Message(u)
      BY <1>2, <2>3, <2>4, LastInStep DEF Device
    <3>3. position[u] + 1 \in ProjectedTo(u)'..Len(log[u])
      BY <1>2, <2>1
    <3> QED
      BY <2>1, <3>1, <3>2, <3>3
  <2>5. CASE d # Device(u)
    <3>1. latest'[u][d] = latest[u][d]
      BY <2>2, <2>3, <2>5 DEF IInv, RepositoryInv
    <3>2. LastIn(log[u], d, position[u] + 1) = LastIn(log[u], d, position[u])
      BY <1>2, <2>3, <2>5, LastInStep DEF Device
    <3>3. CASE n > position[u]
      BY <1>1, <1>2, <1>3, <2>1, <3>1, <3>3
    <3>4. CASE n = position[u]
      <4>1. n + 1 \in ProjectedTo(u)'..Len(log[u])
        BY <1>2, <1>3, <2>1, <3>4
      <4> QED
        BY <1>1, <2>1, <3>1, <3>2, <3>4, <4>1
    <3> QED
      BY <1>2, <1>3, <2>1, <3>3, <3>4
  <2> QED
    BY <2>4, <2>5
<1>8. latest'[u][d] = latest[u][d] \/ SaveLatest(u)
  <2>1. ASSUME NEW t \in Topics, SaveLatest(t), t # u PROVE latest'[u][d] = latest[u][d]
    BY <2>1 DEF SaveLatest, IInv, RepositoryInv
  <2> QED
    BY <2>1, Frames
<1> QED
  <2>1. ReaderInv
    BY DEF IInv
  <2>2. \/ ProjectedTo(u)' <= ProjectedTo(u)
        \/ /\ SaveLatest(u) \/ (Fetch(u) /\ Message(u) = Junk)
           /\ ProjectedTo(u)' = position[u] + 1 /\ ProjectedTo(u) = position[u]
           /\ position[u] < Len(log[u])
    BY <2>1, ReaderAdvances
  <2> QED
    BY <1>5, <1>6, <1>7, <1>8, <2>2

LEMMA InitProjection == Init => ProjectionInv
<1> SUFFICES ASSUME Init, NEW t \in Topics, NEW d \in Devices
             PROVE  \E n \in ProjectedTo(t)..Len(log[t]) : latest[t][d] = LastIn(log[t], d, n)
  BY DEF ProjectionInv
<1>1. ProjectedTo(t) = 0 /\ log[t] = << >> /\ latest[t][d] = None
  BY DEF Init, ProjectedTo
<1>2. Len(<< >>) = 0
  BY EmptySeq
<1>3. Mine(log[t], d, 0) = {}
  BY DEF Mine
<1>4. 0 \in ProjectedTo(t)..Len(log[t])
  BY <1>1, <1>2
<1> QED
  BY <1>1, <1>3, <1>4 DEF LastIn

\* It holds while writes land, and of a service without storage faults and shutdown always.
LEMMA ProjectionInductive ==
  /\ Spec /\ []Writable => []ProjectionInv
  /\ Spec => [](Quiet => ProjectionInv)
<1>1. IInv /\ Writable /\ ProjectionInv /\ [Next]_vars => ProjectionInv'
  BY StepProjection
<1>2. IInv /\ (Quiet => ProjectionInv) /\ [Next]_vars => (Quiet => ProjectionInv)'
  <2>1. IInv => (Quiet => Writable)
    BY DEF IInv, SwitchInv, Writable
  <2>2. Quiet' <=> Quiet
    BY DEF Quiet
  <2> QED
    BY <1>1, <2>1, <2>2
<1> QED
  BY <1>1, <1>2, InitProjection, Inductive, PTL DEF Spec

\* No crash, failed commit, redelivery or junk loses an event, as long as the repository
\* answers and no shutdown cuts a write: the stored event of a device is the last of a
\* prefix of the topic that holds everything committed.
THEOREM ProjectionSurvives == Spec => []ProjectionDurable
<1>1. IInv /\ (Quiet => ProjectionInv) => ProjectionDurable
  <2> SUFFICES ASSUME IInv, Quiet => ProjectionInv, Faults \cap {"storage", "shutdown"} = {},
                      NEW t \in Topics, NEW d \in Devices
               PROVE  \E n \in committed[t]..Len(log[t]) : latest[t][d] = LastOf(t, d, n)
    BY DEF ProjectionDurable
  <2>1. PICK n \in ProjectedTo(t)..Len(log[t]) : latest[t][d] = LastIn(log[t], d, n)
    BY DEF ProjectionInv, Quiet
  <2>2. /\ committed[t] \in Nat /\ position[t] \in Nat /\ committed[t] <= position[t]
        /\ Len(log[t]) \in Nat
    BY LenProperties DEF IInv, ReaderInv
  <2>3. n \in committed[t]..Len(log[t]) /\ n \in Nat
    BY <2>1, <2>2 DEF ProjectedTo
  <2> QED
    BY <2>1, <2>3, LastOfIsLastIn
<1> QED
  BY <1>1, Inductive, ProjectionInductive, PTL

\* A reader that has gone past everything has projected everything: also a replay after a
\* crash or a rejoin ends at the newest event of each device.
THEOREM ProjectionEndsCaughtUp == Spec => []ProjectionCaughtUp
<1>1. IInv /\ (Quiet => ProjectionInv) => ProjectionCaughtUp
  <2> SUFFICES ASSUME IInv, Quiet => ProjectionInv, Faults \cap {"storage", "shutdown"} = {},
                      NEW t \in Topics, position[t] = Len(log[t]), NEW d \in Devices
               PROVE  latest[t][d] = LastOf(t, d, Len(log[t]))
    BY DEF ProjectionCaughtUp
  <2>1. PICK n \in ProjectedTo(t)..Len(log[t]) : latest[t][d] = LastIn(log[t], d, n)
    BY DEF ProjectionInv, Quiet
  <2>2. position[t] \in Nat /\ Len(log[t]) \in Nat
    BY LenProperties DEF IInv, ReaderInv
  <2>3. n = Len(log[t])
    BY <2>1, <2>2 DEF ProjectedTo
  <2> QED
    BY <2>1, <2>2, <2>3, LastOfIsLastIn
<1> QED
  BY <1>1, Inductive, ProjectionInductive, PTL

------------------------------------------------------------------------------
(* What an anomaly rests on *)

\* The loops run only once Start has launched them.
StartInv ==
    starting \in {"called", "refused", "opening", "launching"} => \A t \in Topics : pc[t] = "off"

LEMMA StepStart ==
  ASSUME ReaderInv, StartInv, [Next]_vars
  PROVE  StartInv'
<1> USE DEF StartInv, ReaderInv
<1>1. ASSUME NEW t \in Topics,
             Idling(t) \/ Fetch(t) \/ SaveLatest(t) \/ SaveAnalysis(t) \/ Committing(t)
      PROVE  StartInv'
  <2>1. pc[t] # "off"
    BY <1>1, IdlingFrame DEF Fetch, FetchMessage, SaveLatest, SaveAnalysis, Committing,
       CommitSucceeds, CommitFails
  <2>2. starting' = starting
    BY <1>1, IdlingFrame DEF Fetch, SaveLatest, SaveAnalysis, Committing, CommitSucceeds,
       CommitFails, runVars
  <2> QED
    BY <2>1, <2>2
<1>2. ASSUME NEW t \in Topics, Publish(t) PROVE StartInv'
  BY <1>2 DEF Publish, readerVars, runVars
<1>3. CASE Aggregate \/ SaveRolling \/ EvaluateMetrics \/ EvaluateHealth
  BY <1>3 DEF Aggregate, SaveRolling, EvaluateMetrics, EvaluateHealth, Topics, runVars
<1>4. CASE LaunchReaders \/ Restart
  BY <1>4 DEF LaunchReaders, Restart
<1>5. CASE Surroundings
  <2>1. pc' = pc
    BY <1>5, SurroundingsFrame
  <2>2. starting' = starting \/ starting = "called" \/ starting = "opening" \/ starting' = "returned"
    BY <1>5 DEF Surroundings, BeginStart, OpenReaders, EndStart, RequestShutdown, Shutdown,
       CancelConsumer, CloseConsumer, CloseReaders, CloseRepository, StorageChanges, vars, runVars
  <2> QED
    BY <2>1, <2>2
<1> QED
  BY <1>1, <1>2, <1>3, <1>4, <1>5, Steps

\* How far the running process has gone through the telemetry topic with its windows.
Gone ==
    IF pc["telemetry"] \in {"roll", "evaluate", "analyse", "commit"}
      THEN position["telemetry"] + 1 ELSE position["telemetry"]

\* But for a new process or a rejoin, it goes forward only, and one on with every sample.
LEMMA GoesForward ==
  ASSUME ReaderInv, StartInv, LifeInv, [Next]_vars, rejoins' = 0
  PROVE  \/ Restart
         \/ Gone' >= Gone /\ (Aggregate => Gone' = Gone + 1 /\ Gone = position["telemetry"])
<1> USE DEF Gone, ReaderInv, Labels
<1>1. "telemetry" \in Topics
  BY DEF Topics
<1>2. ASSUME NEW t \in Topics, Idling(t) PROVE Gone' >= Gone /\ ~Aggregate
  <2>1. PICK label \in {"check", "fetch", "backoff", "exited"} : pc' = [pc EXCEPT ![t] = label]
    BY <1>2, IdlingFrame
  <2>2. UNCHANGED <<position, taken>> /\ pc[t] \in {"check", "fetch", "backoff"}
    BY <1>2, IdlingFrame
  <2> QED
    BY <1>1, <2>1, <2>2 DEF Aggregate, Goto
<1>3. ASSUME NEW t \in Topics, Fetch(t) PROVE Gone' >= Gone /\ ~Aggregate
  BY <1>1, <1>3 DEF Fetch, FetchMessage, Goto, Aggregate
<1>4. ASSUME NEW t \in Topics, SaveLatest(t) PROVE Gone' >= Gone /\ ~Aggregate
  BY <1>1, <1>4 DEF SaveLatest, Goto, AfterSave, Aggregate
<1>5. ASSUME NEW t \in Topics, SaveAnalysis(t) PROVE Gone' >= Gone /\ ~Aggregate
  BY <1>1, <1>5 DEF SaveAnalysis, Goto, Aggregate
<1>6. ASSUME NEW t \in Topics, Committing(t) PROVE Gone' >= Gone /\ ~Aggregate
  <2>1. position' = [position EXCEPT ![t] = @ + 1]
    BY <1>6 DEF Committing, CommitSucceeds, CommitFails, LifeInv
  <2>2. pc[t] = "commit" /\ pc' = [pc EXCEPT ![t] = "check"]
    BY <1>6 DEF Committing, CommitSucceeds, CommitFails, Goto
  <2> QED
    BY <1>1, <2>1, <2>2 DEF Aggregate, Goto
<1>7. ASSUME NEW t \in Topics, Publish(t) PROVE Gone' >= Gone /\ ~Aggregate
  BY <1>1, <1>7 DEF Publish, readerVars, Aggregate, Goto
<1>8. CASE Aggregate
  BY <1>1, <1>8 DEF Aggregate, Goto
<1>9. CASE SaveRolling
  BY <1>1, <1>9 DEF SaveRolling, Goto, Aggregate
<1>10. CASE EvaluateMetrics
  BY <1>1, <1>10 DEF EvaluateMetrics, Goto, Aggregate
<1>11. CASE EvaluateHealth
  BY <1>1, <1>11 DEF EvaluateHealth, Goto, Aggregate, Topics
<1>12. CASE LaunchReaders
  BY <1>1, <1>12 DEF LaunchReaders, LaunchLoops, StartInv, Aggregate
<1>13. CASE Surroundings
  BY <1>1, <1>13, SurroundingsFrame DEF Aggregate, Goto
<1> QED
  BY <1>2, <1>3, <1>4, <1>5, <1>6, <1>7, <1>8, <1>9, <1>10, <1>11, <1>12, <1>13, Steps

\* The offsets of a device's events, counted.
LEMMA MineCounted ==
  ASSUME NEW s, NEW d, NEW n \in Nat
  PROVE  /\ IsFiniteSet(Mine(s, d, n)) /\ Cardinality(Mine(s, d, n)) \in Nat
         /\ \A m \in Nat : n <= m => Cardinality(Mine(s, d, n)) <= Cardinality(Mine(s, d, m))
         /\ (s[n + 1] # Junk /\ s[n + 1].device = d)
               => Cardinality(Mine(s, d, n + 1)) = Cardinality(Mine(s, d, n)) + 1
         /\ Cardinality(Mine(s, d, n)) >= 2 => \E i, j \in Mine(s, d, n) : i # j
<1>1. \A m \in Nat : IsFiniteSet(Mine(s, d, m))
  <2> TAKE m \in Nat
  <2>1. IsFiniteSet(1..m)
    BY FS_Interval
  <2>2. Mine(s, d, m) \in SUBSET (1..m)
    BY DEF Mine
  <2> QED
    BY <2>1, <2>2, FS_Subset
<1>2. Cardinality(Mine(s, d, n)) \in Nat
  BY <1>1, FS_CardinalityType
<1>3. ASSUME NEW m \in Nat, n <= m
      PROVE  Cardinality(Mine(s, d, n)) <= Cardinality(Mine(s, d, m))
  <2>1. Mine(s, d, n) \in SUBSET Mine(s, d, m)
    BY <1>3 DEF Mine
  <2> QED
    BY <1>1, <2>1, FS_Subset
<1>4. ASSUME s[n + 1] # Junk /\ s[n + 1].device = d
      PROVE  Cardinality(Mine(s, d, n + 1)) = Cardinality(Mine(s, d, n)) + 1
  <2>1. \A i : i \in 1..(n + 1) <=> i \in 1..n \/ i = n + 1
    OBVIOUS
  <2>2. Mine(s, d, n + 1) = Mine(s, d, n) \cup {n + 1} /\ n + 1 \notin Mine(s, d, n)
    BY <1>4, <2>1 DEF Mine
  <2> QED
    BY <1>1, <2>2, FS_AddElement
<1>5. ASSUME Cardinality(Mine(s, d, n)) >= 2 PROVE \E i, j \in Mine(s, d, n) : i # j
  <2> DEFINE mine == Mine(s, d, n)
  <2>1. IsFiniteSet(mine) /\ Cardinality(mine) >= 2
    BY <1>1, <1>5
  <2> HIDE DEF mine
  <2>2. PICK i \in mine : TRUE
    BY <2>1, FS_EmptySet
  <2>3. mine # {i}
    BY <2>1, FS_Singleton
  <2>4. PICK j \in mine : j # i
    BY <2>2, <2>3
  <2> QED
    BY <2>4 DEF mine
<1> QED
  BY <1>1, <1>2, <1>3, <1>4, <1>5

\* Two events of d are in the topic.
TwoEvents(d) ==
    \E i, j \in DOMAIN log["telemetry"] :
        i # j /\ log["telemetry"][i] # Junk /\ log["telemetry"][j] # Junk
              /\ log["telemetry"][i].device = d /\ log["telemetry"][j].device = d

OfMetrics(anomalies) == \E a \in anomalies : a.signal # "HEALTH"

\* Without redelivery a process aggregates no offset twice, and what it found of a metric,
\* in hand or stored, rests on two events.
SpikesInv ==
    /\ ~OfMetrics(result["health"])
    /\ rejoins = 0 =>
          /\ \A d \in Devices : Len(taken[d]) <= Cardinality(Mine(log["telemetry"], d, Gone))
          /\ OfMetrics(result["telemetry"]) =>
                pc["telemetry"] = "analyse" /\ TwoEvents(Device("telemetry"))
          /\ \A d \in Devices : analyses[d] # None /\ OfMetrics(analyses[d]) => TwoEvents(d)

\* Two events of a device stay two.
LEMMA TwoEventsStay ==
  ASSUME ReaderInv, [Next]_vars, NEW d, TwoEvents(d)
  PROVE  TwoEvents(d)'
<1>1. "telemetry" \in Topics
  BY DEF Topics
<1>2. /\ Len(log["telemetry"]) <= Len(log'["telemetry"])
      /\ \A i \in 1..Len(log["telemetry"]) : log'["telemetry"][i] = log["telemetry"][i]
  BY <1>1, LogGrows
<1>3. /\ DOMAIN log["telemetry"] = 1..Len(log["telemetry"]) /\ Len(log["telemetry"]) \in Nat
  BY <1>1, LenProperties DEF ReaderInv
<1>4. DOMAIN log'["telemetry"] = 1..Len(log'["telemetry"]) /\ Len(log'["telemetry"]) \in Nat
  BY <1>1, StepReaders, LenProperties DEF ReaderInv
<1>5. PICK i, j \in DOMAIN log["telemetry"] :
         i # j /\ log["telemetry"][i] # Junk /\ log["telemetry"][j] # Junk
               /\ log["telemetry"][i].device = d /\ log["telemetry"][j].device = d
  BY DEF TwoEvents
<1>6. i \in DOMAIN log'["telemetry"] /\ j \in DOMAIN log'["telemetry"]
  BY <1>2, <1>3, <1>4
<1>7. log'["telemetry"][i] = log["telemetry"][i] /\ log'["telemetry"][j] = log["telemetry"][j]
  BY <1>2, <1>3
<1> QED
  BY <1>5, <1>6, <1>7 DEF TwoEvents

\* A message in hand stays there until the goroutine has done what comes next with it.
LEMMA MessageStays ==
  ASSUME ReaderInv, StartInv, [Next]_vars, pc["telemetry"] \in {"aggregate", "roll", "analyse"}
  PROVE  \/ Aggregate \/ SaveRolling \/ SaveAnalysis("telemetry") \/ Restart
         \/ UNCHANGED <<pc["telemetry"], position["telemetry"]>>
<1> USE DEF ReaderInv, Labels
<1>1. "telemetry" \in Topics
  BY DEF Topics
<1>2. ASSUME NEW t \in Topics, Idling(t) PROVE UNCHANGED <<pc["telemetry"], position["telemetry"]>>
  <2>1. PICK label \in {"check", "fetch", "backoff", "exited"} : pc' = [pc EXCEPT ![t] = label]
    BY <1>2, IdlingFrame
  <2>2. UNCHANGED position /\ pc[t] \in {"check", "fetch", "backoff"}
    BY <1>2, IdlingFrame
  <2> QED
    BY <1>1, <2>1, <2>2
<1>3. ASSUME NEW t \in Topics, Fetch(t) PROVE UNCHANGED <<pc["telemetry"], position["telemetry"]>>
  BY <1>1, <1>3 DEF Fetch, FetchMessage, Goto
<1>4. ASSUME NEW t \in Topics, SaveLatest(t)
      PROVE  UNCHANGED <<pc["telemetry"], position["telemetry"]>>
  BY <1>1, <1>4 DEF SaveLatest, Goto, AfterSave
<1>5. ASSUME NEW t \in Topics, SaveAnalysis(t), t # "telemetry"
      PROVE  UNCHANGED <<pc["telemetry"], position["telemetry"]>>
  BY <1>1, <1>5 DEF SaveAnalysis, Goto
<1>6. ASSUME NEW t \in Topics, Committing(t)
      PROVE  UNCHANGED <<pc["telemetry"], position["telemetry"]>>
  <2>1. PICK p : position' = [position EXCEPT ![t] = p]
    BY <1>6 DEF Committing, CommitSucceeds, CommitFails
  <2>2. pc[t] = "commit" /\ pc' = [pc EXCEPT ![t] = "check"]
    BY <1>6 DEF Committing, CommitSucceeds, CommitFails, Goto
  <2> QED
    BY <1>1, <2>1, <2>2
<1>7. ASSUME NEW t \in Topics, Publish(t) PROVE UNCHANGED <<pc["telemetry"], position["telemetry"]>>
  BY <1>7 DEF Publish, readerVars
<1>8. ~EvaluateMetrics
  BY DEF EvaluateMetrics
<1>9. CASE EvaluateHealth
  BY <1>1, <1>9 DEF EvaluateHealth, Goto, Topics
<1>10. ~LaunchReaders
  BY <1>1 DEF LaunchReaders, StartInv
<1>11. CASE Surroundings
  BY <1>11, SurroundingsFrame
<1> QED
  BY <1>2, <1>3, <1>4, <1>5, <1>6, <1>7, <1>8, <1>9, <1>10, <1>11, Steps

LEMMA StepTaken ==
  ASSUME IInv, StartInv, SpikesInv, [Next]_vars, rejoins = 0, rejoins' = 0, NEW d \in Devices
  PROVE  Len(taken'[d]) <= Cardinality(Mine(log'["telemetry"], d, Gone'))
<1> DEFINE tele  == log["telemetry"]
           tele1 == log'["telemetry"]
<1>1. "telemetry" \in Topics
  BY DEF Topics
<1>2. /\ Gone \in Nat /\ Gone <= Len(tele) /\ Len(tele) \in Nat
      /\ position["telemetry"] \in Nat
  BY <1>1, LenProperties DEF IInv, ReaderInv, Gone, Handling
<1>3. Gone' \in Nat
  BY <1>1, StepReaders DEF IInv, ReaderInv, Gone
<1>4. Len(taken[d]) \in Nat /\ Len(taken[d]) <= Cardinality(Mine(tele, d, Gone))
  BY LenProperties DEF IInv, MemoryInv, SpikesInv
<1>5. \A i \in 1..Len(tele) : tele1[i] = tele[i]
  BY <1>1, LogGrows DEF IInv
<1>6. Mine(tele1, d, Gone) = Mine(tele, d, Gone)
  BY <1>2, <1>5 DEF Mine
<1> HIDE DEF tele, tele1
<1>7. Cardinality(Mine(tele1, d, Gone)) \in Nat /\ Cardinality(Mine(tele1, d, Gone')) \in Nat
  BY <1>2, <1>3, MineCounted
<1>8. CASE Restart
  <2>1. taken'[d] = << >>
    BY <1>8 DEF Restart
  <2> QED
    BY <1>7, <2>1, EmptySeq DEF tele1
<1>9. CASE Gone' >= Gone /\ taken'[d] = taken[d]
  <2>1. Cardinality(Mine(tele1, d, Gone)) <= Cardinality(Mine(tele1, d, Gone'))
    BY <1>2, <1>3, <1>9, MineCounted
  <2>2. Len(taken[d]) <= Cardinality(Mine(tele1, d, Gone))
    BY <1>4, <1>6
  <2> QED
    BY <1>4, <1>7, <1>9, <2>1, <2>2 DEF tele1
<1>10. CASE Aggregate /\ Gone' = Gone + 1 /\ Gone = position["telemetry"] /\ taken'[d] # taken[d]
  <2>1. d = Device("telemetry")
    BY <1>10 DEF Aggregate, IInv, MemoryInv
  <2>2. tele1 = tele
    BY <1>10 DEF Aggregate, brokerVars, tele, tele1
  <2>3. tele1[Gone + 1] # Junk /\ tele1[Gone + 1].device = d
    BY <1>1, <1>10, <2>1, <2>2 DEF IInv, ReaderInv, Handling, Aggregate, Message, Device, tele
  <2>4. Cardinality(Mine(tele1, d, Gone')) = Cardinality(Mine(tele1, d, Gone)) + 1
    BY <1>2, <1>10, <2>3, MineCounted
  <2>5. Len(taken'[d]) = Len(taken[d]) + 1
    <3>1. Message("telemetry").sample \in Samples
      BY <1>1, <1>10, InHand DEF IInv, Handling, Aggregate
    <3>2. taken'[d] = Append(taken[d], Message("telemetry").sample)
      BY <1>10, <2>1 DEF Aggregate, IInv, MemoryInv
    <3> QED
      BY <3>1, <3>2, AppendProperties DEF IInv, MemoryInv
  <2>6. Len(taken[d]) <= Cardinality(Mine(tele1, d, Gone))
    BY <1>4, <1>6
  <2> QED
    BY <1>4, <1>7, <2>4, <2>5, <2>6 DEF tele1
<1> QED
  <2>1. Restart \/ (Gone' >= Gone /\ (Aggregate => Gone' = Gone + 1 /\ Gone = position["telemetry"]))
    BY GoesForward DEF IInv
  <2>2. taken' = taken \/ Aggregate \/ Restart
    BY Frames
  <2> QED
    BY <1>8, <1>9, <1>10, <2>1, <2>2

\* A verdict of the detector on a metric rests on two events.
LEMMA VerdictRests ==
  ASSUME IInv, SpikesInv, rejoins = 0, EvaluateMetrics, OfMetrics(result'["telemetry"])
  PROVE  TwoEvents(Device("telemetry"))
<1> DEFINE d == Device("telemetry")
           tele == log["telemetry"]
<1>1. "telemetry" \in Topics
  BY DEF Topics
<1>2. d \in Devices
  BY <1>1, InHand DEF IInv, EvaluateMetrics, Handling
<1> HIDE DEF d
<1>3. PICK w \in TargetWindows :
         result' = [result EXCEPT !["telemetry"] =
            MetricAnomalies(CalculateMetrics(windows[d][w])) \cup HealthToAnomaly(healthState[d])]
  BY DEF EvaluateMetrics, d
<1>4. w \in DOMAIN Windows
  BY DEF TargetWindows
<1>5. windows[d][w] \in Seq(Samples) /\ Keeps(windows[d][w], taken[d], Windows[w])
  BY <1>2, <1>4 DEF IInv, MemoryInv, WindowsKept
<1>6. PICK a \in result'["telemetry"] : a.signal # "HEALTH"
  BY DEF OfMetrics
<1>7. a \in MetricAnomalies(CalculateMetrics(windows[d][w]))
  <2>1. result'["telemetry"] =
            MetricAnomalies(CalculateMetrics(windows[d][w])) \cup HealthToAnomaly(healthState[d])
    BY <1>1, <1>3 DEF IInv, MemoryInv
  <2>2. a \notin HealthToAnomaly(healthState[d])
    BY <1>6, HealthAnomalyTyped
  <2> QED
    BY <1>6, <2>1, <2>2
<1>8. Len(windows[d][w]) >= 2
  BY <1>5, <1>7, MetricsTyped, MetricAnomaliesTyped, AnalysisAssumption
<1>9. Len(taken[d]) >= 2
  <2>1. Len(taken[d]) - Len(windows[d][w]) \in Nat
    BY <1>5 DEF Keeps
  <2>2. Len(taken[d]) \in Nat /\ Len(windows[d][w]) \in Nat
    BY <1>2, <1>5, LenProperties DEF IInv, MemoryInv
  <2> QED
    BY <1>8, <2>1, <2>2
<1>10. Gone \in Nat /\ Gone <= Len(tele) /\ Len(tele) \in Nat
  BY <1>1, LenProperties DEF IInv, ReaderInv, Gone, Handling
<1> HIDE DEF tele
<1>11. Len(taken[d]) <= Cardinality(Mine(tele, d, Gone))
  BY <1>2 DEF SpikesInv, tele
<1>12. Cardinality(Mine(tele, d, Gone)) \in Nat /\ Len(taken[d]) \in Nat
  BY <1>2, <1>10, MineCounted, LenProperties DEF IInv, MemoryInv
<1>13. PICK i, j \in Mine(tele, d, Gone) : i # j
  BY <1>9, <1>10, <1>11, <1>12, MineCounted
<1>14. DOMAIN tele = 1..Len(tele)
  BY <1>1, LenProperties DEF IInv, ReaderInv, tele
<1>15. i \in DOMAIN tele /\ j \in DOMAIN tele /\ tele[i] # Junk /\ tele[j] # Junk
       /\ tele[i].device = d /\ tele[j].device = d
  BY <1>10, <1>14 DEF Mine
<1> QED
  BY <1>13, <1>15 DEF TwoEvents, tele, d

LEMMA StepSpikes ==
  ASSUME IInv, StartInv, SpikesInv, [Next]_vars
  PROVE  SpikesInv'
<1>1. "telemetry" \in Topics /\ "health" \in Topics /\ "telemetry" # "health"
  BY DEF Topics
<1>2. ASSUME NEW t \in Topics, SaveAnalysis(t)
      PROVE  ~OfMetrics(result'[t]) /\ \A u \in Topics \ {t} : result'[u] = result[u]
  BY <1>2 DEF SaveAnalysis, OfMetrics, IInv, MemoryInv
<1>3. CASE Restart
  <2>1. ~OfMetrics(result'["telemetry"]) /\ ~OfMetrics(result'["health"])
    BY <1>1, <1>3 DEF Restart, OfMetrics
  <2>2. analyses' = analyses /\ rejoins' = rejoins
    BY <1>3 DEF Restart, repoVars
  <2>3. ASSUME rejoins = 0, NEW d \in Devices, analyses[d] # None, OfMetrics(analyses[d])
        PROVE  TwoEvents(d)'
    BY <2>3, TwoEventsStay DEF IInv, SpikesInv
  <2> HIDE DEF OfMetrics
  <2> QED
    BY <2>1, <2>2, <2>3, StepTaken DEF SpikesInv
<1>4. ~OfMetrics(result'["health"])
  <2>1. CASE EvaluateMetrics
    BY <1>1, <2>1 DEF EvaluateMetrics, OfMetrics, SpikesInv, IInv, MemoryInv
  <2>2. CASE EvaluateHealth
    <3>1. result'["health"] = HealthToAnomaly(Message("health").status)
      BY <1>1, <2>2 DEF EvaluateHealth, IInv, MemoryInv
    <3> QED
      BY <3>1, HealthAnomalyTyped DEF OfMetrics
  <2>3. ASSUME NEW t \in Topics, SaveAnalysis(t) PROVE ~OfMetrics(result'["health"])
    <3>1. CASE t = "health"
      BY <1>2, <2>3, <3>1
    <3>2. CASE t # "health"
      BY <1>1, <1>2, <2>3, <3>2 DEF SpikesInv
    <3> QED
      BY <3>1, <3>2
  <2>4. CASE Restart
    BY <1>1, <2>4 DEF Restart, OfMetrics
  <2>5. CASE UNCHANGED result
    BY <2>5 DEF SpikesInv, OfMetrics
  <2> QED
    BY <2>1, <2>2, <2>3, <2>4, <2>5, Frames
<1>5. ASSUME rejoins' = 0, ~Restart PROVE rejoins = 0
  BY <1>5, Frames DEF CommitFails, IInv, LifeInv
<1>6. ASSUME rejoins = 0, rejoins' = 0, ~Restart, OfMetrics(result'["telemetry"])
      PROVE  pc'["telemetry"] = "analyse" /\ TwoEvents(Device("telemetry"))'
  <2>1. CASE EvaluateMetrics
    <3>1. TwoEvents(Device("telemetry"))
      BY <1>6, <2>1, VerdictRests
    <3>2. pc'["telemetry"] = "analyse" /\ UNCHANGED <<log, position>>
      BY <1>1, <2>1 DEF EvaluateMetrics, Goto, brokerVars, IInv, ReaderInv
    <3> QED
      BY <3>1, <3>2 DEF TwoEvents, Device, Message
  <2>2. CASE result'["telemetry"] = result["telemetry"]
    <3>1. OfMetrics(result["telemetry"])
      BY <1>6, <2>2, Zenon
    <3>2. pc["telemetry"] = "analyse" /\ TwoEvents(Device("telemetry"))
      BY <1>6, <3>1, Zenon DEF SpikesInv
    <3>3. ~SaveAnalysis("telemetry")
      BY <1>1, <1>2, <1>6, Zenon
    <3>4. UNCHANGED <<pc["telemetry"], position["telemetry"]>>
      BY <1>6, <3>2, <3>3, MessageStays DEF IInv, Aggregate, SaveRolling
    <3>5. Device("telemetry")' = Device("telemetry")
      <4>1. position["telemetry"] + 1 \in 1..Len(log["telemetry"])
        BY <1>1, <3>2, LenProperties DEF IInv, ReaderInv, Handling
      <4>2. log'["telemetry"][position["telemetry"] + 1] = log["telemetry"][position["telemetry"] + 1]
        BY <1>1, <4>1, LogGrows DEF IInv
      <4> QED
        BY <3>4, <4>2 DEF Device, Message
    <3>6. TwoEvents(Device("telemetry"))'
      <4> DEFINE d == Device("telemetry")
      <4>1. d' = d
        BY <3>5
      <4> HIDE DEF d
      <4>2. PICK e : e = d
        OBVIOUS
      <4>3. TwoEvents(e)'
        BY <3>2, <4>2, TwoEventsStay DEF IInv, d
      <4> QED
        BY <4>1, <4>2, <4>3 DEF TwoEvents, d
    <3> QED
      BY <3>2, <3>4, <3>6
  <2>3. ASSUME NEW t \in Topics, SaveAnalysis(t) PROVE t # "telemetry"
    BY <1>2, <1>6, <2>3
  <2>4. result'["telemetry"] = result["telemetry"] \/ EvaluateMetrics
    <3>1. ASSUME NEW t \in Topics, SaveAnalysis(t) PROVE result'["telemetry"] = result["telemetry"]
      BY <1>1, <1>2, <2>3, <3>1
    <3>2. CASE EvaluateHealth
      BY <1>1, <3>2 DEF EvaluateHealth, IInv, MemoryInv
    <3> QED
      BY <1>6, <3>1, <3>2, Frames
  <2> QED
    BY <2>1, <2>2, <2>4
<1>7. ASSUME rejoins = 0, ~Restart, NEW d \in Devices, analyses'[d] # None, OfMetrics(analyses'[d])
      PROVE  TwoEvents(d)'
  <2>1. CASE analyses'[d] = analyses[d]
    <3>1. OfMetrics(analyses[d]) /\ analyses[d] # None
      BY <1>7, <2>1, Zenon
    <3>2. TwoEvents(d)
      BY <1>7, <3>1, Zenon DEF SpikesInv
    <3> QED
      BY <3>2, TwoEventsStay DEF IInv
  <2>2. ASSUME NEW t \in Topics, SaveAnalysis(t), analyses'[d] # analyses[d]
        PROVE  TwoEvents(d)'
    <3>1. analyses' = [analyses EXCEPT ![Device(t)] = result[t]]
      BY <2>2 DEF SaveAnalysis
    <3>2. d = Device(t) /\ analyses'[d] = result[t]
      BY <2>2, <3>1 DEF IInv, RepositoryInv
    <3>3. OfMetrics(result[t])
      BY <1>7, <3>2, Zenon
    <3>4. t = "telemetry"
      BY <3>3, Zenon DEF Topics, SpikesInv
    <3>5. OfMetrics(result["telemetry"]) /\ d = Device("telemetry")
      BY <3>2, <3>3, <3>4, Zenon
    <3>6. TwoEvents(Device("telemetry"))
      BY <1>7, <3>5, Zenon DEF SpikesInv
    <3>7. TwoEvents(d)
      BY <3>5, <3>6, Zenon
    <3> QED
      BY <3>7, TwoEventsStay DEF IInv
  <2> QED
    BY <2>1, <2>2, Frames
<1> QED
  <2> HIDE DEF OfMetrics
  <2>1. CASE ~Restart
    <3>1. ASSUME rejoins' = 0, NEW d \in Devices
          PROVE  Len(taken'[d]) <= Cardinality(Mine(log'["telemetry"], d, Gone'))
      BY <1>5, <2>1, <3>1, StepTaken
    <3> QED
      BY <1>4, <1>5, <1>6, <1>7, <2>1, <3>1, Zenon DEF SpikesInv
  <2> QED
    BY <1>3, <2>1

\* As long as nothing is redelivered, an anomaly of a metric rests on two events of its
\* device, whatever the restarts, the junk and the windows.
THEOREM SpikesNeedTwoEvents == Spec => []SpikesFilteredWithoutRedelivery
<1>1. Init => StartInv /\ SpikesInv
  <2> SUFFICES ASSUME Init PROVE StartInv /\ SpikesInv
    OBVIOUS
  <2>1. StartInv
    BY DEF Init, StartInv
  <2>2. ~OfMetrics(result["health"]) /\ ~OfMetrics(result["telemetry"])
    BY DEF Init, OfMetrics, Topics
  <2>3. \A d \in Devices : analyses[d] = None
    BY DEF Init
  <2>4. \A d \in Devices : Len(taken[d]) <= Cardinality(Mine(log["telemetry"], d, Gone))
    <3> TAKE d \in Devices
    <3>1. Gone = 0 /\ taken[d] = << >>
      BY DEF Init, Gone, Topics
    <3>2. Cardinality(Mine(log["telemetry"], d, Gone)) \in Nat
      BY <3>1, MineCounted
    <3> QED
      BY <3>1, <3>2, EmptySeq
  <2> QED
    BY <2>1, <2>2, <2>3, <2>4 DEF SpikesInv
<1>2. IInv /\ StartInv /\ SpikesInv /\ [Next]_vars => StartInv' /\ SpikesInv'
  <2> SUFFICES ASSUME IInv, StartInv, SpikesInv, [Next]_vars PROVE StartInv' /\ SpikesInv'
    OBVIOUS
  <2> QED
    BY StepStart, StepSpikes DEF IInv
<1>3. SpikesInv => SpikesFilteredWithoutRedelivery
  BY DEF SpikesInv, SpikesFilteredWithoutRedelivery, SpikesFiltered, OfMetrics, TwoEvents
<1> QED
  BY <1>1, <1>2, <1>3, Inductive, PTL DEF Spec

==============================================================================
