------------------------ MODULE LimiterFilterProofs ------------------------
(***************************************************************************)
(* Theorems about RateLimiter, for any limits, window, scopes and calls,   *)
(* and about ThinkingFilter, for any alphabet, markers and deltas.         *)
(*                                                                         *)
(* The limiter: a scope's window always is what is left of the history of  *)
(* its grants after an expired beginning, so looking at the window is as   *)
(* good as looking at the history.  The filter: whatever text may still    *)
(* come, the part that was passed on followed by what the reference makes  *)
(* of the part kept back is what it makes of the whole.                    *)
(***************************************************************************)
EXTENDS RateLimiter, ThinkingFilter, FiniteSums, SequenceTheorems, TLAPS

(***************************************************************************)
(* RateLimiter: sequences of events                                        *)
(***************************************************************************)

LEMMA EventSeq ==
  ASSUME NEW e \in Seq(Event)
  PROVE  /\ Len(e) \in Nat /\ DOMAIN e = 1..Len(e) /\ Window \in Nat \ {0}
         /\ \A i \in DOMAIN e : e[i] \in Event
         /\ \A i \in DOMAIN e : e[i].at \in Nat /\ e[i].tokens \in Nat
  <1>1. Len(e) \in Nat /\ DOMAIN e = 1..Len(e)
    BY LenProperties
  <1>2. \A i \in DOMAIN e : e[i] \in Event
    BY <1>1, ElementOfSeq
  <1>3. \A x \in Event : x.at \in Nat /\ x.tokens \in Nat
    <2>1. \A x \in Event : x.at \in 0..MaxTime /\ x.tokens \in TokenCosts
      BY DEF Event
    <2>2. TokenCosts \subseteq Nat /\ \A n \in 0..MaxTime : n \in Nat
      BY LimiterAssumption
    <2> QED
      BY <2>1, <2>2
  <1>4. Window \in Nat \ {0}
    BY LimiterAssumption
  <1> QED
    BY <1>1, <1>2, <1>3, <1>4

\* Grants are appended in the order of time.
InTime(e) == \A i, j \in DOMAIN e : i <= j => e[i].at <= e[j].at

\* The events behind the first k.
Behind(e, k) == SubSeq(e, k + 1, Len(e))

LEMMA BehindProperties ==
  ASSUME NEW e \in Seq(Event), NEW k \in 0..Len(e)
  PROVE  /\ Behind(e, k) \in Seq(Event)
         /\ Len(Behind(e, k)) = Len(e) - k
         /\ DOMAIN Behind(e, k) = 1..(Len(e) - k)
         /\ \A i \in 1..(Len(e) - k) : Behind(e, k)[i] = e[k + i]
  <1>1. Len(e) \in Nat /\ \A i \in 1..Len(e) : e[i] \in Event
    BY LenProperties, ElementOfSeq
  <1>2. \A i \in (k + 1)..Len(e) : e[i] \in Event
    BY <1>1
  <1>3. /\ Behind(e, k) \in Seq(Event)
        /\ Len(Behind(e, k)) = IF k + 1 <= Len(e) THEN Len(e) - (k + 1) + 1 ELSE 0
        /\ \A i \in 1..(Len(e) - (k + 1) + 1) : Behind(e, k)[i] = e[(k + 1) + i - 1]
    <2>1. k + 1 \in Int /\ Len(e) \in Int
      BY <1>1
    <2> QED
      BY <1>2, <2>1, SubSeqProperties DEF Behind
  <1>4. Len(Behind(e, k)) = Len(e) - k
    BY <1>1, <1>3
  <1>5. DOMAIN Behind(e, k) = 1..(Len(e) - k)
    BY <1>3, <1>4, LenProperties
  <1>6. \A i \in 1..(Len(e) - k) : Behind(e, k)[i] = e[k + i]
    <2>1. \A i \in 1..(Len(e) - k) :
            i \in 1..(Len(e) - (k + 1) + 1) /\ (k + 1) + i - 1 = k + i
      BY <1>1
    <2> QED
      BY <1>3, <2>1
  <1> QED
    BY <1>3, <1>4, <1>5, <1>6

LEMMA BehindBehind ==
  ASSUME NEW e \in Seq(Event), NEW k \in 0..Len(e), NEW j \in 0..(Len(e) - k)
  PROVE  Behind(Behind(e, k), j) = Behind(e, k + j)
  <1> DEFINE s == Behind(e, k)
             l == Behind(s, j)
             r == Behind(e, k + j)
  <1>1. Len(e) \in Nat
    BY LenProperties
  <1>2. /\ s \in Seq(Event) /\ Len(s) = Len(e) - k
        /\ \A i \in 1..(Len(e) - k) : s[i] = e[k + i]
    BY BehindProperties
  <1>3. j \in 0..Len(s) /\ k + j \in 0..Len(e)
    BY <1>1, <1>2
  <1>4. /\ l \in Seq(Event) /\ Len(l) = Len(s) - j
        /\ \A i \in 1..(Len(s) - j) : l[i] = s[j + i]
    <2> HIDE DEF s
    <2> QED
      BY <1>2, <1>3, BehindProperties
  <1>5. /\ r \in Seq(Event) /\ Len(r) = Len(e) - (k + j)
        /\ \A i \in 1..(Len(e) - (k + j)) : r[i] = e[k + j + i]
    BY <1>3, BehindProperties
  <1> HIDE DEF s, l, r
  <1>6. Len(l) = Len(r)
    BY <1>1, <1>2, <1>4, <1>5
  <1>7. \A i \in 1..Len(l) : l[i] = r[i]
    <2> TAKE i \in 1..Len(l)
    <2>1. /\ i \in 1..(Len(s) - j) /\ i \in 1..(Len(e) - (k + j))
          /\ j + i \in 1..(Len(e) - k) /\ k + (j + i) = k + j + i
      BY <1>1, <1>2, <1>4, <1>5, <1>6
    <2> QED
      BY <1>2, <1>4, <1>5, <2>1
  <1>8. l = r
    BY <1>4, <1>5, <1>6, <1>7, SeqEqual
  <1> QED
    BY <1>8 DEF l, r, s

LEMMA BehindInTime ==
  ASSUME NEW e \in Seq(Event), InTime(e), NEW k \in 0..Len(e)
  PROVE  InTime(Behind(e, k))
  <1>1. Len(e) \in Nat /\ DOMAIN e = 1..Len(e)
    BY LenProperties
  <1>2. \A i \in DOMAIN Behind(e, k) : k + i \in DOMAIN e /\ Behind(e, k)[i] = e[k + i]
    <2>1. DOMAIN Behind(e, k) = 1..(Len(e) - k)
      BY BehindProperties
    <2>2. \A i \in 1..(Len(e) - k) : k + i \in DOMAIN e
      BY <1>1
    <2> QED
      BY <2>1, <2>2, BehindProperties
  <1>3. \A i, j \in DOMAIN Behind(e, k) : i <= j => k + i <= k + j
    BY <1>1, BehindProperties
  <1> QED
    BY <1>2, <1>3 DEF InTime

\* Adding an event and leaving out an old beginning commute.
LEMMA BehindAppend ==
  ASSUME NEW e \in Seq(Event), NEW k \in 0..Len(e), NEW x \in Event
  PROVE  Append(Behind(e, k), x) = Behind(Append(e, x), k)
  <1> DEFINE s == Behind(e, k)
             g == Append(e, x)
             l == Append(s, x)
             r == Behind(g, k)
  <1>1. Len(e) \in Nat
    BY LenProperties
  <1>2. /\ s \in Seq(Event) /\ Len(s) = Len(e) - k
        /\ \A i \in 1..(Len(e) - k) : s[i] = e[k + i]
    BY BehindProperties
  <1>3. /\ g \in Seq(Event) /\ Len(g) = Len(e) + 1 /\ g[Len(e) + 1] = x
        /\ \A i \in 1..Len(e) : g[i] = e[i]
    BY AppendProperties
  <1>4. /\ l \in Seq(Event) /\ Len(l) = Len(s) + 1 /\ l[Len(s) + 1] = x
        /\ \A i \in 1..Len(s) : l[i] = s[i]
    <2> HIDE DEF s
    <2> QED
      BY <1>2, AppendProperties
  <1>5. k \in 0..Len(g)
    <2> HIDE DEF g
    <2> QED
      BY <1>1, <1>3
  <1>6. /\ r \in Seq(Event) /\ Len(r) = Len(g) - k
        /\ \A i \in 1..(Len(g) - k) : r[i] = g[k + i]
    <2> HIDE DEF g
    <2> QED
      BY <1>3, <1>5, BehindProperties
  <1> HIDE DEF s, g, l, r
  <1>7. Len(l) = Len(r)
    BY <1>1, <1>2, <1>3, <1>4, <1>6
  <1>8. ASSUME NEW i \in 1..Len(l)
        PROVE  l[i] = r[i]
    <2>1. i \in 1..(Len(g) - k) /\ r[i] = g[k + i]
      BY <1>6, <1>7
    <2>2. CASE i = Len(s) + 1
      <3>1. k + i = Len(e) + 1
        BY <1>1, <1>2, <2>2
      <3> QED
        BY <1>3, <1>4, <2>1, <2>2, <3>1
    <2>3. CASE i # Len(s) + 1
      <3>1. i \in 1..Len(s) /\ i \in 1..(Len(e) - k) /\ k + i \in 1..Len(e)
        BY <1>1, <1>2, <1>4, <2>3
      <3> QED
        BY <1>2, <1>3, <1>4, <2>1, <3>1
    <2> QED
      BY <2>2, <2>3
  <1>9. l = r
    BY <1>4, <1>6, <1>7, <1>8, SeqEqual
  <1> QED
    BY <1>9 DEF l, r, g, s

(***************************************************************************)
(* RateLimiter: what is left of a window                                   *)
(***************************************************************************)

\* The first live event: everything before it has expired, it has not.
LEMMA FirstLiveProperties ==
  ASSUME NEW e \in Seq(Event), NEW t \in Int
  PROVE  /\ FirstLive(e, t) \in 1..(Len(e) + 1)
         /\ \A i \in DOMAIN e : i < FirstLive(e, t) => e[i].at <= t - Window
         /\ FirstLive(e, t) \in DOMAIN e => e[FirstLive(e, t)].at > t - Window
  <1> DEFINE S == {i \in DOMAIN e : e[i].at > t - Window} \cup {Len(e) + 1}
  <1>1. /\ Len(e) \in Nat /\ DOMAIN e = 1..Len(e) /\ Window \in Nat
        /\ \A i \in DOMAIN e : e[i].at \in Nat
    BY EventSeq
  <1>2. S \in SUBSET (1..(Len(e) + 1)) /\ S # {}
    BY <1>1
  <1>3. Min(S) \in S /\ \A i \in S : Min(S) <= i
    <2>1. S \in SUBSET Nat
      BY <1>1
    <2> HIDE DEF S
    <2> QED
      BY <1>2, <2>1, MinOfNats
  <1>4. PICK f : f = FirstLive(e, t)
    OBVIOUS
  <1>5. f \in S /\ \A i \in S : f <= i
    BY <1>3, <1>4 DEF FirstLive
  <1>6. f \in 1..(Len(e) + 1)
    BY <1>2, <1>5
  <1>7. ASSUME NEW i \in DOMAIN e, i < f
        PROVE  e[i].at <= t - Window
    <2>1. i \notin S
      BY <1>1, <1>5, <1>6, <1>7
    <2> QED
      BY <1>1, <2>1
  <1>8. f \in DOMAIN e => e[f].at > t - Window
    BY <1>1, <1>5
  <1> QED
    BY <1>4, <1>6, <1>7, <1>8

\* Of events in the order of time exactly those before it have expired.
LEMMA ExpiredBeginning ==
  ASSUME NEW e \in Seq(Event), InTime(e), NEW t \in Int, NEW i \in DOMAIN e
  PROVE  i < FirstLive(e, t) <=> e[i].at <= t - Window
  <1> DEFINE f == FirstLive(e, t)
  <1>1. /\ f \in 1..(Len(e) + 1)
        /\ i < f => e[i].at <= t - Window
        /\ f \in DOMAIN e => e[f].at > t - Window
    BY FirstLiveProperties
  <1>2. /\ Len(e) \in Nat /\ DOMAIN e = 1..Len(e) /\ Window \in Nat
        /\ \A j \in DOMAIN e : e[j].at \in Nat
    BY EventSeq
  <1> HIDE DEF f
  <1>3. ASSUME ~(i < f)
        PROVE  e[i].at > t - Window
    <2>1. f \in DOMAIN e /\ f <= i
      BY <1>1, <1>2, <1>3
    <2>2. e[f].at <= e[i].at
      BY <2>1 DEF InTime
    <2> QED
      BY <1>1, <1>2, <2>1, <2>2
  <1>4. i < f <=> e[i].at <= t - Window
    BY <1>1, <1>2, <1>3
  <1> QED
    BY <1>4 DEF f

LEMMA FirstLiveIs ==
  ASSUME NEW e \in Seq(Event), NEW t \in Int, NEW f \in 1..(Len(e) + 1),
         \A i \in DOMAIN e : i < f <=> e[i].at <= t - Window
  PROVE  FirstLive(e, t) = f
  <1>1. PICK h : h = FirstLive(e, t)
    OBVIOUS
  <1>2. /\ h \in 1..(Len(e) + 1)
        /\ \A i \in DOMAIN e : i < h => e[i].at <= t - Window
        /\ h \in DOMAIN e => e[h].at > t - Window
    BY <1>1, FirstLiveProperties
  <1>3. /\ Len(e) \in Nat /\ DOMAIN e = 1..Len(e) /\ Window \in Nat
        /\ \A j \in DOMAIN e : e[j].at \in Nat
    BY EventSeq
  <1>4. ~(h < f)
    <2> SUFFICES ASSUME h < f
                 PROVE  FALSE
      OBVIOUS
    <2>1. h \in DOMAIN e
      BY <1>2, <1>3
    <2> QED
      BY <1>2, <1>3, <2>1
  <1>5. ~(f < h)
    <2> SUFFICES ASSUME f < h
                 PROVE  FALSE
      OBVIOUS
    <2>1. f \in DOMAIN e
      BY <1>2, <1>3
    <2> QED
      BY <1>2, <1>3, <2>1
  <1> QED
    BY <1>1, <1>2, <1>3, <1>4, <1>5

\* What is live of a sequence is what is behind its expired beginning.
LEMMA LiveIsBehind ==
  ASSUME NEW e \in Seq(Event), NEW t \in Int
  PROVE  /\ FirstLive(e, t) - 1 \in 0..Len(e)
         /\ Live(e, t) = Behind(e, FirstLive(e, t) - 1)
         /\ Live(e, t) \in Seq(Event)
  <1>1. FirstLive(e, t) \in 1..(Len(e) + 1) /\ Len(e) \in Nat
    BY FirstLiveProperties, LenProperties
  <1>2. FirstLive(e, t) - 1 \in 0..Len(e) /\ (FirstLive(e, t) - 1) + 1 = FirstLive(e, t)
    BY <1>1
  <1>3. Live(e, t) = Behind(e, FirstLive(e, t) - 1)
    BY <1>2 DEF Live, Behind
  <1> QED
    BY <1>2, <1>3, BehindProperties

\* Leaving out an expired beginning first makes no difference.
LEMMA LiveOfBehind ==
  ASSUME NEW e \in Seq(Event), InTime(e), NEW k \in 0..Len(e), NEW t \in Int,
         \A i \in 1..k : e[i].at <= t - Window
  PROVE  Live(Behind(e, k), t) = Live(e, t)
  <1> DEFINE s == Behind(e, k)
  <1>1. PICK f : f = FirstLive(e, t)
    OBVIOUS
  <1>2. /\ Len(e) \in Nat /\ DOMAIN e = 1..Len(e)
        /\ \A i \in DOMAIN e : e[i].at \in Nat
    BY EventSeq
  <1>3. /\ f \in 1..(Len(e) + 1)
        /\ \A i \in DOMAIN e : i < f <=> e[i].at <= t - Window
    BY <1>1, FirstLiveProperties, ExpiredBeginning
  <1>4. k < f
    <2>1. CASE k = 0
      BY <1>3, <2>1
    <2>2. CASE k # 0
      BY <1>2, <1>3, <2>2
    <2> QED
      BY <2>1, <2>2
  <1>5. /\ s \in Seq(Event) /\ Len(s) = Len(e) - k /\ DOMAIN s = 1..(Len(e) - k)
        /\ \A i \in 1..(Len(e) - k) : s[i] = e[k + i]
    BY BehindProperties
  <1>6. FirstLive(s, t) = f - k
    <2>1. f - k \in 1..(Len(s) + 1)
      BY <1>2, <1>3, <1>4, <1>5
    <2>2. ASSUME NEW i \in DOMAIN s
          PROVE  i < f - k <=> s[i].at <= t - Window
      <3>1. k + i \in DOMAIN e /\ s[i] = e[k + i] /\ (i < f - k <=> k + i < f)
        BY <1>2, <1>3, <1>5
      <3> QED
        BY <1>3, <3>1
    <2> HIDE DEF s
    <2> QED
      BY <1>5, <2>1, <2>2, FirstLiveIs
  <1>7. Live(s, t) = Behind(s, FirstLive(s, t) - 1)
    <2> HIDE DEF s
    <2> QED
      BY <1>5, LiveIsBehind
  <1>8. Behind(s, f - k - 1) = Behind(e, f - 1)
    <2>1. f - k - 1 \in 0..(Len(e) - k) /\ k + (f - k - 1) = f - 1
      BY <1>2, <1>3, <1>4
    <2>2. Behind(s, f - k - 1) = Behind(e, k + (f - k - 1))
      BY <2>1, BehindBehind
    <2> QED
      BY <2>1, <2>2
  <1>9. Live(e, t) = Behind(e, f - 1)
    BY <1>1, LiveIsBehind
  <1> QED
    BY <1>6, <1>7, <1>8, <1>9

(***************************************************************************)
(* RateLimiter: counting requests and tokens                               *)
(***************************************************************************)

LEMMA SumOfIsTotal ==
  ASSUME NEW c, NEW S
  PROVE  SumOf(c, S) = Total(c, S)
  BY DEF SumOf, Total

LEMMA CostsType ==
  ASSUME NEW e \in Seq(Event)
  PROVE  /\ DOMAIN TokensOf(e) = DOMAIN e /\ DOMAIN Ones(e) = DOMAIN e
         /\ \A i \in DOMAIN e : /\ TokensOf(e)[i] = e[i].tokens
                                /\ TokensOf(e)[i] \in Nat
                                /\ Ones(e)[i] = 1
  BY EventSeq DEF TokensOf, Ones

\* The tokens behind the first k events, counted there or in the whole.
LEMMA TokensBehind ==
  ASSUME NEW e \in Seq(Event), NEW k \in 0..Len(e)
  PROVE  SumTokens(Behind(e, k)) = Total(TokensOf(e), (k + 1)..Len(e))
  <1> DEFINE s == Behind(e, k)
             n == Len(e) - k
  <1>1. Len(e) \in Nat /\ DOMAIN e = 1..Len(e)
    BY EventSeq
  <1>2. /\ s \in Seq(Event) /\ DOMAIN s = 1..n
        /\ \A i \in 1..n : s[i] = e[k + i]
    BY BehindProperties
  <1>3. n \in Nat /\ k \in Nat /\ Len(e) = k + n
    BY <1>1
  <1> HIDE DEF s
  <1>4. \A i \in 1..n : TokensOf(s)[i] \in Nat /\ TokensOf(e)[k + i] = TokensOf(s)[i]
    <2> TAKE i \in 1..n
    <2>1. i \in DOMAIN s /\ k + i \in DOMAIN e
      BY <1>1, <1>2, <1>3
    <2>2. TokensOf(s)[i] = s[i].tokens /\ TokensOf(s)[i] \in Nat
      BY <1>2, <2>1, CostsType
    <2>3. TokensOf(e)[k + i] = e[k + i].tokens
      BY <2>1, CostsType
    <2> QED
      BY <1>2, <2>1, <2>2, <2>3
  <1> HIDE DEF n
  <1>5. Total(TokensOf(e), (k + 1)..Len(e)) = Total(TokensOf(s), 1..n)
    BY <1>3, <1>4, TotalOfShifted
  <1>6. SumTokens(s) = Total(TokensOf(s), 1..n)
    BY <1>2, SumOfIsTotal DEF SumTokens
  <1> QED
    BY <1>3, <1>5, <1>6 DEF s

\* What was freed and what is left are what there was.
LEMMA TokensSplit ==
  ASSUME NEW e \in Seq(Event), NEW k \in 0..Len(e)
  PROVE  /\ SumTokens(e) = Total(TokensOf(e), 1..k) + SumTokens(Behind(e, k))
         /\ SumTokens(e) = Total(TokensOf(e), 1..Len(e))
         /\ SumTokens(e) \in Nat /\ SumTokens(Behind(e, k)) \in Nat
         /\ Total(TokensOf(e), 1..k) \in Nat
  <1>1. Len(e) \in Nat /\ DOMAIN e = 1..Len(e)
    BY EventSeq
  <1> DEFINE S == 1..Len(e)
             R == 1..k
             T == (k + 1)..Len(e)
  <1>2. IsFiniteSet(S) /\ R \in SUBSET S /\ S \ R = T
    <2>1. IsFiniteSet(S)
      BY <1>1, FS_Interval
    <2>2. R \in SUBSET S
      BY <1>1
    <2>3. S \ R = T
      BY <1>1
    <2> QED
      BY <2>1, <2>2, <2>3
  <1>3. IsFiniteSet(R) /\ IsFiniteSet(T)
    BY <1>2, FS_Subset
  <1>4. \A i \in S : TokensOf(e)[i] \in Nat
    BY <1>1, CostsType
  <1>5. SumTokens(e) = Total(TokensOf(e), S)
    BY <1>1, SumOfIsTotal DEF SumTokens
  <1>6. SumTokens(Behind(e, k)) = Total(TokensOf(e), T)
    BY TokensBehind
  <1> HIDE DEF S, R, T
  <1>7. Total(TokensOf(e), S) = Total(TokensOf(e), R) + Total(TokensOf(e), T)
    BY <1>2, <1>4, TotalOfParts
  <1>8. /\ Total(TokensOf(e), S) \in Nat /\ Total(TokensOf(e), R) \in Nat
        /\ Total(TokensOf(e), T) \in Nat
    BY <1>2, <1>3, <1>4, TotalType
  <1> QED
    BY <1>5, <1>6, <1>7, <1>8 DEF S, R

LEMMA RequestsCount ==
  ASSUME NEW e \in Seq(Event), NEW k \in 0..Len(e)
  PROVE  Total(Ones(e), 1..k) = k
  <1>1. Len(e) \in Nat /\ DOMAIN e = 1..Len(e)
    BY EventSeq
  <1>2. IsFiniteSet(1..k) /\ Cardinality(1..k) = k
    BY FS_Interval
  <1>3. \A i \in 1..k : Ones(e)[i] = 1
    BY <1>1, CostsType
  <1> QED
    BY <1>2, <1>3, TotalOfOnes

(***************************************************************************)
(* RateLimiter: the windows and the history                                *)
(***************************************************************************)

\* Window w is the history g without an expired beginning.
KeptOf(w, g, t) ==
  \E k \in 0..Len(g) : w = Behind(g, k) /\ \A i \in 1..k : g[i].at <= t - Window

AllExpired(g, t) == \A i \in DOMAIN g : g[i].at <= t - Window

\* The table of windows says of every scope what its history does.
TableInv(table, hist, t) ==
  /\ DOMAIN table \subseteq QuotaScopes /\ IsFiniteSet(DOMAIN table)
  /\ \A s \in DOMAIN table : /\ table[s] \in Seq(Event) /\ Len(table[s]) <= MaxRpm
                             /\ KeptOf(table[s], hist[s], t)
  /\ \A s \in QuotaScopes \ DOMAIN table : AllExpired(hist[s], t)

HistoryInv(hist, t) ==
  /\ hist \in [QuotaScopes -> Seq(Event)]
  /\ \A s \in QuotaScopes : InTime(hist[s]) /\ \A i \in DOMAIN hist[s] : hist[s][i].at <= t

\* The events in one window of time with event hi, up to it.
Block(e, hi) == {i \in 1..hi : e[i].at > e[hi].at - Window}
BlocksFit(e) ==
  \A hi \in DOMAIN e : /\ Cardinality(Block(e, hi)) <= MaxRpm
                       /\ Total(TokensOf(e), Block(e, hi)) <= MaxTpm
BlocksInv(hist) == \A s \in QuotaScopes : BlocksFit(hist[s])

TriesInv ==
  \A r \in Requests : acq[r].pc = "trying" =>
    acq[r].scope \in QuotaScopes /\ acq[r].tokens \in TokenCosts /\ acq[r].tokens <= MaxTpm

LimiterInv ==
  /\ LimiterTypeOK
  /\ TableInv(windows, granted, now) /\ HistoryInv(granted, now) /\ BlocksInv(granted)
  /\ TriesInv

\* What is live of a window is live of the history, now and later.
LEMMA LiveOfKept ==
  ASSUME NEW g \in Seq(Event), InTime(g), NEW w, NEW t \in Int, NEW u \in Int, t <= u,
         KeptOf(w, g, t)
  PROVE  Live(w, u) = Live(g, u)
  <1>1. PICK k \in 0..Len(g) : w = Behind(g, k) /\ \A i \in 1..k : g[i].at <= t - Window
    BY DEF KeptOf
  <1>2. \A i \in 1..k : g[i].at <= u - Window
    <2>1. \A i \in 1..k : i \in DOMAIN g
      BY EventSeq
    <2> QED
      BY <1>1, <2>1, EventSeq
  <1> QED
    BY <1>1, <1>2, LiveOfBehind

\* What is live is kept.
LEMMA LiveIsKept ==
  ASSUME NEW g \in Seq(Event), NEW t \in Int
  PROVE  KeptOf(Live(g, t), g, t)
  <1>1. PICK k : k = FirstLive(g, t) - 1
    OBVIOUS
  <1>2. k \in 0..Len(g) /\ Live(g, t) = Behind(g, k)
    BY <1>1, LiveIsBehind
  <1>3. ASSUME NEW i \in 1..k
        PROVE  g[i].at <= t - Window
    <2>1. i \in DOMAIN g /\ i < FirstLive(g, t)
      <3>1. Len(g) \in Nat /\ DOMAIN g = 1..Len(g)
        BY EventSeq
      <3>2. FirstLive(g, t) \in 1..(Len(g) + 1)
        BY FirstLiveProperties
      <3> QED
        BY <1>1, <1>2, <3>1, <3>2
    <2> QED
      BY <2>1, FirstLiveProperties
  <1> QED
    BY <1>2, <1>3 DEF KeptOf

LEMMA LiveIsShorter ==
  ASSUME NEW e \in Seq(Event), NEW t \in Int
  PROVE  Live(e, t) \in Seq(Event) /\ Len(Live(e, t)) <= Len(e)
  <1>1. PICK k : k = FirstLive(e, t) - 1
    OBVIOUS
  <1>2. k \in 0..Len(e) /\ Live(e, t) = Behind(e, k)
    BY <1>1, LiveIsBehind
  <1>3. Behind(e, k) \in Seq(Event) /\ Len(Behind(e, k)) = Len(e) - k /\ Len(e) \in Nat
    BY <1>2, BehindProperties, EventSeq
  <1> QED
    BY <1>2, <1>3

\* A window that is empty or whose last event has expired is all that the
\* history had to say.
LEMMA LastExpires ==
  ASSUME NEW g \in Seq(Event), InTime(g), NEW w \in Seq(Event), NEW t \in Int,
         KeptOf(w, g, t), w = <<>> \/ Last(w).at <= t - Window
  PROVE  AllExpired(g, t)
  <1>1. PICK k \in 0..Len(g) : w = Behind(g, k) /\ \A i \in 1..k : g[i].at <= t - Window
    BY DEF KeptOf
  <1>2. /\ Len(g) \in Nat /\ DOMAIN g = 1..Len(g) /\ Window \in Nat
        /\ \A i \in DOMAIN g : g[i].at \in Nat
    BY EventSeq
  <1>3. /\ Len(w) = Len(g) - k
        /\ \A i \in 1..(Len(g) - k) : w[i] = g[k + i]
    BY <1>1, BehindProperties
  <1>4. Len(g) \in Nat /\ k \in 0..Len(g) /\ Len(w) = Len(g) - k
    BY <1>2, <1>3
  <1>5. CASE w = <<>>
    <2>1. Len(w) = 0
      BY <1>5
    <2>2. k = Len(g)
      BY <1>4, <2>1
    <2> QED
      BY <1>1, <1>2, <2>2 DEF AllExpired
  <1>6. CASE w # <<>>
    <2>1. Len(w) \in Nat \ {0}
      BY <1>6, EmptySeq
    <2>2. Len(w) \in 1..(Len(g) - k) /\ k + Len(w) = Len(g) /\ Len(g) \in DOMAIN g
      <3>1. Len(w) \in 1..(Len(g) - k) /\ k + Len(w) = Len(g) /\ Len(g) \in 1..Len(g)
        BY <1>4, <2>1
      <3> QED
        BY <1>2, <3>1
    <2>3. Last(w) = g[Len(g)]
      BY <1>3, <2>2 DEF Last
    <2>4. g[Len(g)].at <= t - Window
      BY <1>6, <2>3
    <2>5. ASSUME NEW i \in DOMAIN g
          PROVE  g[i].at <= t - Window
      <3>1. g[i].at <= g[Len(g)].at
        BY <1>2, <2>2 DEF InTime
      <3> QED
        BY <1>2, <2>2, <2>4, <3>1
    <2> QED
      BY <2>5 DEF AllExpired
  <1> QED
    BY <1>5, <1>6

\* What has expired stays so.
LEMMA ExpiryIsFinal ==
  ASSUME NEW g \in Seq(Event), NEW t \in Int, NEW u \in Int, t <= u
  PROVE  /\ AllExpired(g, t) => AllExpired(g, u)
         /\ \A w : KeptOf(w, g, t) => KeptOf(w, g, u)
  <1>1. \A i \in DOMAIN g : g[i].at <= t - Window => g[i].at <= u - Window
    BY EventSeq
  <1>2. \A k \in 0..Len(g) : \A i \in 1..k : i \in DOMAIN g
    BY EventSeq
  <1> QED
    BY <1>1, <1>2 DEF AllExpired, KeptOf

\* Registering a scope keeps the table true to the history: what it throws
\* away had expired.
LEMMA Registering ==
  ASSUME TableInv(windows, granted, now), HistoryInv(granted, now), now \in Nat,
         NEW s \in QuotaScopes, NEW table, table = Registered(s)
  PROVE  /\ TableInv(table, granted, now)
         /\ s \in DOMAIN table
         /\ s \in DOMAIN windows => table = windows
         /\ \A x \in DOMAIN table \ {s} : x \in DOMAIN windows /\ table[x] = windows[x]
  <1>1. CASE s \in DOMAIN windows
    <2>1. table = windows
      BY <1>1 DEF Registered
    <2> QED
      BY <1>1, <2>1
  <1>2. CASE s \notin DOMAIN windows
    <2> DEFINE kept == IF Cardinality(DOMAIN windows) >= MaxScopes
                       THEN DOMAIN windows \ Expired ELSE DOMAIN windows
    <2>1. table = [x \in kept \cup {s} |-> IF x = s THEN <<>> ELSE windows[x]]
      BY <1>2 DEF Registered
    <2>2. kept \subseteq DOMAIN windows /\ DOMAIN windows \ kept \subseteq Expired
      OBVIOUS
    <2> HIDE DEF kept
    <2>3. DOMAIN table = kept \cup {s} /\ s \in DOMAIN table
      BY <2>1
    <2>4. \A x \in DOMAIN table \ {s} : x \in DOMAIN windows /\ table[x] = windows[x]
      BY <2>1, <2>2, <2>3
    <2>5. table[s] = <<>>
      BY <2>1
    <2>6. \A x \in QuotaScopes : granted[x] \in Seq(Event) /\ InTime(granted[x])
      BY DEF HistoryInv
    <2>7. DOMAIN table \subseteq QuotaScopes /\ IsFiniteSet(DOMAIN table)
      <3>1. DOMAIN windows \subseteq QuotaScopes /\ IsFiniteSet(DOMAIN windows)
        BY DEF TableInv
      <3>2. IsFiniteSet(kept)
        BY <2>2, <3>1, FS_Subset
      <3> QED
        BY <2>2, <2>3, <3>1, <3>2, FS_AddElement
    <2>8. ASSUME NEW x \in Expired
          PROVE  AllExpired(granted[x], now)
      <3>1. x \in DOMAIN windows /\ (windows[x] = <<>> \/ Last(windows[x]).at <= now - Window)
        BY DEF Expired
      <3>2. x \in QuotaScopes /\ windows[x] \in Seq(Event) /\ KeptOf(windows[x], granted[x], now)
        BY <3>1 DEF TableInv
      <3> QED
        BY <2>6, <3>1, <3>2, LastExpires
    <2>9. ASSUME NEW x \in QuotaScopes \ DOMAIN table
          PROVE  AllExpired(granted[x], now)
      <3>1. CASE x \in DOMAIN windows
        BY <2>2, <2>3, <2>8, <3>1
      <3>2. CASE x \notin DOMAIN windows
        BY <3>2 DEF TableInv
      <3> QED
        BY <3>1, <3>2
    <2>10. KeptOf(<<>>, granted[s], now)
      <3>1. AllExpired(granted[s], now)
        BY <1>2 DEF TableInv
      <3>2. PICK g : g = granted[s]
        OBVIOUS
      <3>3. Len(g) \in Nat /\ DOMAIN g = 1..Len(g)
        BY <2>6, <3>2, EventSeq
      <3>4. Behind(g, Len(g)) = <<>>
        BY <3>3, SubSeqEmpty DEF Behind
      <3>5. \A i \in 1..Len(g) : g[i].at <= now - Window
        BY <3>1, <3>2, <3>3 DEF AllExpired
      <3>6. KeptOf(<<>>, g, now)
        BY <3>3, <3>4, <3>5 DEF KeptOf
      <3> QED
        BY <3>2, <3>6
    <2>11. ASSUME NEW x \in DOMAIN table
           PROVE  /\ table[x] \in Seq(Event) /\ Len(table[x]) <= MaxRpm
                  /\ KeptOf(table[x], granted[x], now)
      <3>1. CASE x = s
        <4>1. <<>> \in Seq(Event) /\ Len(<<>>) = 0 /\ MaxRpm \in Nat
          BY EmptySeq, LimiterAssumption
        <4> QED
          BY <2>5, <2>10, <3>1, <4>1
      <3>2. CASE x # s
        BY <2>4, <3>2 DEF TableInv
      <3> QED
        BY <3>1, <3>2
    <2>12. TableInv(table, granted, now)
      BY <2>7, <2>9, <2>11 DEF TableInv
    <2> QED
      BY <1>2, <2>3, <2>4, <2>12
  <1> QED
    BY <1>1, <1>2

\* Cleaning a window keeps the table true to the history.
LEMMA Cleaning ==
  ASSUME NEW hist, NEW t \in Nat, NEW table, TableInv(table, hist, t), HistoryInv(hist, t),
         NEW s \in DOMAIN table, NEW clean, clean = [table EXCEPT ![s] = Live(table[s], t)]
  PROVE  /\ TableInv(clean, hist, t)
         /\ DOMAIN clean = DOMAIN table
         /\ Live(table[s], t) = Live(hist[s], t)
  <1>1. /\ s \in QuotaScopes /\ table[s] \in Seq(Event) /\ Len(table[s]) <= MaxRpm
        /\ KeptOf(table[s], hist[s], t)
    BY DEF TableInv
  <1>2. hist[s] \in Seq(Event) /\ InTime(hist[s])
    BY <1>1 DEF HistoryInv
  <1>3. PICK live : live = Live(table[s], t)
    OBVIOUS
  <1>4. live = Live(hist[s], t)
    BY <1>1, <1>2, <1>3, LiveOfKept
  <1>5. live \in Seq(Event) /\ Len(live) <= MaxRpm /\ KeptOf(live, hist[s], t)
    <2>1. live \in Seq(Event) /\ Len(live) <= Len(table[s])
      BY <1>1, <1>3, LiveIsShorter
    <2>2. Len(live) \in Nat /\ Len(table[s]) \in Nat /\ MaxRpm \in Nat
      BY <1>1, <2>1, EventSeq, LimiterAssumption
    <2> QED
      BY <1>1, <1>2, <1>4, <2>1, <2>2, LiveIsKept
  <1>6. DOMAIN clean = DOMAIN table /\ clean[s] = live
        /\ \A x \in DOMAIN table \ {s} : clean[x] = table[x]
    BY <1>3
  <1>7. TableInv(clean, hist, t)
    BY <1>5, <1>6 DEF TableInv
  <1> QED
    BY <1>3, <1>4, <1>6, <1>7

(***************************************************************************)
(* RateLimiter: a grant                                                    *)
(***************************************************************************)

\* One event more adds its tokens.
LEMMA TokensOfAppend ==
  ASSUME NEW e \in Seq(Event), NEW x \in Event
  PROVE  SumTokens(Append(e, x)) = SumTokens(e) + x.tokens
  <1> DEFINE g == Append(e, x)
             n == Len(e)
  <1>1. n \in Nat /\ DOMAIN e = 1..n
    BY EventSeq
  <1>2. /\ g \in Seq(Event) /\ Len(g) = n + 1 /\ g[n + 1] = x
        /\ \A i \in 1..n : g[i] = e[i]
    BY AppendProperties
  <1> HIDE DEF g, n
  <1>3. DOMAIN g = 1..(n + 1)
    BY <1>2, EventSeq
  <1>4. \A i \in 1..(n + 1) : TokensOf(g)[i] \in Nat
    BY <1>2, <1>3, CostsType
  <1>5. Total(TokensOf(g), 1..(n + 1)) = Total(TokensOf(g), 1..n) + TokensOf(g)[n + 1]
    BY <1>1, <1>4, TotalOfInterval
  <1>6. TokensOf(g)[n + 1] = x.tokens
    <2>1. n + 1 \in DOMAIN g
      BY <1>1, <1>3
    <2> QED
      BY <1>2, <2>1, CostsType
  <1>7. Total(TokensOf(g), 1..n) = Total(TokensOf(e), 1..n)
    <2>1. IsFiniteSet(1..n)
      BY <1>1, FS_Interval
    <2>2. ASSUME NEW i \in 1..n
          PROVE  TokensOf(g)[i] = TokensOf(e)[i]
      <3>1. i \in DOMAIN g /\ i \in DOMAIN e
        BY <1>1, <1>3
      <3>2. TokensOf(g)[i] = g[i].tokens /\ TokensOf(e)[i] = e[i].tokens
        BY <1>2, <3>1, CostsType
      <3> QED
        BY <1>2, <3>2
    <2> QED
      BY <2>1, <2>2, TotalOfSame
  <1>8. SumTokens(g) = Total(TokensOf(g), 1..(n + 1))
    BY <1>3, SumOfIsTotal DEF SumTokens
  <1>9. SumTokens(e) = Total(TokensOf(e), 1..n)
    BY <1>1, SumOfIsTotal DEF SumTokens
  <1> QED
    BY <1>5, <1>6, <1>7, <1>8, <1>9 DEF g

\* A grant for which the live events leave room keeps every block within the
\* limits: the only new block is what was live, and the grant.
LEMMA BlocksOfGrant ==
  ASSUME NEW g \in Seq(Event), InTime(g), BlocksFit(g), NEW t \in Int, NEW x \in Event,
         x.at = t, Room(Live(g, t), x.tokens), NEW h, h = Append(g, x)
  PROVE  BlocksFit(h)
  <1> DEFINE n == Len(g)
  <1>1. n \in Nat /\ DOMAIN g = 1..n /\ Window \in Nat \ {0} /\ MaxRpm \in Nat
    BY EventSeq, LimiterAssumption
  <1>2. /\ h \in Seq(Event) /\ Len(h) = n + 1 /\ h[n + 1] = x
        /\ \A i \in 1..n : h[i] = g[i]
    BY AppendProperties
  <1>3. DOMAIN h = 1..(n + 1)
    BY <1>2, EventSeq
  <1> HIDE DEF n
  <1>4. ASSUME NEW hi \in 1..n
        PROVE  /\ Cardinality(Block(h, hi)) <= MaxRpm
               /\ Total(TokensOf(h), Block(h, hi)) <= MaxTpm
    <2>1. \A i \in 1..hi : i \in 1..n
      BY <1>1
    <2>2. h[hi] = g[hi] /\ \A i \in 1..hi : h[i] = g[i]
      BY <1>2, <2>1
    <2>3. Block(h, hi) = Block(g, hi)
      BY <2>2 DEF Block
    <2> DEFINE B == Block(g, hi)
    <2>4. IsFiniteSet(B) /\ B \subseteq 1..hi
      <3>1. IsFiniteSet(1..hi)
        BY <1>1, FS_Interval
      <3> QED
        BY <3>1, FS_Subset DEF Block
    <2>5. \A i \in B : TokensOf(h)[i] = TokensOf(g)[i]
      <3> TAKE i \in B
      <3>1. i \in 1..n /\ i \in DOMAIN h /\ i \in DOMAIN g
        BY <1>1, <1>3, <2>1, <2>4
      <3>2. TokensOf(h)[i] = h[i].tokens /\ TokensOf(g)[i] = g[i].tokens
        BY <1>2, <3>1, CostsType
      <3> QED
        BY <1>2, <3>1, <3>2
    <2>6. Total(TokensOf(h), B) = Total(TokensOf(g), B)
      <3> HIDE DEF B
      <3> QED
        BY <2>4, <2>5, TotalOfSame
    <2> QED
      BY <1>1, <2>3, <2>6 DEF BlocksFit
  <1>5. PICK k : k = FirstLive(g, t) - 1
    OBVIOUS
  <1>6. k \in 0..n /\ Live(g, t) = Behind(g, k)
    BY <1>5, LiveIsBehind DEF n
  <1>7. Block(h, n + 1) = (k + 1)..(n + 1)
    <2>1. FirstLive(g, t) = k + 1
      <3>1. FirstLive(g, t) \in 1..(Len(g) + 1)
        BY FirstLiveProperties
      <3> QED
        BY <1>1, <1>5, <3>1 DEF n
    <2>2. ASSUME NEW i \in 1..n
          PROVE  h[i].at > t - Window <=> i >= k + 1
      <3>1. i < k + 1 <=> g[i].at <= t - Window
        BY <1>1, <2>1, ExpiredBeginning
      <3>2. g[i].at \in Nat
        BY <1>1, EventSeq
      <3> QED
        BY <1>1, <1>2, <1>6, <3>1, <3>2
    <2>3. h[n + 1].at > t - Window
      BY <1>1, <1>2
    <2>4. \A i \in 1..(n + 1) : h[i].at > t - Window <=> i >= k + 1
      BY <1>1, <1>6, <2>2, <2>3
    <2>5. Block(h, n + 1) = {i \in 1..(n + 1) : h[i].at > t - Window}
      BY <1>2 DEF Block
    <2>6. {i \in 1..(n + 1) : h[i].at > t - Window} = {i \in 1..(n + 1) : i >= k + 1}
      BY <2>4
    <2>7. {i \in 1..(n + 1) : i >= k + 1} = (k + 1)..(n + 1)
      BY <1>1, <1>6
    <2> QED
      BY <2>5, <2>6, <2>7
  <1>8. Cardinality(Block(h, n + 1)) <= MaxRpm
    <2>1. Cardinality((k + 1)..(n + 1)) = (n + 1) - k
      BY <1>1, <1>6, FS_Interval
    <2>2. Len(Live(g, t)) = n - k
      BY <1>6, BehindProperties DEF n
    <2>3. Len(Live(g, t)) + 1 <= MaxRpm
      BY DEF Room
    <2> QED
      BY <1>1, <1>6, <1>7, <2>1, <2>2, <2>3
  <1>9. Total(TokensOf(h), Block(h, n + 1)) <= MaxTpm
    <2>1. k \in 0..Len(h)
      BY <1>1, <1>2, <1>6
    <2>2. SumTokens(Behind(h, k)) = Total(TokensOf(h), (k + 1)..(n + 1))
      BY <1>2, <2>1, TokensBehind
    <2>3. Behind(h, k) = Append(Live(g, t), x)
      BY <1>6, BehindAppend DEF n
    <2>4. Live(g, t) \in Seq(Event)
      BY LiveIsBehind
    <2>5. SumTokens(Behind(h, k)) = SumTokens(Live(g, t)) + x.tokens
      BY <2>3, <2>4, TokensOfAppend
    <2>6. SumTokens(Live(g, t)) + x.tokens <= MaxTpm
      BY DEF Room
    <2> QED
      BY <1>7, <2>2, <2>5, <2>6
  <1>10. ASSUME NEW hi \in DOMAIN h
         PROVE  hi \in 1..n \/ hi = n + 1
    BY <1>1, <1>3
  <1> QED
    BY <1>4, <1>8, <1>9, <1>10 DEF BlocksFit

\* The history, the table and the blocks after a grant.
LEMMA Granting ==
  ASSUME NEW hist, NEW t \in 0..MaxTime, NEW table, TableInv(table, hist, t),
         HistoryInv(hist, t), BlocksInv(hist), NEW s \in DOMAIN table,
         NEW live, live = Live(table[s], t),
         NEW n \in TokenCosts, Room(live, n), NEW x, x = [at |-> t, tokens |-> n],
         NEW after, after = [table EXCEPT ![s] = Append(live, x)],
         NEW story, story = [hist EXCEPT ![s] = Append(hist[s], x)]
  PROVE  TableInv(after, story, t) /\ HistoryInv(story, t) /\ BlocksInv(story)
  <1>1. t \in Nat /\ x \in Event /\ x.at = t /\ x.tokens = n /\ MaxRpm \in Nat
    BY LimiterAssumption DEF Event
  <1>2. /\ s \in QuotaScopes /\ table[s] \in Seq(Event) /\ KeptOf(table[s], hist[s], t)
        /\ hist[s] \in Seq(Event) /\ InTime(hist[s])
        /\ \A i \in DOMAIN hist[s] : hist[s][i].at <= t
    BY DEF TableInv, HistoryInv
  <1>3. PICK g : g = hist[s]
    OBVIOUS
  <1>4. live = Live(g, t) /\ g \in Seq(Event) /\ InTime(g)
    BY <1>1, <1>2, <1>3, LiveOfKept
  <1>5. PICK h : h = Append(g, x)
    OBVIOUS
  <1>6. /\ DOMAIN story = QuotaScopes /\ story[s] = h
        /\ \A y \in QuotaScopes \ {s} : story[y] = hist[y]
    BY <1>2, <1>3, <1>5 DEF HistoryInv
  <1>7. /\ DOMAIN after = DOMAIN table /\ after[s] = Append(live, x)
        /\ \A y \in DOMAIN table \ {s} : after[y] = table[y]
    OBVIOUS
  <1>8. /\ h \in Seq(Event) /\ Len(h) = Len(g) + 1 /\ h[Len(g) + 1] = x
        /\ \A i \in 1..Len(g) : h[i] = g[i]
    BY <1>1, <1>4, <1>5, AppendProperties
  <1>9. Len(g) \in Nat /\ DOMAIN g = 1..Len(g) /\ DOMAIN h = 1..(Len(g) + 1)
    BY <1>4, <1>8, EventSeq
  <1>10. InTime(h) /\ \A i \in DOMAIN h : h[i].at <= t
    <2>1. \A i \in DOMAIN g : h[i] = g[i] /\ h[i].at <= t
      BY <1>2, <1>3, <1>8, <1>9
    <2>2. \A i \in DOMAIN h : i \in DOMAIN g \/ i = Len(g) + 1
      BY <1>9
    <2>3. \A i \in DOMAIN h : h[i].at <= t
      BY <1>1, <1>8, <2>1, <2>2
    <2>4. ASSUME NEW i \in DOMAIN h, NEW j \in DOMAIN h, i <= j
          PROVE  h[i].at <= h[j].at
      <3>1. CASE j = Len(g) + 1
        BY <1>1, <1>8, <2>3, <3>1
      <3>2. CASE j # Len(g) + 1
        <4>1. i \in DOMAIN g /\ j \in DOMAIN g
          BY <1>9, <2>4, <3>2
        <4> QED
          BY <1>4, <2>1, <2>4, <4>1 DEF InTime
      <3> QED
        BY <3>1, <3>2
    <2> QED
      BY <2>3, <2>4 DEF InTime
  <1>11. HistoryInv(story, t)
    <2>1. \A y \in QuotaScopes : /\ story[y] \in Seq(Event) /\ InTime(story[y])
                                 /\ \A i \in DOMAIN story[y] : story[y][i].at <= t
      <3> TAKE y \in QuotaScopes
      <3>1. CASE y = s
        BY <1>6, <1>8, <1>10, <3>1
      <3>2. CASE y # s
        BY <1>6, <3>2 DEF HistoryInv
      <3> QED
        BY <3>1, <3>2
    <2>2. story \in [QuotaScopes -> Seq(Event)]
      <3>1. story = [y \in QuotaScopes |-> story[y]]
        BY <1>6
      <3> QED
        BY <2>1, <3>1
    <2> QED
      BY <2>1, <2>2 DEF HistoryInv
  <1>12. BlocksInv(story)
    <2>1. BlocksFit(g)
      BY <1>2, <1>3 DEF BlocksInv
    <2>2. Room(Live(g, t), x.tokens) /\ t \in Int
      BY <1>1, <1>4
    <2>3. BlocksFit(h)
      BY <1>1, <1>4, <1>5, <2>1, <2>2, BlocksOfGrant
    <2> QED
      BY <1>6, <2>3 DEF BlocksInv
  <1>13. /\ after[s] \in Seq(Event) /\ Len(after[s]) <= MaxRpm
         /\ KeptOf(after[s], story[s], t)
    <2>1. PICK k : k = FirstLive(g, t) - 1
      OBVIOUS
    <2>2. k \in 0..Len(g) /\ live = Behind(g, k) /\ live \in Seq(Event)
      BY <1>1, <1>4, <2>1, LiveIsBehind
    <2>3. Append(live, x) = Behind(h, k)
      BY <1>1, <1>4, <1>5, <2>2, BehindAppend
    <2>4. Append(live, x) \in Seq(Event) /\ Len(Append(live, x)) = Len(live) + 1
      BY <1>1, <2>2, AppendProperties
    <2>5. Len(live) + 1 <= MaxRpm
      BY DEF Room
    <2>6. ASSUME NEW i \in 1..k
          PROVE  h[i].at <= t - Window
      <3>1. FirstLive(g, t) \in 1..(Len(g) + 1)
        BY <1>1, <1>4, FirstLiveProperties
      <3>2. i \in DOMAIN g /\ i \in 1..Len(g) /\ i < FirstLive(g, t)
        BY <1>9, <2>1, <2>2, <3>1
      <3> QED
        BY <1>1, <1>4, <1>8, <3>2, FirstLiveProperties
    <2>7. k \in 0..Len(h)
      BY <1>8, <1>9, <2>2
    <2>8. KeptOf(Append(live, x), h, t)
      BY <2>3, <2>6, <2>7 DEF KeptOf
    <2> QED
      BY <1>6, <1>7, <2>4, <2>5, <2>8
  <1>14. ASSUME NEW y \in DOMAIN after
         PROVE  /\ after[y] \in Seq(Event) /\ Len(after[y]) <= MaxRpm
                /\ KeptOf(after[y], story[y], t)
    <2>1. CASE y = s
      BY <1>13, <2>1
    <2>2. CASE y # s
      <3>1. y \in DOMAIN table \ {s} /\ y \in QuotaScopes \ {s}
        BY <1>7, <2>2 DEF TableInv
      <3> QED
        BY <1>6, <1>7, <3>1 DEF TableInv
    <2> QED
      BY <2>1, <2>2
  <1>15. \A y \in QuotaScopes \ DOMAIN after : AllExpired(story[y], t)
    BY <1>6, <1>7 DEF TableInv
  <1>16. DOMAIN after \subseteq QuotaScopes /\ IsFiniteSet(DOMAIN after)
    BY <1>7 DEF TableInv
  <1>17. TableInv(after, story, t)
    BY <1>14, <1>15, <1>16 DEF TableInv
  <1> QED
    BY <1>11, <1>12, <1>17

(***************************************************************************)
(* RateLimiter: waiting                                                    *)
(***************************************************************************)

LEMMA LargerOf ==
  ASSUME NEW a \in Nat, NEW b \in Nat
  PROVE  /\ Max({a, b}) = a \/ Max({a, b}) = b
         /\ a <= Max({a, b}) /\ b <= Max({a, b})
  <1>1. {a, b} \in SUBSET (0..(a + b)) /\ {a, b} # {} /\ a + b \in Nat
    OBVIOUS
  <1>2. Max({a, b}) \in {a, b} /\ \A i \in {a, b} : i <= Max({a, b})
    BY <1>1, MaxOfNats
  <1> QED
    BY <1>2

LEMMA CostsAreSeqs ==
  ASSUME NEW e \in Seq(Event)
  PROVE  /\ Ones(e) \in Seq(Nat) /\ Len(Ones(e)) = Len(e)
         /\ TokensOf(e) \in Seq(Nat) /\ Len(TokensOf(e)) = Len(e)
  <1>1. Len(e) \in Nat /\ DOMAIN e = 1..Len(e)
    BY EventSeq
  <1>2. Ones(e) \in [1..Len(e) -> Nat] /\ TokensOf(e) \in [1..Len(e) -> Nat]
    BY <1>1, EventSeq DEF Ones, TokensOf
  <1>3. ASSUME NEW n \in Nat, NEW f \in [1..n -> Nat]
        PROVE  f \in Seq(Nat) /\ Len(f) = n
    OBVIOUS
  <1> QED
    BY <1>1, <1>2, <1>3

LiveNow(e) == \A i \in DOMAIN e : e[i].at > now - Window

\* A wait ends when an event of e expires; what the ones before it free is less
\* than what is missing.
Ends(wait, e, costs, missing) ==
  wait > 0 => \E n \in DOMAIN e : /\ wait = e[n].at + Window - now
                                  /\ \A k \in 0..(n - 1) : Total(costs, 1..k) < missing

LEMMA WaitForExpiry ==
  ASSUME now \in Nat, NEW e \in Seq(Event), LiveNow(e),
         NEW costs \in Seq(Nat), Len(costs) = Len(e),
         NEW limit \in Nat, NEW needed \in Nat, needed <= limit,
         NEW missing, missing = Total(costs, 1..Len(e)) + needed - limit,
         NEW wait, wait = WaitFor(e, costs, limit, needed)
  PROVE  wait \in Nat /\ Ends(wait, e, costs, missing)
  <1> DEFINE Freed(n) == SumOf(costs, 1..n)
             excess == Freed(Len(costs)) + needed - limit
             enough == {n \in DOMAIN costs : Freed(n) >= excess}
  <1>1. /\ Len(e) \in Nat /\ DOMAIN e = 1..Len(e) /\ DOMAIN costs = 1..Len(e)
        /\ Window \in Nat /\ \A i \in DOMAIN e : e[i].at \in Nat
    BY EventSeq, LenProperties
  <1>2. \A k \in 0..Len(e) : Freed(k) = Total(costs, 1..k) /\ Freed(k) \in Nat
    <2> TAKE k \in 0..Len(e)
    <2>1. IsFiniteSet(1..k)
      <3>1. k \in Int
        BY <1>1
      <3> QED
        BY <3>1, FS_Interval
    <2>2. \A i \in 1..k : costs[i] \in Nat
      BY <1>1, ElementOfSeq
    <2>3. Total(costs, 1..k) \in Nat
      BY <2>1, <2>2, TotalType
    <2> QED
      BY <2>3, SumOfIsTotal
  <1>3. Freed(Len(costs)) \in Nat /\ excess = missing
    BY <1>1, <1>2
  <1>4. wait = CASE excess <= 0 -> 0
                 [] excess > 0 /\ enough # {} -> e[Min(enough)].at + Window - now
                 [] OTHER -> Window
    BY DEF WaitFor
  <1>5. enough \in SUBSET (1..Len(e))
    BY <1>1
  <1>6. \A n \in enough : Freed(n) >= excess
    OBVIOUS
  <1>7. \A n \in 1..Len(e) : Freed(n) >= excess => n \in enough
    BY <1>1
  <1>8. excess \in Int
    BY <1>3
  <1> HIDE DEF excess, enough, Freed
  <1>9. CASE excess <= 0
    <2>1. wait = 0
      BY <1>4, <1>8, <1>9
    <2> QED
      BY <2>1 DEF Ends
  <1>10. CASE ~(excess <= 0)
    <2>1. Total(costs, 1..0) = 0
      <3>1. 1..0 = {}
        OBVIOUS
      <3> QED
        BY <3>1, TotalOfNothing
    <2>2. Len(e) # 0
      <3>1. missing = Total(costs, 1..Len(e)) + needed - limit
        OBVIOUS
      <3> QED
        BY <1>3, <1>10, <2>1, <3>1
    <2>3. Len(e) \in enough
      <3>1. Len(e) \in 1..Len(e) /\ Len(e) \in 0..Len(e)
        BY <1>1, <2>2
      <3>2. Freed(Len(e)) \in Nat /\ missing = Freed(Len(e)) + needed - limit
        BY <1>2, <3>1
      <3> QED
        BY <1>3, <1>7, <3>1, <3>2
    <2>4. Min(enough) \in enough /\ \A k \in enough : Min(enough) <= k
      BY <1>5, <2>3, MinOfNats
    <2>5. PICK n : n = Min(enough)
      OBVIOUS
    <2>6. n \in DOMAIN e /\ n \in Nat
      BY <1>1, <1>5, <2>4, <2>5
    <2>7. wait = e[n].at + Window - now
      <3>1. excess > 0 /\ enough # {}
        BY <1>8, <1>10, <2>3
      <3> QED
        BY <1>4, <1>8, <1>10, <2>5, <3>1
    <2>8. wait \in Nat
      <3>1. e[n].at \in Nat /\ e[n].at > now - Window
        BY <1>1, <2>6 DEF LiveNow
      <3> QED
        BY <1>1, <2>7, <3>1
    <2>9. ASSUME NEW k \in 0..(n - 1)
          PROVE  Total(costs, 1..k) < missing
      <3>1. k \in 0..Len(e) /\ k < n
        BY <1>1, <2>6
      <3>2. CASE k = 0
        BY <1>3, <1>8, <1>10, <2>1, <3>2
      <3>3. CASE k # 0
        <4>1. k \notin enough
          BY <2>4, <2>5, <2>6, <3>1
        <4>2. k \in 1..Len(e)
          BY <1>1, <3>1, <3>3
        <4>3. ~(Freed(k) >= excess)
          BY <1>7, <4>1, <4>2
        <4> QED
          BY <1>2, <1>3, <1>8, <3>1, <4>3
      <3> QED
        BY <3>2, <3>3
    <2> QED
      BY <2>6, <2>7, <2>8, <2>9 DEF Ends
  <1> QED
    BY <1>9, <1>10

\* Both waits of a call.
LEMMA WaitBounds ==
  ASSUME now \in Nat, NEW e \in Seq(Event), InTime(e),
         LiveNow(e), NEW n \in Nat, n <= MaxTpm, NEW wait, wait = Wait(e, n)
  PROVE  /\ wait \in Nat
         /\ \A t \in Int : now <= t /\ t < now + wait => ~Room(Live(e, t), n)
  <1>1. /\ Len(e) \in Nat /\ DOMAIN e = 1..Len(e) /\ Window \in Nat
        /\ \A i \in DOMAIN e : e[i].at \in Nat
    BY EventSeq
  <1>2. MaxRpm \in Nat /\ MaxTpm \in Nat /\ 1 \in Nat /\ 1 <= MaxRpm
    BY LimiterAssumption
  <1>3. PICK rw : rw = WaitFor(e, Ones(e), MaxRpm, 1)
    OBVIOUS
  <1>4. PICK tw : tw = WaitFor(e, TokensOf(e), MaxTpm, n)
    OBVIOUS
  <1>5. Total(Ones(e), 1..Len(e)) = Len(e) /\ \A k \in 0..Len(e) : Total(Ones(e), 1..k) = k
    BY <1>1, RequestsCount
  <1>6. PICK lacking : lacking = Total(TokensOf(e), 1..Len(e)) + n - MaxTpm
    OBVIOUS
  <1>7. rw \in Nat /\ Ends(rw, e, Ones(e), Len(e) + 1 - MaxRpm)
    BY <1>2, <1>3, <1>5, CostsAreSeqs, WaitForExpiry
  <1>8. tw \in Nat /\ Ends(tw, e, TokensOf(e), lacking)
    BY <1>2, <1>4, <1>6, CostsAreSeqs, WaitForExpiry
  <1>9. wait = Max({rw, tw})
    BY <1>3, <1>4 DEF Wait
  <1>10. wait \in Nat /\ (wait = rw \/ wait = tw)
    BY <1>7, <1>8, <1>9, LargerOf
  <1>11. ASSUME NEW t \in Int, now <= t, t < now + wait
         PROVE  ~Room(Live(e, t), n)
    <2>1. PICK k : k = FirstLive(e, t) - 1
      OBVIOUS
    <2>2. k \in 0..Len(e) /\ Live(e, t) = Behind(e, k)
      BY <2>1, LiveIsBehind
    <2>3. ASSUME NEW m \in DOMAIN e, t < e[m].at + Window
          PROVE  k \in 0..(m - 1)
      <3>1. ~(e[m].at <= t - Window)
        BY <1>1, <2>3
      <3>2. ~(m < FirstLive(e, t))
        BY <3>1, ExpiredBeginning
      <3>3. FirstLive(e, t) \in 1..(Len(e) + 1)
        BY FirstLiveProperties
      <3> QED
        BY <1>1, <2>1, <2>2, <3>2, <3>3
    <2>4. CASE wait = rw
      <3>1. rw > 0
        BY <1>10, <1>11, <2>4
      <3>2. PICK m \in DOMAIN e : /\ rw = e[m].at + Window - now
                                  /\ \A j \in 0..(m - 1) :
                                       Total(Ones(e), 1..j) < Len(e) + 1 - MaxRpm
        BY <1>7, <3>1 DEF Ends
      <3>3. t < e[m].at + Window
        BY <1>1, <1>11, <2>4, <3>2
      <3>4. k < Len(e) + 1 - MaxRpm
        BY <1>5, <2>2, <2>3, <3>2, <3>3
      <3>5. Len(Live(e, t)) = Len(e) - k
        BY <2>2, BehindProperties
      <3>6. ~(Len(Live(e, t)) + 1 <= MaxRpm)
        BY <1>1, <1>2, <2>2, <3>4, <3>5
      <3> QED
        BY <3>6 DEF Room
    <2>5. CASE wait = tw
      <3>1. tw > 0
        BY <1>10, <1>11, <2>5
      <3>2. PICK m \in DOMAIN e : /\ tw = e[m].at + Window - now
                                  /\ \A j \in 0..(m - 1) :
                                       Total(TokensOf(e), 1..j) < lacking
        BY <1>8, <3>1 DEF Ends
      <3>3. t < e[m].at + Window
        BY <1>1, <1>11, <2>5, <3>2
      <3>4. Total(TokensOf(e), 1..k) < lacking
        BY <2>3, <3>2, <3>3
      <3>5. /\ SumTokens(e) = Total(TokensOf(e), 1..k) + SumTokens(Live(e, t))
            /\ lacking = SumTokens(e) + n - MaxTpm
            /\ SumTokens(Live(e, t)) \in Nat /\ Total(TokensOf(e), 1..k) \in Nat
        BY <1>6, <2>2, TokensSplit
      <3>6. ~(SumTokens(Live(e, t)) + n <= MaxTpm)
        BY <1>2, <3>4, <3>5
      <3> QED
        BY <3>6 DEF Room
    <2> QED
      BY <1>10, <2>4, <2>5
  <1> QED
    BY <1>10, <1>11

(***************************************************************************)
(* RateLimiter: the steps                                                  *)
(***************************************************************************)

LEMMA EndedType ==
  ASSUME LimiterTypeOK, NEW r \in Requests, NEW pc \in {"granted", "refused", "timed_out"}
  PROVE  /\ Ended(r, pc) \in [Requests -> Acquire]
         /\ Ended(r, pc)[r].pc = pc
         /\ \A q \in Requests \ {r} : Ended(r, pc)[q] = acq[q]
  <1> DEFINE c == [NotCalled EXCEPT !.pc = pc]
  <1>1. c \in Acquire /\ c.pc = pc
    BY DEF NotCalled, Acquire
  <1>2. acq \in [Requests -> Acquire]
    BY DEF LimiterTypeOK
  <1>3. Ended(r, pc) = [acq EXCEPT ![r] = c]
    BY DEF Ended
  <1> HIDE DEF c
  <1> QED
    BY <1>1, <1>2, <1>3

\* A call whose tokens exceed the limit never tries.
LEMMA CallStep ==
  ASSUME LimiterInv, NEW r \in Requests, NEW s \in QuotaScopes, NEW n \in TokenCosts,
         NEW d \in Timeouts, NEW b \in BOOLEAN, Call(r, s, n, d, b)
  PROVE  LimiterInv' /\ (acq[r].pc = "idle" /\ acq'[r].pc # "timed_out")
         /\ \A q \in Requests \ {r} : acq'[q] = acq[q]
  <1>1. LimiterTypeOK
    BY DEF LimiterInv
  <1>2. acq \in [Requests -> Acquire] /\ now \in Nat
    BY <1>1, LimiterAssumption DEF LimiterTypeOK
  <1>3. acq[r].pc = "idle" /\ UNCHANGED <<now, windows, granted>>
    BY DEF Call
  <1>4. CASE n > MaxTpm
    <2>1. acq' = Ended(r, "refused")
      BY <1>4 DEF Call
    <2>2. /\ acq' \in [Requests -> Acquire] /\ acq'[r].pc = "refused"
          /\ \A q \in Requests \ {r} : acq'[q] = acq[q]
      BY <1>1, <2>1, EndedType
    <2>3. TriesInv'
      BY <2>2 DEF LimiterInv, TriesInv
    <2> QED
      BY <1>3, <2>2, <2>3
      DEF LimiterInv, LimiterTypeOK, TableInv, HistoryInv, BlocksInv
  <1>5. CASE ~(n > MaxTpm)
    <2> DEFINE c == [pc |-> "trying", scope |-> s, tokens |-> n, block |-> b,
                     deadline |-> IF b THEN now + d ELSE now, wake |-> now]
    <2>1. acq' = [acq EXCEPT ![r] = c]
      BY <1>5 DEF Call
    <2>2. (IF b THEN now + d ELSE now) \in Nat
      BY <1>2, LimiterAssumption
    <2>3. /\ c \in Acquire /\ c.pc = "trying" /\ c.scope = s /\ c.tokens = n
          /\ n \in Nat /\ n <= MaxTpm
      BY <1>2, <1>5, <2>2, LimiterAssumption DEF Acquire
    <2> HIDE DEF c
    <2>4. /\ acq' \in [Requests -> Acquire] /\ acq'[r] = c
          /\ \A q \in Requests \ {r} : acq'[q] = acq[q]
      BY <1>2, <2>1, <2>3
    <2>5. TriesInv'
      <3>1. ASSUME NEW q \in Requests, acq'[q].pc = "trying"
            PROVE  /\ acq'[q].scope \in QuotaScopes /\ acq'[q].tokens \in TokenCosts
                   /\ acq'[q].tokens <= MaxTpm
        <4>1. CASE q = r
          BY <2>3, <2>4, <4>1
        <4>2. CASE q # r
          BY <2>4, <3>1, <4>2 DEF LimiterInv, TriesInv
        <4> QED
          BY <4>1, <4>2
      <3> QED
        BY <3>1 DEF TriesInv
    <2>6. acq'[r].pc # "timed_out"
      BY <2>3, <2>4
    <2> QED
      BY <1>3, <2>4, <2>5, <2>6
      DEF LimiterInv, LimiterTypeOK, TableInv, HistoryInv, BlocksInv
  <1> QED
    BY <1>4, <1>5

\* Time passing only lets more expire.
LEMMA TickStep ==
  ASSUME LimiterInv, Tick
  PROVE  LimiterInv'
  <1>1. /\ now' \in 0..MaxTime /\ now' = now + 1 /\ now \in Int
        /\ windows' = windows /\ acq' = acq /\ granted' = granted
    BY LimiterAssumption DEF Tick, LimiterInv, LimiterTypeOK
  <1>2. \A s \in QuotaScopes : granted[s] \in Seq(Event)
    BY DEF LimiterInv, HistoryInv
  <1>3. \A s \in QuotaScopes :
          /\ AllExpired(granted[s], now) => AllExpired(granted[s], now + 1)
          /\ \A w : KeptOf(w, granted[s], now) => KeptOf(w, granted[s], now + 1)
    BY <1>1, <1>2, ExpiryIsFinal
  <1>4. TableInv(windows, granted, now + 1)
    <2>1. TableInv(windows, granted, now)
      BY DEF LimiterInv
    <2> QED
      BY <1>3, <2>1 DEF TableInv
  <1>5. HistoryInv(granted, now + 1)
    <2>1. HistoryInv(granted, now)
      BY DEF LimiterInv
    <2>2. \A s \in QuotaScopes : \A i \in DOMAIN granted[s] : granted[s][i].at <= now + 1
      <3> TAKE s \in QuotaScopes
      <3> TAKE i \in DOMAIN granted[s]
      <3>1. granted[s][i].at \in Nat /\ granted[s][i].at <= now
        BY <1>2, <2>1, EventSeq DEF HistoryInv
      <3> QED
        BY <1>1, <3>1
    <2> QED
      BY <2>1, <2>2 DEF HistoryInv
  <1>6. TableInv(windows, granted, now)' /\ HistoryInv(granted, now)' /\ BlocksInv(granted)'
    BY <1>1, <1>4, <1>5 DEF LimiterInv, TableInv, HistoryInv, BlocksInv
  <1>7. LimiterTypeOK' /\ TriesInv'
    BY <1>1 DEF LimiterInv, LimiterTypeOK, TriesInv
  <1> QED
    BY <1>6, <1>7 DEF LimiterInv

\* What a turn of the loop does, by the room it finds.
Turn(r, s, n, table, live, wait) ==
  /\ now' = now
  /\ \/ /\ Cardinality(DOMAIN table) > MaxScopes
        /\ windows' = [x \in DOMAIN table \ {s} |-> windows[x]]
        /\ granted' = granted /\ acq' = Ended(r, "refused")
     \/ /\ ~(Cardinality(DOMAIN table) > MaxScopes) /\ Room(live, n)
        /\ windows' = [table EXCEPT ![s] = Append(live, [at |-> now, tokens |-> n])]
        /\ granted' = [granted EXCEPT ![s] = Append(granted[s], [at |-> now, tokens |-> n])]
        /\ acq' = Ended(r, "granted")
     \/ /\ ~(Cardinality(DOMAIN table) > MaxScopes) /\ ~Room(live, n)
        /\ windows' = [table EXCEPT ![s] = live]
        /\ granted' = granted
        /\ \/ acq' = Ended(r, "refused")
           \/ /\ acq' = Ended(r, "timed_out")
              /\ acq[r].deadline - now <= 0 \/ wait > acq[r].deadline - now
           \/ /\ acq' = [acq EXCEPT ![r].wake = now + Min({wait, acq[r].deadline - now, 1})]
              /\ ~(acq[r].deadline - now <= 0) /\ ~(wait > acq[r].deadline - now)

LEMMA TurnOfLoop ==
  ASSUME NEW r \in Requests, Attempt(r),
         NEW s, s = acq[r].scope, NEW n, n = acq[r].tokens,
         NEW table, table = Registered(s), NEW live, live = Live(table[s], now),
         NEW wait, wait = Wait(live, n)
  PROVE  acq[r].pc = "trying" /\ Turn(r, s, n, table, live, wait)
  BY DEF Attempt, Turn

\* What a turn of the loop meets: a clean window that stands for the history.
LEMMA TurnMeets ==
  ASSUME LimiterInv, NEW r \in Requests, Attempt(r)
  PROVE  \E s, n, table, live, wait :
           /\ s \in QuotaScopes /\ s = acq[r].scope /\ acq[r].pc = "trying"
           /\ n \in TokenCosts /\ n = acq[r].tokens /\ n \in Nat /\ n <= MaxTpm
           /\ table = Registered(s) /\ s \in DOMAIN table
           /\ TableInv(table, granted, now)
           /\ s \in DOMAIN windows => table = windows
           /\ \A x \in DOMAIN table \ {s} : x \in DOMAIN windows /\ table[x] = windows[x]
           /\ live = Live(table[s], now) /\ live = Live(granted[s], now)
           /\ live \in Seq(Event) /\ InTime(live) /\ LiveNow(live)
           /\ wait = Wait(live, n) /\ wait \in Nat
           /\ Turn(r, s, n, table, live, wait)
  <1>1. acq[r].pc = "trying"
    BY DEF Attempt
  <1>2. PICK s \in QuotaScopes : s = acq[r].scope
    BY <1>1 DEF LimiterInv, TriesInv
  <1>3. PICK n \in TokenCosts : n = acq[r].tokens
    BY <1>1 DEF LimiterInv, TriesInv
  <1>4. n \in Nat /\ n <= MaxTpm
    <2>1. n \in Nat
      BY LimiterAssumption
    <2>2. n <= MaxTpm
      BY <1>1, <1>3 DEF LimiterInv, TriesInv
    <2> QED
      BY <2>1, <2>2
  <1>5. PICK table : table = Registered(s)
    OBVIOUS
  <1>6. now \in Nat /\ TableInv(windows, granted, now) /\ HistoryInv(granted, now)
    BY LimiterAssumption DEF LimiterInv, LimiterTypeOK
  <1>7. /\ TableInv(table, granted, now) /\ s \in DOMAIN table
        /\ s \in DOMAIN windows => table = windows
        /\ \A x \in DOMAIN table \ {s} : x \in DOMAIN windows /\ table[x] = windows[x]
    BY <1>5, <1>6, Registering
  <1>8. PICK live : live = Live(table[s], now)
    OBVIOUS
  <1>9. live = Live(granted[s], now)
    <2>1. PICK clean : clean = [table EXCEPT ![s] = Live(table[s], now)]
      OBVIOUS
    <2> QED
      BY <1>6, <1>7, <1>8, <2>1, Cleaning
  <1>10. PICK wait : wait = Wait(live, n)
    OBVIOUS
  <1>11. Turn(r, s, n, table, live, wait)
    BY <1>2, <1>3, <1>5, <1>8, <1>10, TurnOfLoop
  <1>12. live \in Seq(Event) /\ InTime(live) /\ LiveNow(live)
    <2>1. PICK g : g = granted[s]
      OBVIOUS
    <2>2. g \in Seq(Event) /\ InTime(g)
      BY <1>6, <2>1 DEF HistoryInv
    <2>3. PICK k : k = FirstLive(g, now) - 1
      OBVIOUS
    <2>4. k \in 0..Len(g) /\ live = Behind(g, k)
      BY <1>6, <1>9, <2>1, <2>2, <2>3, LiveIsBehind
    <2>5. live \in Seq(Event) /\ InTime(live)
      BY <2>2, <2>4, BehindProperties, BehindInTime
    <2>6. ASSUME NEW i \in DOMAIN live
          PROVE  live[i].at > now - Window
      <3>1. Len(g) \in Nat /\ DOMAIN g = 1..Len(g) /\ Window \in Nat
            /\ FirstLive(g, now) \in 1..(Len(g) + 1)
        BY <1>6, <2>2, EventSeq, FirstLiveProperties
      <3>2. i \in 1..(Len(g) - k) /\ live[i] = g[k + i]
        BY <2>2, <2>4, BehindProperties
      <3>3. k + i \in DOMAIN g /\ ~(k + i < FirstLive(g, now))
        BY <2>3, <2>4, <3>1, <3>2
      <3>4. ~(g[k + i].at <= now - Window) /\ g[k + i].at \in Nat
        BY <1>6, <2>2, <3>3, ExpiredBeginning, EventSeq
      <3> QED
        BY <1>6, <3>1, <3>2, <3>4
    <2> QED
      BY <2>5, <2>6 DEF LiveNow
  <1>13. wait \in Nat
    BY <1>4, <1>6, <1>10, <1>12, WaitBounds
  <1> QED
    BY <1>1, <1>2, <1>3, <1>4, <1>5, <1>7, <1>8, <1>9, <1>10, <1>11, <1>12, <1>13

\* A call that ends now leaves the others' calls alone.
LEMMA EndStep ==
  ASSUME LimiterInv, NEW r \in Requests, NEW pc \in {"granted", "refused", "timed_out"},
         acq' = Ended(r, pc)
  PROVE  /\ acq' \in [Requests -> Acquire] /\ TriesInv' /\ acq'[r].pc = pc
         /\ \A q \in Requests \ {r} : acq'[q] = acq[q]
  <1>1. LimiterTypeOK
    BY DEF LimiterInv
  <1>2. /\ acq' \in [Requests -> Acquire] /\ acq'[r].pc = pc
        /\ \A q \in Requests \ {r} : acq'[q] = acq[q]
    BY <1>1, EndedType
  <1>3. pc # "trying"
    OBVIOUS
  <1>4. TriesInv'
    BY <1>2, <1>3 DEF LimiterInv, TriesInv
  <1> QED
    BY <1>2, <1>4

\* A sleeper goes on trying.
LEMMA SleepStep ==
  ASSUME LimiterInv, NEW r \in Requests, acq[r].pc = "trying", NEW u \in Nat,
         acq' = [acq EXCEPT ![r].wake = u]
  PROVE  /\ acq' \in [Requests -> Acquire] /\ TriesInv' /\ acq'[r].pc = "trying"
         /\ \A q \in Requests \ {r} : acq'[q] = acq[q]
  <1>1. acq \in [Requests -> Acquire]
    BY DEF LimiterInv, LimiterTypeOK
  <1> DEFINE c == [acq[r] EXCEPT !.wake = u]
  <1>2. /\ c \in Acquire /\ c.pc = acq[r].pc /\ c.scope = acq[r].scope
        /\ c.tokens = acq[r].tokens
    BY <1>1 DEF Acquire
  <1>3. acq' = [acq EXCEPT ![r] = c]
    OBVIOUS
  <1> HIDE DEF c
  <1>4. /\ acq' \in [Requests -> Acquire] /\ acq'[r] = c
        /\ \A q \in Requests \ {r} : acq'[q] = acq[q]
    BY <1>1, <1>2, <1>3
  <1>5. TriesInv'
    BY <1>2, <1>4 DEF LimiterInv, TriesInv
  <1> QED
    BY <1>2, <1>4, <1>5

\* What the calls' steps leave behind, once the windows and the history are
\* known to be right.
LEMMA LimiterInvAfter ==
  ASSUME LimiterInv, now' = now, TableInv(windows', granted', now),
         HistoryInv(granted', now), BlocksInv(granted'),
         Cardinality(DOMAIN windows') <= MaxScopes,
         acq' \in [Requests -> Acquire], TriesInv'
  PROVE  LimiterInv'
  <1>1. TableInv(windows, granted, now)' /\ HistoryInv(granted, now)' /\ BlocksInv(granted)'
    BY DEF TableInv, HistoryInv, BlocksInv
  <1>2. LimiterTypeOK'
    BY DEF LimiterInv, LimiterTypeOK, TableInv, HistoryInv
  <1> QED
    BY <1>1, <1>2 DEF LimiterInv

\* Why a call gives up: the scope has no room until the deadline.
Justified(r) ==
  \A t \in now..acq[r].deadline : ~Room(Live(granted[acq[r].scope], t), acq[r].tokens)

LEMMA RefusalIsJustified ==
  ASSUME LimiterInv, NEW r \in Requests, acq[r].pc = "trying",
         NEW s \in QuotaScopes, s = acq[r].scope, NEW n \in Nat, n = acq[r].tokens, n <= MaxTpm,
         NEW live, live = Live(granted[s], now), InTime(live), LiveNow(live),
         live \in Seq(Event), NEW wait, wait = Wait(live, n), ~Room(live, n),
         acq[r].deadline - now <= 0 \/ wait > acq[r].deadline - now
  PROVE  Justified(r)
  <1>1. now \in Nat /\ HistoryInv(granted, now)
    BY LimiterAssumption DEF LimiterInv, LimiterTypeOK
  <1>2. acq[r].deadline \in Nat
    BY DEF LimiterInv, LimiterTypeOK, Acquire
  <1>3. /\ wait \in Nat
        /\ \A t \in Int : now <= t /\ t < now + wait => ~Room(Live(live, t), n)
    BY <1>1, WaitBounds
  <1>4. ASSUME NEW t \in now..acq[r].deadline
        PROVE  ~Room(Live(granted[s], t), n)
    <2>1. t \in Int /\ now <= t /\ t <= acq[r].deadline
      BY <1>1, <1>2
    <2>2. CASE t = now
      BY <2>2
    <2>3. CASE t # now
      <3>1. t < now + wait
        BY <1>1, <1>2, <1>3, <2>1, <2>3
      <3>2. PICK g : g = granted[s]
        OBVIOUS
      <3>3. g \in Seq(Event) /\ InTime(g)
        BY <1>1, <3>2 DEF HistoryInv
      <3>4. KeptOf(live, g, now)
        BY <1>1, <3>2, <3>3, LiveIsKept
      <3>5. Live(live, t) = Live(g, t)
        BY <1>1, <2>1, <3>3, <3>4, LiveOfKept
      <3> QED
        BY <1>3, <2>1, <3>1, <3>2, <3>5
    <2> QED
      BY <2>2, <2>3
  <1> QED
    BY <1>4 DEF Justified

\* A turn of the loop keeps the limits, and gives up for a reason.
LEMMA AttemptStep ==
  ASSUME LimiterInv, NEW r \in Requests, Attempt(r)
  PROVE  LimiterInv' /\ (acq'[r].pc = "timed_out" => Justified(r))
         /\ \A q \in Requests \ {r} : acq'[q] = acq[q]
  <1>1. PICK s, n, table, live, wait :
           /\ s \in QuotaScopes /\ s = acq[r].scope /\ acq[r].pc = "trying"
           /\ n \in TokenCosts /\ n = acq[r].tokens /\ n \in Nat /\ n <= MaxTpm
           /\ table = Registered(s) /\ s \in DOMAIN table
           /\ TableInv(table, granted, now)
           /\ s \in DOMAIN windows => table = windows
           /\ \A x \in DOMAIN table \ {s} : x \in DOMAIN windows /\ table[x] = windows[x]
           /\ live = Live(table[s], now) /\ live = Live(granted[s], now)
           /\ live \in Seq(Event) /\ InTime(live) /\ LiveNow(live)
           /\ wait = Wait(live, n) /\ wait \in Nat
           /\ Turn(r, s, n, table, live, wait)
    BY TurnMeets
  <1>2. /\ now \in 0..MaxTime /\ now \in Nat /\ MaxScopes \in Nat
        /\ TableInv(windows, granted, now) /\ HistoryInv(granted, now) /\ BlocksInv(granted)
        /\ Cardinality(DOMAIN windows) <= MaxScopes
    BY LimiterAssumption DEF LimiterInv, LimiterTypeOK
  <1>3. now' = now
    BY <1>1 DEF Turn
  <1>4. IsFiniteSet(DOMAIN table) /\ Cardinality(DOMAIN table) \in Nat
    BY <1>1, FS_CardinalityType DEF TableInv
  <1>5. CASE /\ Cardinality(DOMAIN table) > MaxScopes
             /\ windows' = [x \in DOMAIN table \ {s} |-> windows[x]]
             /\ granted' = granted /\ acq' = Ended(r, "refused")
    <2>1. s \notin DOMAIN windows
      BY <1>1, <1>2, <1>4, <1>5
    <2>2. DOMAIN windows' = DOMAIN table \ {s}
      BY <1>5
    <2>3. DOMAIN windows' \subseteq DOMAIN windows /\ IsFiniteSet(DOMAIN windows)
      BY <1>1, <1>2, <2>2 DEF TableInv
    <2>4. IsFiniteSet(DOMAIN windows') /\ Cardinality(DOMAIN windows') <= MaxScopes
      <3>1. /\ IsFiniteSet(DOMAIN windows') /\ Cardinality(DOMAIN windows') \in Nat
            /\ Cardinality(DOMAIN windows') <= Cardinality(DOMAIN windows)
            /\ Cardinality(DOMAIN windows) \in Nat
        BY <2>3, FS_Subset, FS_CardinalityType
      <3> QED
        BY <1>2, <3>1
    <2>5. TableInv(windows', granted, now)
      <3>1. \A x \in DOMAIN windows' : /\ windows'[x] \in Seq(Event) /\ Len(windows'[x]) <= MaxRpm
                                       /\ KeptOf(windows'[x], granted[x], now)
        <4> TAKE x \in DOMAIN windows'
        <4>1. windows'[x] = windows[x] /\ x \in DOMAIN windows
          BY <1>5, <2>2, <2>3
        <4> QED
          BY <1>2, <4>1 DEF TableInv
      <3>2. \A x \in QuotaScopes \ DOMAIN windows' : AllExpired(granted[x], now)
        BY <1>1, <1>2, <2>1, <2>2 DEF TableInv
      <3>3. DOMAIN windows' \subseteq QuotaScopes
        BY <1>2, <2>3 DEF TableInv
      <3> QED
        BY <2>4, <3>1, <3>2, <3>3 DEF TableInv
    <2>6. /\ acq' \in [Requests -> Acquire] /\ TriesInv' /\ acq'[r].pc = "refused"
          /\ \A q \in Requests \ {r} : acq'[q] = acq[q]
      BY <1>5, EndStep
    <2>7. LimiterInv'
      BY <1>2, <1>3, <1>5, <2>4, <2>5, <2>6, LimiterInvAfter
    <2> QED
      BY <2>6, <2>7
  <1>6. CASE /\ ~(Cardinality(DOMAIN table) > MaxScopes) /\ Room(live, n)
             /\ windows' = [table EXCEPT ![s] = Append(live, [at |-> now, tokens |-> n])]
             /\ granted' = [granted EXCEPT ![s] = Append(granted[s], [at |-> now, tokens |-> n])]
             /\ acq' = Ended(r, "granted")
    <2>1. PICK x : x = [at |-> now, tokens |-> n]
      OBVIOUS
    <2>2. /\ windows' = [table EXCEPT ![s] = Append(live, x)]
          /\ granted' = [granted EXCEPT ![s] = Append(granted[s], x)]
      BY <1>6, <2>1
    <2>3. TableInv(windows', granted', now) /\ HistoryInv(granted', now) /\ BlocksInv(granted')
      <3>1. PICK after : after = [table EXCEPT ![s] = Append(live, x)]
        OBVIOUS
      <3>2. PICK story : story = [granted EXCEPT ![s] = Append(granted[s], x)]
        OBVIOUS
      <3>3. n \in TokenCosts /\ Room(live, n) /\ live = Live(table[s], now)
            /\ TableInv(table, granted, now) /\ s \in DOMAIN table
        BY <1>1, <1>6
      <3>4. now \in 0..MaxTime /\ HistoryInv(granted, now) /\ BlocksInv(granted)
        BY <1>2
      <3>5. TableInv(after, story, now) /\ HistoryInv(story, now) /\ BlocksInv(story)
        BY <2>1, <3>1, <3>2, <3>3, <3>4, Granting
      <3>6. windows' = after /\ granted' = story
        BY <2>2, <3>1, <3>2
      <3> QED
        BY <3>5, <3>6
    <2>4. Cardinality(DOMAIN windows') <= MaxScopes
      <3>1. DOMAIN windows' = DOMAIN table
        BY <2>2
      <3> QED
        BY <1>2, <1>4, <1>6, <3>1
    <2>5. /\ acq' \in [Requests -> Acquire] /\ TriesInv' /\ acq'[r].pc = "granted"
          /\ \A q \in Requests \ {r} : acq'[q] = acq[q]
      BY <1>6, EndStep
    <2>6. LimiterInv'
      BY <1>3, <2>3, <2>4, <2>5, LimiterInvAfter
    <2> QED
      BY <2>5, <2>6
  <1>7. CASE /\ ~(Cardinality(DOMAIN table) > MaxScopes) /\ ~Room(live, n)
             /\ windows' = [table EXCEPT ![s] = live]
             /\ granted' = granted
             /\ \/ acq' = Ended(r, "refused")
                \/ /\ acq' = Ended(r, "timed_out")
                   /\ acq[r].deadline - now <= 0 \/ wait > acq[r].deadline - now
                \/ /\ acq' = [acq EXCEPT ![r].wake =
                                           now + Min({wait, acq[r].deadline - now, 1})]
                   /\ ~(acq[r].deadline - now <= 0) /\ ~(wait > acq[r].deadline - now)
    <2>1. TableInv(windows', granted', now) /\ DOMAIN windows' = DOMAIN table
      <3>1. PICK clean : clean = [table EXCEPT ![s] = Live(table[s], now)]
        OBVIOUS
      <3>2. TableInv(table, granted, now) /\ s \in DOMAIN table /\ live = Live(table[s], now)
        BY <1>1
      <3>3. now \in Nat /\ HistoryInv(granted, now)
        BY <1>2
      <3>4. TableInv(clean, granted, now) /\ DOMAIN clean = DOMAIN table
        BY <3>1, <3>2, <3>3, Cleaning
      <3>5. windows' = clean /\ granted' = granted
        BY <1>7, <3>1, <3>2
      <3> QED
        BY <3>4, <3>5
    <2>2. Cardinality(DOMAIN windows') <= MaxScopes
      BY <1>2, <1>4, <1>7, <2>1
    <2>3. ASSUME acq' \in [Requests -> Acquire], TriesInv'
          PROVE  LimiterInv'
      BY <1>2, <1>3, <1>7, <2>1, <2>2, <2>3, LimiterInvAfter
    <2>4. CASE acq' = Ended(r, "refused")
      <3>1. /\ acq' \in [Requests -> Acquire] /\ TriesInv' /\ acq'[r].pc = "refused"
            /\ \A q \in Requests \ {r} : acq'[q] = acq[q]
        BY <2>4, EndStep
      <3> QED
        BY <2>3, <3>1
    <2>5. CASE /\ acq' = Ended(r, "timed_out")
               /\ acq[r].deadline - now <= 0 \/ wait > acq[r].deadline - now
      <3>1. /\ acq' \in [Requests -> Acquire] /\ TriesInv'
            /\ \A q \in Requests \ {r} : acq'[q] = acq[q]
        BY <2>5, EndStep
      <3>2. Justified(r)
        BY <1>1, <1>7, <2>5, RefusalIsJustified
      <3> QED
        BY <2>3, <3>1, <3>2
    <2>6. CASE /\ acq' = [acq EXCEPT ![r].wake = now + Min({wait, acq[r].deadline - now, 1})]
               /\ ~(acq[r].deadline - now <= 0) /\ ~(wait > acq[r].deadline - now)
      <3>1. PICK u : u = now + Min({wait, acq[r].deadline - now, 1})
        OBVIOUS
      <3>2. u \in Nat
        <4>1. acq[r].deadline \in Nat
          BY DEF LimiterInv, LimiterTypeOK, Acquire
        <4>2. PICK left : left = acq[r].deadline - now
          OBVIOUS
        <4>3. left \in Nat
          BY <1>2, <2>6, <4>1, <4>2
        <4>4. {wait, left, 1} \in SUBSET Nat /\ {wait, left, 1} # {}
          BY <1>1, <4>3
        <4>5. Min({wait, left, 1}) \in Nat
          BY <4>4, MinOfNats
        <4> QED
          BY <1>2, <3>1, <4>2, <4>5
      <3>3. /\ acq' \in [Requests -> Acquire] /\ TriesInv' /\ acq'[r].pc = "trying"
            /\ \A q \in Requests \ {r} : acq'[q] = acq[q]
        BY <1>1, <2>6, <3>1, <3>2, SleepStep
      <3> QED
        BY <2>3, <3>3
    <2> QED
      BY <1>7, <2>4, <2>5, <2>6
  <1> QED
    BY <1>1, <1>5, <1>6, <1>7 DEF Turn

(***************************************************************************)
(* RateLimiter: the theorems                                               *)
(***************************************************************************)

LEMMA LimiterStarts ==
  LimiterInit => LimiterInv
  <1> SUFFICES ASSUME LimiterInit PROVE LimiterInv
    OBVIOUS
  <1>1. /\ now = 0 /\ 0 \in 0..MaxTime /\ DOMAIN windows = {}
        /\ acq = [r \in Requests |-> NotCalled]
        /\ granted = [s \in QuotaScopes |-> <<>>] /\ MaxScopes \in Nat
    BY LimiterAssumption DEF LimiterInit
  <1>2. IsFiniteSet({}) /\ Cardinality({}) = 0
    BY FS_EmptySet
  <1>3. <<>> \in Seq(Event) /\ DOMAIN <<>> = {}
    BY EmptySeq
  <1>4. NotCalled \in Acquire /\ NotCalled.pc = "idle"
    BY DEF NotCalled, Acquire
  <1>5. granted \in [QuotaScopes -> Seq(Event)] /\ \A s \in QuotaScopes : DOMAIN granted[s] = {}
    BY <1>1, <1>3
  <1>6. TableInv(windows, granted, now)
    BY <1>1, <1>2, <1>5 DEF TableInv, AllExpired
  <1>7. HistoryInv(granted, now)
    BY <1>5 DEF HistoryInv, InTime
  <1>8. BlocksInv(granted)
    BY <1>5 DEF BlocksInv, BlocksFit
  <1>9. acq \in [Requests -> Acquire] /\ TriesInv
    BY <1>1, <1>4 DEF TriesInv
  <1>10. LimiterTypeOK
    BY <1>1, <1>2, <1>5, <1>9 DEF LimiterTypeOK
  <1> QED
    BY <1>6, <1>7, <1>8, <1>9, <1>10 DEF LimiterInv

\* Every step keeps the invariant, and a call it ends by its timeout has a reason.
LEMMA LimiterStep ==
  ASSUME LimiterInv, [LimiterNext]_limiterVars
  PROVE  /\ LimiterInv'
         /\ \A r \in Requests :
              (acq[r].pc # "timed_out" /\ acq'[r].pc = "timed_out") => Justified(r)
  <1>1. ASSUME NEW r \in Requests, NEW s \in QuotaScopes, NEW n \in TokenCosts,
               NEW d \in Timeouts, NEW b \in BOOLEAN, Call(r, s, n, d, b)
        PROVE  LimiterInv' /\ \A q \in Requests :
                 ~(acq[q].pc # "timed_out" /\ acq'[q].pc = "timed_out")
    BY <1>1, CallStep
  <1>2. ASSUME NEW r \in Requests, Attempt(r)
        PROVE  LimiterInv' /\ \A q \in Requests :
                 (acq[q].pc # "timed_out" /\ acq'[q].pc = "timed_out") => Justified(q)
    BY <1>2, AttemptStep
  <1>3. CASE Tick
    BY <1>3, TickStep DEF Tick
  <1>4. CASE UNCHANGED limiterVars
    BY <1>4 DEF limiterVars, LimiterInv, LimiterTypeOK, TableInv, HistoryInv, BlocksInv, TriesInv
  <1> QED
    BY <1>1, <1>2, <1>3, <1>4 DEF LimiterNext

\* The inductive invariant: the windows of a scope are what is left of its history,
\* no block of the history breaks the limits, and only calls that fit are tried.
THEOREM WindowsFollowHistory ==
  LimiterSpec => []LimiterInv
  <1>1. LimiterInit => LimiterInv
    BY LimiterStarts
  <1>2. LimiterInv /\ [LimiterNext]_limiterVars => LimiterInv'
    BY LimiterStep
  <1> QED
    BY <1>1, <1>2, PTL DEF LimiterSpec

\* The windows stay within the table and the request limit (limiter.py).
THEOREM LimiterTypes ==
  LimiterSpec => []LimiterTypeOK
  <1>1. LimiterInv => LimiterTypeOK
    BY DEF LimiterInv
  <1> QED
    BY <1>1, WindowsFollowHistory, PTL

\* Over everything ever granted, no window of time holds more of a scope's
\* requests or tokens than its limits (DualWindowRateLimiter.acquire).
THEOREM LimitsAreKept ==
  LimiterSpec => []LimitsHold
  <1>1. ASSUME LimiterInv
        PROVE  LimitsHold
    <2> SUFFICES ASSUME NEW s \in QuotaScopes, NEW t \in 0..now
                 PROVE  LET inWindow == {i \in DOMAIN granted[s] :
                              t - Window < granted[s][i].at /\ granted[s][i].at <= t}
                        IN  /\ Cardinality(inWindow) <= MaxRpm
                            /\ SumOf(TokensOf(granted[s]), inWindow) <= MaxTpm
      BY DEF LimitsHold
    <2>1. PICK g : g = granted[s]
      OBVIOUS
    <2>2. g \in Seq(Event) /\ InTime(g) /\ BlocksFit(g)
      BY <1>1, <2>1 DEF LimiterInv, HistoryInv, BlocksInv
    <2>3. /\ Len(g) \in Nat /\ DOMAIN g = 1..Len(g) /\ \A i \in DOMAIN g : g[i].at \in Nat
          /\ Window \in Nat
      BY <2>2, EventSeq
    <2>4. t \in Int /\ MaxRpm \in Nat /\ MaxTpm \in Nat
      BY LimiterAssumption
    <2> DEFINE W == {i \in DOMAIN g : t - Window < g[i].at /\ g[i].at <= t}
    <2>5. Cardinality(W) <= MaxRpm /\ Total(TokensOf(g), W) <= MaxTpm
      <3>1. CASE W = {}
        <4>1. Cardinality(W) = 0 /\ Total(TokensOf(g), W) = 0
          <5>1. Cardinality({}) = 0 /\ Total(TokensOf(g), {}) = 0
            BY FS_EmptySet, TotalOfNothing
          <5> QED
            BY <3>1, <5>1
        <4> QED
          BY <2>4, <4>1
      <3>2. CASE W # {}
        <4>1. W \in SUBSET (0..Len(g))
          BY <2>3
        <4>2. \A i \in W : i \in DOMAIN g /\ t - Window < g[i].at /\ g[i].at <= t
          OBVIOUS
        <4> HIDE DEF W
        <4>3. PICK hi \in W : \A i \in W : i <= hi
          BY <2>3, <3>2, <4>1, MaxOfNats
        <4> DEFINE B == Block(g, hi)
        <4>4. W \subseteq B
          <5> SUFFICES ASSUME NEW i \in W PROVE i \in B
            OBVIOUS
          <5>1. /\ g[i].at \in Nat /\ g[hi].at \in Nat
                /\ t - Window < g[i].at /\ g[hi].at <= t /\ i <= hi /\ i \in 1..Len(g)
            BY <2>3, <4>2, <4>3
          <5>2. g[i].at > g[hi].at - Window
            BY <2>3, <2>4, <5>1
          <5>3. hi \in 1..Len(g)
            BY <2>3, <4>2
          <5>4. i \in 1..hi
            BY <2>3, <5>1, <5>3
          <5> QED
            BY <5>2, <5>4 DEF Block
        <4>5. Cardinality(B) <= MaxRpm /\ Total(TokensOf(g), B) <= MaxTpm
          BY <2>2, <4>2 DEF BlocksFit
        <4>6. IsFiniteSet(B) /\ \A i \in B : TokensOf(g)[i] \in Nat
          <5>1. hi \in 1..Len(g)
            BY <2>3, <4>2
          <5>2. IsFiniteSet(1..hi) /\ B \subseteq 1..hi
            BY <2>3, <5>1, FS_Interval DEF Block
          <5>3. \A i \in B : i \in DOMAIN g
            BY <2>3, <5>1, <5>2
          <5> QED
            BY <2>2, <5>2, <5>3, CostsType, FS_Subset
        <4> HIDE DEF B
        <4>7. IsFiniteSet(W) /\ Cardinality(W) <= Cardinality(B)
          BY <4>4, <4>6, FS_Subset
        <4>8. Total(TokensOf(g), W) <= Total(TokensOf(g), B)
          BY <4>4, <4>6, TotalOfFewer
        <4>9. /\ Cardinality(W) \in Nat /\ Cardinality(B) \in Nat
              /\ Total(TokensOf(g), W) \in Nat /\ Total(TokensOf(g), B) \in Nat
          BY <4>4, <4>6, <4>7, FS_CardinalityType, TotalType
        <4> QED
          BY <2>4, <4>5, <4>7, <4>8, <4>9
      <3> QED
        BY <3>1, <3>2
    <2>6. SumOf(TokensOf(g), W) = Total(TokensOf(g), W)
      BY SumOfIsTotal
    <2> QED
      BY <2>1, <2>5, <2>6
  <1> QED
    BY <1>1, WindowsFollowHistory, PTL

\* A blocking call that gives up could not have been granted by its deadline
\* (time_until_available and the loop of acquire).
THEOREM RefusalsHaveReasons ==
  LimiterSpec => RefusalsAreJustified
  <1>1. ASSUME LimiterInv, [LimiterNext]_limiterVars
        PROVE  [\A r \in Requests :
                  (acq[r].pc # "timed_out" /\ acq'[r].pc = "timed_out")
                    => \A t \in now..acq[r].deadline :
                         ~Room(Live(granted[acq[r].scope], t), acq[r].tokens)]_limiterVars
    BY <1>1, LimiterStep DEF Justified
  <1> QED
    BY <1>1, WindowsFollowHistory, PTL DEF RefusalsAreJustified, LimiterSpec

(***************************************************************************)
(* ThinkingFilter: pieces of text                                          *)
(***************************************************************************)

Texts == Seq(Symbols)

\* u is s and then t.
IsJoin(u, s, t) ==
  /\ u \in Texts /\ Len(u) = Len(s) + Len(t)
  /\ \A i \in 1..Len(s) : u[i] = s[i]
  /\ \A i \in 1..Len(t) : u[Len(s) + i] = t[i]

\* u is the n symbols of s behind the first k.
IsPart(u, s, k, n) ==
  u \in Texts /\ Len(u) = n /\ \A i \in 1..n : u[i] = s[k + i]

Beginning(s, k) == SubSeq(s, 1, k)

LEMMA TextSeq ==
  ASSUME NEW s \in Texts
  PROVE  /\ Len(s) \in Nat /\ DOMAIN s = 1..Len(s)
         /\ \A i \in 1..Len(s) : s[i] \in Symbols
  BY LenProperties, ElementOfSeq DEF Texts

LEMMA Joined ==
  ASSUME NEW s \in Texts, NEW t \in Texts
  PROVE  IsJoin(s \o t, s, t)
  <1>1. Len(s) \in Nat /\ Len(t) \in Nat
    BY TextSeq
  <1> DEFINE u == s \o t
  <1>2. /\ u \in Texts /\ Len(u) = Len(s) + Len(t)
        /\ \A i \in 1..(Len(s) + Len(t)) : u[i] = IF i <= Len(s) THEN s[i] ELSE t[i - Len(s)]
    BY ConcatProperties DEF Texts
  <1> HIDE DEF u
  <1>3. \A i \in 1..Len(s) : i \in 1..(Len(s) + Len(t)) /\ i <= Len(s)
    BY <1>1
  <1>4. \A i \in 1..Len(t) : /\ Len(s) + i \in 1..(Len(s) + Len(t)) /\ ~(Len(s) + i <= Len(s))
                             /\ (Len(s) + i) - Len(s) = i
    BY <1>1
  <1>5. IsJoin(u, s, t)
    BY <1>2, <1>3, <1>4 DEF IsJoin
  <1> QED
    BY <1>5 DEF u

LEMMA PartOfText ==
  ASSUME NEW s \in Texts, NEW k \in 0..Len(s), NEW b \in k..Len(s)
  PROVE  IsPart(SubSeq(s, k + 1, b), s, k, b - k)
  <1>1. Len(s) \in Nat /\ k + 1 \in Int /\ b \in Int /\ k <= b
    BY TextSeq
  <1>2. \A i \in (k + 1)..b : s[i] \in Symbols
    <2>1. \A i \in (k + 1)..b : i \in 1..Len(s)
      BY <1>1
    <2> QED
      BY <2>1, TextSeq
  <1> DEFINE u == SubSeq(s, k + 1, b)
  <1>3. /\ u \in Texts /\ Len(u) = IF k + 1 <= b THEN b - (k + 1) + 1 ELSE 0
        /\ \A i \in 1..(b - (k + 1) + 1) : u[i] = s[(k + 1) + i - 1]
    BY <1>1, <1>2, SubSeqProperties DEF Texts
  <1> HIDE DEF u
  <1>4. Len(u) = b - k
    BY <1>1, <1>3
  <1>5. \A i \in 1..(b - k) : i \in 1..(b - (k + 1) + 1) /\ (k + 1) + i - 1 = k + i
    BY <1>1
  <1>6. IsPart(u, s, k, b - k)
    BY <1>3, <1>4, <1>5 DEF IsPart
  <1> QED
    BY <1>6 DEF u

LEMMA Dropped ==
  ASSUME NEW s \in Texts, NEW k \in 0..Len(s)
  PROVE  IsPart(Drop(s, k), s, k, Len(s) - k)
  <1>1. Len(s) \in k..Len(s)
    BY TextSeq
  <1> QED
    BY <1>1, PartOfText DEF Drop

LEMMA Beginnings ==
  ASSUME NEW s \in Texts, NEW k \in 0..Len(s)
  PROVE  IsPart(Beginning(s, k), s, 0, k)
  <1>1. 0 \in 0..Len(s) /\ 0 + 1 = 1 /\ k - 0 = k
    BY TextSeq
  <1>2. IsPart(SubSeq(s, 0 + 1, k), s, 0, k - 0)
    BY <1>1, PartOfText
  <1> QED
    BY <1>1, <1>2 DEF Beginning

LEMMA Equal ==
  ASSUME NEW s \in Texts, NEW t \in Texts, Len(s) = Len(t), \A i \in 1..Len(s) : s[i] = t[i]
  PROVE  s = t
  BY SeqEqual DEF Texts

\* Two parts of the same length that agree.
Agree(s, k, t, j, n) == \A i \in 1..n : s[k + i] = t[j + i]

LEMMA EqualParts ==
  ASSUME NEW u, NEW s, NEW k, NEW n, IsPart(u, s, k, n),
         NEW v, NEW t, NEW j, IsPart(v, t, j, n), Agree(s, k, t, j, n)
  PROVE  u = v
  BY Equal DEF IsPart, Agree

\* A beginning and the rest make the whole.
LEMMA BeginningAndRest ==
  ASSUME NEW s \in Texts, NEW k \in 0..Len(s)
  PROVE  Beginning(s, k) \o Drop(s, k) = s
  <1>1. PICK u : u = Beginning(s, k)
    OBVIOUS
  <1>2. PICK v : v = Drop(s, k)
    OBVIOUS
  <1>3. PICK w : w = u \o v
    OBVIOUS
  <1>4. Len(s) \in Nat /\ IsPart(u, s, 0, k) /\ IsPart(v, s, k, Len(s) - k)
    BY <1>1, <1>2, TextSeq, Beginnings, Dropped
  <1>5. u \in Texts /\ v \in Texts /\ Len(u) = k /\ Len(v) = Len(s) - k
    BY <1>4 DEF IsPart
  <1>6. IsJoin(w, u, v)
    BY <1>3, <1>5, Joined
  <1>7. w \in Texts /\ Len(w) = Len(s)
    BY <1>4, <1>5, <1>6 DEF IsJoin
  <1>8. ASSUME NEW i \in 1..Len(w)
        PROVE  w[i] = s[i]
    <2>1. CASE i <= k
      <3>1. i \in 1..Len(u) /\ 0 + i = i
        BY <1>4, <1>5, <1>7, <2>1
      <3> QED
        BY <1>4, <1>5, <1>6, <3>1 DEF IsPart, IsJoin
    <2>2. CASE ~(i <= k)
      <3>1. PICK j : j = i - k
        OBVIOUS
      <3>2. j \in 1..Len(v) /\ k + j = i
        BY <1>4, <1>5, <1>7, <2>2, <3>1
      <3> QED
        BY <1>4, <1>5, <1>6, <3>2 DEF IsPart, IsJoin
    <2> QED
      BY <2>1, <2>2
  <1> QED
    BY <1>1, <1>2, <1>3, <1>7, <1>8, Equal

\* A beginning of the first of two texts is one of both together.
LEMMA BeginningOfFirst ==
  ASSUME NEW s \in Texts, NEW t \in Texts, NEW k \in 0..Len(s)
  PROVE  Beginning(s \o t, k) = Beginning(s, k)
  <1>1. PICK u : u = s \o t
    OBVIOUS
  <1>2. Len(s) \in Nat /\ Len(t) \in Nat
    BY TextSeq
  <1>3. IsJoin(u, s, t)
    BY <1>1, Joined
  <1>4. u \in Texts /\ k \in 0..Len(u)
    BY <1>2, <1>3 DEF IsJoin
  <1>5. Agree(u, 0, s, 0, k)
    <2>1. \A i \in 1..k : i \in 1..Len(s) /\ 0 + i = i
      BY <1>2
    <2> QED
      BY <1>3, <2>1 DEF IsJoin, Agree
  <1>6. IsPart(Beginning(u, k), u, 0, k) /\ IsPart(Beginning(s, k), s, 0, k)
    BY <1>4, Beginnings
  <1> QED
    BY <1>1, <1>4, <1>5, <1>6, EqualParts

\* What is left of both when a beginning of the first is taken off.
LEMMA DropOfFirst ==
  ASSUME NEW s \in Texts, NEW t \in Texts, NEW k \in 0..Len(s)
  PROVE  Drop(s \o t, k) = Drop(s, k) \o t
  <1>1. PICK u : u = s \o t
    OBVIOUS
  <1>2. Len(s) \in Nat /\ Len(t) \in Nat
    BY TextSeq
  <1>3. IsJoin(u, s, t)
    BY <1>1, Joined
  <1>4. u \in Texts /\ k \in 0..Len(u) /\ Len(u) = Len(s) + Len(t)
    BY <1>2, <1>3 DEF IsJoin
  <1>5. PICK l : l = Drop(u, k)
    OBVIOUS
  <1>6. PICK d : d = Drop(s, k)
    OBVIOUS
  <1>7. PICK r : r = d \o t
    OBVIOUS
  <1>8. IsPart(l, u, k, Len(u) - k) /\ IsPart(d, s, k, Len(s) - k)
    BY <1>4, <1>5, <1>6, Dropped
  <1>9. l \in Texts /\ Len(l) = Len(u) - k /\ d \in Texts /\ Len(d) = Len(s) - k
    BY <1>8 DEF IsPart
  <1>10. IsJoin(r, d, t)
    BY <1>7, <1>9, Joined
  <1>11. r \in Texts /\ Len(l) = Len(r)
    BY <1>2, <1>4, <1>9, <1>10 DEF IsJoin
  <1>12. ASSUME NEW i \in 1..Len(l)
         PROVE  l[i] = r[i]
    <2>1. l[i] = u[k + i]
      BY <1>8, <1>9 DEF IsPart
    <2>2. CASE i <= Len(s) - k
      <3>1. i \in 1..Len(d) /\ k + i \in 1..Len(s)
        BY <1>2, <1>9, <2>2
      <3>2. r[i] = d[i] /\ u[k + i] = s[k + i]
        BY <1>3, <1>10, <3>1 DEF IsJoin
      <3>3. d[i] = s[k + i]
        BY <1>8, <1>9, <3>1 DEF IsPart
      <3> QED
        BY <2>1, <3>2, <3>3
    <2>3. CASE ~(i <= Len(s) - k)
      <3>1. PICK j : j = i - (Len(s) - k)
        OBVIOUS
      <3>2. j \in 1..Len(t) /\ Len(d) + j = i /\ Len(s) + j = k + i
        BY <1>2, <1>4, <1>9, <2>3, <3>1
      <3>3. u[Len(s) + j] = t[j] /\ r[Len(d) + j] = t[j]
        BY <1>3, <1>10, <3>2 DEF IsJoin
      <3> QED
        BY <2>1, <3>2, <3>3
    <2> QED
      BY <2>2, <2>3
  <1> QED
    BY <1>1, <1>5, <1>6, <1>7, <1>9, <1>11, <1>12, Equal

\* A beginning that goes beyond the first.
LEMMA BeginningOfSecond ==
  ASSUME NEW s \in Texts, NEW t \in Texts, NEW k \in 0..Len(t), NEW n, n = Len(s) + k
  PROVE  Beginning(s \o t, n) = s \o Beginning(t, k)
  <1>1. PICK u : u = s \o t
    OBVIOUS
  <1>2. Len(s) \in Nat /\ Len(t) \in Nat
    BY TextSeq
  <1>3. IsJoin(u, s, t)
    BY <1>1, Joined
  <1>4. u \in Texts /\ n \in 0..Len(u) /\ n \in Nat
    BY <1>2, <1>3 DEF IsJoin
  <1>5. PICK l : l = Beginning(u, n)
    OBVIOUS
  <1>6. PICK f : f = Beginning(t, k)
    OBVIOUS
  <1>7. PICK r : r = s \o f
    OBVIOUS
  <1>8. IsPart(l, u, 0, n) /\ IsPart(f, t, 0, k)
    BY <1>4, <1>5, <1>6, Beginnings
  <1>9. l \in Texts /\ Len(l) = n /\ f \in Texts /\ Len(f) = k
    BY <1>8 DEF IsPart
  <1>10. IsJoin(r, s, f)
    BY <1>7, <1>9, Joined
  <1>11. r \in Texts /\ Len(l) = Len(r)
    BY <1>9, <1>10 DEF IsJoin
  <1>12. ASSUME NEW i \in 1..Len(l)
         PROVE  l[i] = r[i]
    <2>1. l[i] = u[i]
      <3>1. 0 + i = i
        BY <1>4, <1>9
      <3> QED
        BY <1>8, <1>9, <3>1 DEF IsPart
    <2>2. CASE i <= Len(s)
      <3>1. i \in 1..Len(s)
        BY <1>2, <1>4, <1>9, <2>2
      <3> QED
        BY <1>3, <1>10, <2>1, <3>1 DEF IsJoin
    <2>3. CASE ~(i <= Len(s))
      <3>1. PICK j : j = i - Len(s)
        OBVIOUS
      <3>2. j \in 1..k /\ j \in 1..Len(t) /\ Len(s) + j = i /\ 0 + j = j
        BY <1>2, <1>4, <1>9, <2>3, <3>1
      <3>3. u[Len(s) + j] = t[j] /\ r[Len(s) + j] = f[j]
        BY <1>3, <1>9, <1>10, <3>2 DEF IsJoin
      <3>4. f[j] = t[j]
        BY <1>8, <3>2 DEF IsPart
      <3> QED
        BY <2>1, <3>2, <3>3, <3>4
    <2> QED
      BY <2>2, <2>3
  <1> QED
    BY <1>1, <1>5, <1>6, <1>7, <1>9, <1>11, <1>12, Equal

\* What is left when the first goes, and a beginning of the second.
LEMMA DropOfSecond ==
  ASSUME NEW s \in Texts, NEW t \in Texts, NEW k \in 0..Len(t), NEW n, n = Len(s) + k
  PROVE  Drop(s \o t, n) = Drop(t, k)
  <1>1. PICK u : u = s \o t
    OBVIOUS
  <1>2. Len(s) \in Nat /\ Len(t) \in Nat
    BY TextSeq
  <1>3. IsJoin(u, s, t)
    BY <1>1, Joined
  <1>4. u \in Texts /\ n \in 0..Len(u) /\ Len(u) - n = Len(t) - k
    BY <1>2, <1>3 DEF IsJoin
  <1>5. Agree(u, n, t, k, Len(t) - k)
    <2>1. \A i \in 1..(Len(t) - k) : k + i \in 1..Len(t) /\ n + i = Len(s) + (k + i)
      BY <1>2
    <2> QED
      BY <1>3, <2>1 DEF IsJoin, Agree
  <1>6. IsPart(Drop(u, n), u, n, Len(u) - n) /\ IsPart(Drop(t, k), t, k, Len(t) - k)
    BY <1>4, Dropped
  <1> QED
    BY <1>1, <1>4, <1>5, <1>6, EqualParts

(***************************************************************************)
(* ThinkingFilter: where a marker occurs                                   *)
(***************************************************************************)

\* m stands in s behind the first k symbols.
Occurs(s, m, k) == k + Len(m) <= Len(s) /\ \A j \in 1..Len(m) : s[k + j] = m[j]

\* f is 0 and m does not occur, or f is its first place.
Found(s, m, f) ==
  \/ f = 0 /\ \A k \in Nat : ~Occurs(s, m, k)
  \/ \E p \in Nat : f = p + 1 /\ Occurs(s, m, p) /\ \A k \in Nat : Occurs(s, m, k) => p <= k

LEMMA MarkerType ==
  ASSUME NEW b \in BOOLEAN
  PROVE  Marker(b) \in Texts /\ Len(Marker(b)) \in Nat \ {0}
  <1>1. \A s \in Texts : s # <<>> => Len(s) \in Nat \ {0}
    BY EmptySeq DEF Texts
  <1>2. Opening \in Texts /\ Closing \in Texts /\ Opening # <<>> /\ Closing # <<>>
    BY FilterAssumption DEF Texts
  <1> QED
    BY <1>1, <1>2 DEF Marker

\* str.find finds the first place.
LEMMA FindFinds ==
  ASSUME NEW s \in Texts, NEW m \in Texts, Len(m) # 0
  PROVE  Found(s, m, Find(s, m))
  <1> DEFINE at == {i \in 1..(Len(s) + 1 - Len(m)) : SubSeq(s, i, i + Len(m) - 1) = m}
  <1>1. Len(s) \in Nat /\ Len(m) \in Nat
    BY TextSeq
  <1>2. ASSUME NEW k \in Nat
        PROVE  k + 1 \in at <=> Occurs(s, m, k)
    <2>1. CASE k + Len(m) <= Len(s)
      <3>1. PICK b : b = k + Len(m)
        OBVIOUS
      <3>2. k \in 0..Len(s) /\ b \in k..Len(s) /\ b - k = Len(m) /\ (k + 1) + Len(m) - 1 = b
        BY <1>1, <2>1, <3>1
      <3>3. PICK u : u = SubSeq(s, k + 1, b)
        OBVIOUS
      <3>4. IsPart(u, s, k, Len(m))
        BY <3>2, <3>3, PartOfText
      <3>5. u = m <=> \A j \in 1..Len(m) : s[k + j] = m[j]
        <4>1. /\ u \in Texts /\ Len(u) = Len(m)
              /\ \A j \in 1..Len(m) : u[j] = s[k + j]
          BY <3>4 DEF IsPart
        <4> QED
          BY <4>1, Equal
      <3>6. k + 1 \in 1..(Len(s) + 1 - Len(m))
        BY <1>1, <2>1
      <3> QED
        BY <2>1, <3>2, <3>3, <3>5, <3>6 DEF Occurs
    <2>2. CASE ~(k + Len(m) <= Len(s))
      <3>1. k + 1 \notin 1..(Len(s) + 1 - Len(m))
        BY <1>1, <2>2
      <3> QED
        BY <2>2, <3>1 DEF Occurs
    <2> QED
      BY <2>1, <2>2
  <1>3. at \in SUBSET Nat /\ \A i \in at : \E k \in Nat : i = k + 1
    <2>1. \A i \in at : i \in Nat /\ i >= 1
      BY <1>1
    <2>2. \A i \in Nat : i >= 1 => i - 1 \in Nat /\ i = (i - 1) + 1
      OBVIOUS
    <2> HIDE DEF at
    <2> QED
      BY <2>1, <2>2
  <1>4. Find(s, m) = IF at = {} THEN 0 ELSE Min(at)
    BY DEF Find
  <1> HIDE DEF at
  <1>5. CASE at = {}
    BY <1>2, <1>4, <1>5 DEF Found
  <1>6. CASE at # {}
    <2>1. PICK f : f = Min(at)
      OBVIOUS
    <2>2. f \in at /\ \A i \in at : f <= i
      BY <1>3, <1>6, <2>1, MinOfNats
    <2>3. PICK p \in Nat : f = p + 1
      BY <1>3, <2>2
    <2>4. Occurs(s, m, p)
      BY <1>2, <2>2, <2>3
    <2>5. \A k \in Nat : Occurs(s, m, k) => p <= k
      <3> SUFFICES ASSUME NEW k \in Nat, Occurs(s, m, k) PROVE p <= k
        OBVIOUS
      <3>1. p + 1 <= k + 1
        BY <1>2, <2>2, <2>3
      <3> QED
        BY <3>1
    <2>6. Found(s, m, f)
      BY <2>3, <2>4, <2>5 DEF Found
    <2> QED
      BY <1>4, <1>6, <2>1, <2>6
  <1> QED
    BY <1>5, <1>6

\* There is one first place at most.
LEMMA FoundOnce ==
  ASSUME NEW s, NEW m, NEW f, NEW g, Found(s, m, f), Found(s, m, g)
  PROVE  f = g
  <1>1. CASE f = 0 /\ \A k \in Nat : ~Occurs(s, m, k)
    BY <1>1 DEF Found
  <1>2. ASSUME NEW p \in Nat, f = p + 1, Occurs(s, m, p),
               \A k \in Nat : Occurs(s, m, k) => p <= k
        PROVE  f = g
    <2>1. PICK q \in Nat : /\ g = q + 1 /\ Occurs(s, m, q)
                           /\ \A k \in Nat : Occurs(s, m, k) => q <= k
      BY <1>2 DEF Found
    <2>2. p <= q /\ q <= p
      BY <1>2, <2>1
    <2> QED
      BY <1>2, <2>1, <2>2
  <1> QED
    BY <1>1, <1>2 DEF Found

\* A place within the first of two texts.
LEMMA OccursInFirst ==
  ASSUME NEW s \in Texts, NEW t \in Texts, NEW m \in Texts,
         NEW k \in Nat, k + Len(m) <= Len(s)
  PROVE  Occurs(s \o t, m, k) <=> Occurs(s, m, k)
  <1>1. PICK u : u = s \o t
    OBVIOUS
  <1>2. IsJoin(u, s, t)
    BY <1>1, Joined
  <1>3. Len(s) \in Nat /\ Len(t) \in Nat /\ Len(m) \in Nat /\ Len(u) = Len(s) + Len(t)
    BY <1>2, TextSeq DEF IsJoin
  <1>4. k + Len(m) <= Len(u) /\ \A j \in 1..Len(m) : k + j \in 1..Len(s)
    BY <1>3
  <1>5. \A j \in 1..Len(m) : u[k + j] = s[k + j]
    BY <1>2, <1>4 DEF IsJoin
  <1>6. Occurs(u, m, k) <=> Occurs(s, m, k)
    BY <1>4, <1>5 DEF Occurs
  <1> QED
    BY <1>1, <1>6

\* A place in the second.
LEMMA OccursInSecond ==
  ASSUME NEW s \in Texts, NEW t \in Texts, NEW m \in Texts, NEW k \in Nat,
         NEW n, n = Len(s) + k
  PROVE  Occurs(s \o t, m, n) <=> Occurs(t, m, k)
  <1>1. PICK u : u = s \o t
    OBVIOUS
  <1>2. IsJoin(u, s, t)
    BY <1>1, Joined
  <1>3. Len(s) \in Nat /\ Len(t) \in Nat /\ Len(m) \in Nat /\ Len(u) = Len(s) + Len(t)
    BY <1>2, TextSeq DEF IsJoin
  <1>4. n + Len(m) <= Len(u) <=> k + Len(m) <= Len(t)
    BY <1>3
  <1>5. ASSUME k + Len(m) <= Len(t), NEW j \in 1..Len(m)
        PROVE  u[n + j] = t[k + j]
    <2>1. k + j \in 1..Len(t) /\ n + j = Len(s) + (k + j)
      BY <1>3, <1>5
    <2> QED
      BY <1>2, <2>1 DEF IsJoin
  <1>6. Occurs(u, m, n) <=> Occurs(t, m, k)
    BY <1>4, <1>5 DEF Occurs
  <1> QED
    BY <1>1, <1>6

\* More text does not change where a marker is found first.
LEMMA FoundInFirst ==
  ASSUME NEW s \in Texts, NEW t \in Texts, NEW m \in Texts, NEW f, f # 0, Found(s, m, f)
  PROVE  Found(s \o t, m, f)
  <1>1. PICK p \in Nat : /\ f = p + 1 /\ Occurs(s, m, p)
                         /\ \A k \in Nat : Occurs(s, m, k) => p <= k
    BY DEF Found
  <1>2. p + Len(m) <= Len(s) /\ Len(m) \in Nat /\ Len(s) \in Nat
    BY <1>1, TextSeq DEF Occurs
  <1>3. Occurs(s \o t, m, p)
    BY <1>1, <1>2, OccursInFirst
  <1>4. ASSUME NEW k \in Nat, Occurs(s \o t, m, k)
        PROVE  p <= k
    <2>1. CASE p <= k
      BY <2>1
    <2>2. CASE ~(p <= k)
      <3>1. k + Len(m) <= Len(s)
        BY <1>2, <2>2
      <3> QED
        BY <1>1, <1>4, <3>1, OccursInFirst
    <2> QED
      BY <2>1, <2>2
  <1> QED
    BY <1>1, <1>3, <1>4 DEF Found

\* If no marker begins in the first text, the first one of the second counts.
LEMMA FoundInSecond ==
  ASSUME NEW s \in Texts, NEW t \in Texts, NEW m \in Texts,
         \A k \in Nat : k < Len(s) => ~Occurs(s \o t, m, k), NEW f, Found(t, m, f)
  PROVE  Found(s \o t, m, IF f = 0 THEN 0 ELSE Len(s) + f)
  <1>1. Len(s) \in Nat
    BY TextSeq
  <1>2. ASSUME NEW n \in Nat, Occurs(s \o t, m, n)
        PROVE  \E k \in Nat : n = Len(s) + k /\ Occurs(t, m, k)
    <2>1. ~(n < Len(s))
      BY <1>2
    <2>2. PICK k : k = n - Len(s)
      OBVIOUS
    <2>3. k \in Nat /\ n = Len(s) + k
      BY <1>1, <2>1, <2>2
    <2> QED
      BY <1>2, <2>3, OccursInSecond
  <1>3. CASE f = 0 /\ \A k \in Nat : ~Occurs(t, m, k)
    BY <1>2, <1>3 DEF Found
  <1>4. ASSUME NEW p \in Nat, f = p + 1, Occurs(t, m, p),
               \A k \in Nat : Occurs(t, m, k) => p <= k
        PROVE  Found(s \o t, m, IF f = 0 THEN 0 ELSE Len(s) + f)
    <2>1. PICK n : n = Len(s) + p
      OBVIOUS
    <2>2. n \in Nat /\ f # 0 /\ Len(s) + f = n + 1
      BY <1>1, <1>4, <2>1
    <2>3. Occurs(s \o t, m, n)
      BY <1>4, <2>1, OccursInSecond
    <2>4. ASSUME NEW k \in Nat, Occurs(s \o t, m, k)
          PROVE  n <= k
      <3>1. PICK j \in Nat : k = Len(s) + j /\ Occurs(t, m, j)
        BY <1>2, <2>4
      <3>2. p <= j
        BY <1>4, <3>1
      <3> QED
        BY <1>1, <2>1, <3>1, <3>2
    <2> QED
      BY <2>2, <2>3, <2>4 DEF Found
  <1> QED
    BY <1>3, <1>4 DEF Found

(***************************************************************************)
(* ThinkingFilter: the reference                                           *)
(***************************************************************************)

\* What the definition of WithoutThinking makes of s, when f is used for the
\* rest of the text.
Cutting(f, s) ==
  LET i == Find(s, Opening)
      inside == Drop(s, i + Len(Opening) - 1)
      j == Find(inside, Closing)
  IN  IF i = 0 THEN s
      ELSE SubSeq(s, 1, i - 1)
             \o (IF j = 0 THEN <<>> ELSE f[Drop(inside, j + Len(Closing) - 1)])

\* f cuts texts of fewer than n symbols as it should.
Cuts(f, n) == \A s \in Texts : Len(s) < n => f[s] = Cutting(f, s)

\* What is behind a marker.
LEMMA BehindMarker ==
  ASSUME NEW s \in Texts, NEW b \in BOOLEAN, NEW m, m = Marker(b), NEW i, i = Find(s, m), i # 0
  PROVE  /\ i \in Nat /\ i - 1 \in 0..Len(s) /\ i + Len(m) - 1 \in 0..Len(s)
         /\ Drop(s, i + Len(m) - 1) \in Texts
         /\ Len(Drop(s, i + Len(m) - 1)) = Len(s) - (i + Len(m) - 1)
         /\ Len(Drop(s, i + Len(m) - 1)) < Len(s)
         /\ Beginning(s, i - 1) \in Texts
  <1>1. m \in Texts /\ Len(m) \in Nat \ {0} /\ Len(s) \in Nat
    BY MarkerType, TextSeq
  <1>2. Found(s, m, i)
    BY <1>1, FindFinds
  <1>3. PICK p \in Nat : i = p + 1 /\ p + Len(m) <= Len(s)
    BY <1>2 DEF Found, Occurs
  <1>4. PICK k : k = i + Len(m) - 1
    OBVIOUS
  <1>5. /\ i \in Nat /\ i - 1 \in 0..Len(s) /\ k \in 0..Len(s)
        /\ Len(s) - k < Len(s) /\ Len(s) - k = Len(s) - (i + Len(m) - 1)
    BY <1>1, <1>3, <1>4
  <1>6. Drop(s, k) \in Texts /\ Len(Drop(s, k)) = Len(s) - k
    BY <1>5, Dropped DEF IsPart
  <1>7. Beginning(s, i - 1) \in Texts
    BY <1>5, Beginnings DEF IsPart
  <1> QED
    BY <1>4, <1>5, <1>6, <1>7

\* The cut of a text depends on those of shorter ones only.
LEMMA CuttingIsLocal ==
  ASSUME NEW s \in Texts, NEW f, NEW g, \A r \in Texts : Len(r) < Len(s) => f[r] = g[r]
  PROVE  Cutting(f, s) = Cutting(g, s)
  <1>1. PICK i : i = Find(s, Opening)
    OBVIOUS
  <1>2. PICK inside : inside = Drop(s, i + Len(Opening) - 1)
    OBVIOUS
  <1>3. PICK j : j = Find(inside, Closing)
    OBVIOUS
  <1>4. PICK rest : rest = Drop(inside, j + Len(Closing) - 1)
    OBVIOUS
  <1>5. ASSUME NEW h
        PROVE  Cutting(h, s) = IF i = 0 THEN s
                               ELSE SubSeq(s, 1, i - 1) \o (IF j = 0 THEN <<>> ELSE h[rest])
    BY <1>1, <1>2, <1>3, <1>4 DEF Cutting
  <1>6. CASE i = 0 \/ j = 0
    BY <1>5, <1>6
  <1>7. CASE i # 0 /\ j # 0
    <2>1. inside \in Texts /\ Len(inside) < Len(s)
      <3>1. Opening = Marker(FALSE) /\ FALSE \in BOOLEAN
        BY DEF Marker
      <3> QED
        BY <1>1, <1>2, <1>7, <3>1, BehindMarker
    <2>2. rest \in Texts /\ Len(rest) < Len(inside)
      <3>1. Closing = Marker(TRUE) /\ TRUE \in BOOLEAN
        BY DEF Marker
      <3> QED
        BY <1>3, <1>4, <1>7, <2>1, <3>1, BehindMarker
    <2>3. Len(rest) < Len(s)
      <3>1. Len(rest) \in Nat /\ Len(inside) \in Nat /\ Len(s) \in Nat
        BY <2>1, <2>2, TextSeq
      <3> QED
        BY <2>1, <2>2, <3>1
    <2>4. f[rest] = g[rest]
      BY <2>2, <2>3
    <2> QED
      BY <1>5, <2>4
  <1> QED
    BY <1>6, <1>7

\* Two that cut as they should agree.
LEMMA CutsAgree ==
  ASSUME NEW f, NEW n \in Nat, Cuts(f, n), NEW g, NEW k \in Nat, Cuts(g, k),
         NEW s \in Texts, Len(s) < n, Len(s) < k
  PROVE  f[s] = g[s]
  <1> DEFINE B == {l \in Nat : \E r \in Texts : Len(r) = l /\ l < n /\ l < k /\ f[r] # g[r]}
  <1> SUFFICES ASSUME B # {}
               PROVE  FALSE
    BY TextSeq
  <1>1. PICK l : l = Min(B)
    OBVIOUS
  <1>2. l \in B /\ \A q \in B : l <= q
    BY <1>1, MinOfNats
  <1>3. PICK r \in Texts : l \in Nat /\ Len(r) = l /\ l < n /\ l < k /\ f[r] # g[r]
    BY <1>2
  <1>4. ASSUME NEW q \in Texts, Len(q) < Len(r)
        PROVE  f[q] = g[q]
    <2>1. Len(q) \in Nat
      BY TextSeq
    <2>2. Len(q) < n /\ Len(q) < k /\ ~(l <= Len(q))
      BY <1>3, <1>4, <2>1
    <2>3. Len(q) \notin B
      BY <1>2, <2>2
    <2> QED
      BY <2>1, <2>2, <2>3
  <1>5. Cutting(f, r) = Cutting(g, r)
    BY <1>4, CuttingIsLocal
  <1>6. f[r] = Cutting(f, r) /\ g[r] = Cutting(g, r)
    BY <1>3 DEF Cuts
  <1> QED
    BY <1>3, <1>5, <1>6

\* Some function cuts as it should, whatever the length.
LEMMA CutsExist ==
  ASSUME NEW n \in Nat
  PROVE  \E f : Cuts(f, n)
  <1> DEFINE B == {l \in Nat : ~\E f : Cuts(f, l)}
  <1> SUFFICES ASSUME B # {}
               PROVE  FALSE
    OBVIOUS
  <1>1. PICK l : l = Min(B)
    OBVIOUS
  <1>2. l \in B /\ \A q \in B : l <= q
    BY <1>1, MinOfNats
  <1>3. l \in Nat /\ ~\E f : Cuts(f, l)
    BY <1>2
  <1>4. l # 0
    <2>1. ASSUME NEW s \in Texts
          PROVE  ~(Len(s) < 0)
      BY TextSeq
    <2>2. \A f : Cuts(f, 0)
      BY <2>1 DEF Cuts
    <2> QED
      BY <1>3, <2>2
  <1>5. PICK p \in Nat : p + 1 = l
    <2>1. l - 1 \in Nat /\ (l - 1) + 1 = l
      BY <1>3, <1>4
    <2> QED
      BY <2>1
  <1>6. PICK f : Cuts(f, p)
    <2>1. ~(l <= p)
      BY <1>5
    <2>2. p \notin B
      BY <1>2, <2>1
    <2> QED
      BY <2>2
  <1> HIDE DEF B
  <1> DEFINE g == [s \in Texts |-> Cutting(f, s)]
  <1>7. \A s \in Texts : g[s] = Cutting(f, s)
    OBVIOUS
  <1> HIDE DEF g
  <1>8. ASSUME NEW s \in Texts, Len(s) < l
        PROVE  g[s] = Cutting(g, s)
    <2>1. ASSUME NEW r \in Texts, Len(r) < Len(s)
          PROVE  f[r] = g[r]
      <3>1. Len(r) < p
        <4>1. Len(r) \in Nat /\ Len(s) \in Nat
          BY TextSeq
        <4> QED
          BY <1>5, <1>8, <2>1, <4>1
      <3> QED
        BY <1>6, <1>7, <3>1 DEF Cuts
    <2>2. Cutting(f, s) = Cutting(g, s)
      BY <2>1, CuttingIsLocal
    <2> QED
      BY <1>7, <2>2
  <1>9. Cuts(g, l)
    BY <1>8 DEF Cuts
  <1> QED
    BY <1>3, <1>9

\* The reference is what its definition says.
LEMMA ReferenceUnfolds ==
  \A s \in Texts : WithoutThinking[s] = Cutting(WithoutThinking, s)
  <1> DEFINE Some(n) == CHOOSE f : Cuts(f, n)
             g == [s \in Texts |-> Cutting(Some(Len(s)), s)]
  <1>1. \A n \in Nat : Cuts(Some(n), n)
    BY CutsExist
  <1>2. \A s \in Texts : g[s] = Cutting(Some(Len(s)), s)
    OBVIOUS
  <1> HIDE DEF Some
  <1>3. ASSUME NEW s \in Texts
        PROVE  Cutting(Some(Len(s)), s) = Cutting(g, s)
    <2>1. PICK n : n = Len(s)
      OBVIOUS
    <2>2. n \in Nat /\ Cuts(Some(n), n)
      BY <1>1, <2>1, TextSeq
    <2>3. ASSUME NEW r \in Texts, Len(r) < n
          PROVE  Some(n)[r] = g[r]
      <3>1. PICK k : k = Len(r)
        OBVIOUS
      <3>2. k \in Nat /\ Cuts(Some(k), k) /\ k < n
        BY <1>1, <2>3, <3>1, TextSeq
      <3>3. ASSUME NEW q \in Texts, Len(q) < k
            PROVE  Some(n)[q] = Some(k)[q]
        <4>1. Len(q) \in Nat
          BY TextSeq
        <4>2. Len(q) < n
          BY <2>2, <3>2, <3>3, <4>1
        <4> QED
          BY <2>2, <3>2, <3>3, <4>2, CutsAgree
      <3>4. Cutting(Some(n), r) = Cutting(Some(k), r)
        BY <3>1, <3>3, CuttingIsLocal
      <3>5. Some(n)[r] = Cutting(Some(n), r)
        BY <2>2, <2>3 DEF Cuts
      <3> QED
        BY <1>2, <3>1, <3>4, <3>5
    <2> HIDE DEF g
    <2> QED
      BY <2>1, <2>3, CuttingIsLocal
  <1>4. g = [s \in Seq(Symbols) |-> Cutting(g, s)]
    BY <1>3 DEF Texts
  <1> HIDE DEF g
  <1>5. WithoutThinking = CHOOSE f : f = [s \in Seq(Symbols) |-> Cutting(f, s)]
    BY DEF WithoutThinking, Cutting
  <1>6. WithoutThinking = [s \in Seq(Symbols) |-> Cutting(WithoutThinking, s)]
    BY <1>4, <1>5
  <1> QED
    BY <1>6 DEF Texts

\* And it makes texts of texts.
LEMMA ReferenceType ==
  \A s \in Texts : WithoutThinking[s] \in Texts
  <1> DEFINE B == {l \in Nat : \E s \in Texts : Len(s) = l /\ WithoutThinking[s] \notin Texts}
  <1> SUFFICES ASSUME B # {}
               PROVE  FALSE
    BY TextSeq
  <1>1. PICK l : l = Min(B)
    OBVIOUS
  <1>2. l \in B /\ \A q \in B : l <= q
    BY <1>1, MinOfNats
  <1>3. PICK s \in Texts : l \in Nat /\ Len(s) = l /\ WithoutThinking[s] \notin Texts
    BY <1>2
  <1>4. ASSUME NEW r \in Texts, Len(r) < l
        PROVE  WithoutThinking[r] \in Texts
    <2>1. Len(r) \in Nat /\ ~(l <= Len(r))
      BY <1>3, <1>4, TextSeq
    <2>2. Len(r) \notin B
      BY <1>2, <2>1
    <2> QED
      BY <2>1, <2>2
  <1> HIDE DEF B
  <1>5. PICK i : i = Find(s, Opening)
    OBVIOUS
  <1>6. PICK inside : inside = Drop(s, i + Len(Opening) - 1)
    OBVIOUS
  <1>7. PICK j : j = Find(inside, Closing)
    OBVIOUS
  <1>8. PICK rest : rest = Drop(inside, j + Len(Closing) - 1)
    OBVIOUS
  <1>9. WithoutThinking[s] = IF i = 0 THEN s
                             ELSE Beginning(s, i - 1)
                                    \o (IF j = 0 THEN <<>> ELSE WithoutThinking[rest])
    BY <1>5, <1>6, <1>7, <1>8, ReferenceUnfolds DEF Cutting, Beginning
  <1>10. i # 0
    BY <1>3, <1>9
  <1>11. inside \in Texts /\ Len(inside) < Len(s) /\ Beginning(s, i - 1) \in Texts
    <2>1. Opening = Marker(FALSE) /\ FALSE \in BOOLEAN
      BY DEF Marker
    <2> QED
      BY <1>5, <1>6, <1>10, <2>1, BehindMarker
  <1>12. (IF j = 0 THEN <<>> ELSE WithoutThinking[rest]) \in Texts
    <2>1. CASE j = 0
      BY <2>1, EmptySeq DEF Texts
    <2>2. CASE j # 0
      <3>1. rest \in Texts /\ Len(rest) < Len(inside)
        <4>1. Closing = Marker(TRUE) /\ TRUE \in BOOLEAN
          BY DEF Marker
        <4> QED
          BY <1>7, <1>8, <1>11, <2>2, <4>1, BehindMarker
      <3>2. Len(rest) < l
        <4>1. Len(rest) \in Nat /\ Len(inside) \in Nat
          BY <1>11, <3>1, TextSeq
        <4> QED
          BY <1>3, <1>11, <3>1, <4>1
      <3> QED
        BY <1>4, <2>2, <3>1, <3>2
    <2> QED
      BY <2>1, <2>2
  <1>13. \A a, b \in Texts : a \o b \in Texts
    BY ConcatProperties DEF Texts
  <1> QED
    BY <1>3, <1>9, <1>10, <1>11, <1>12, <1>13

(***************************************************************************)
(* ThinkingFilter: what is still to be shown                               *)
(***************************************************************************)

\* What the reference makes of a text that begins inside a passage, or outside.
Cut(s, thinking) ==
  IF ~thinking THEN WithoutThinking[s]
  ELSE LET j == Find(s, Closing)
       IN  IF j = 0 THEN <<>> ELSE WithoutThinking[Drop(s, j + Len(Closing) - 1)]

LEMMA Together ==
  \A a, b \in Texts : a \o b \in Texts
  BY ConcatProperties DEF Texts

LEMMA Associative ==
  ASSUME NEW a \in Texts, NEW b \in Texts, NEW c \in Texts
  PROVE  (a \o b) \o c = a \o (b \o c)
  BY ConcatAssociative DEF Texts

LEMMA NoText ==
  <<>> \in Texts /\ \A s \in Texts : <<>> \o s = s /\ s \o <<>> = s
  BY EmptySeq, ConcatEmptySeq DEF Texts

LEMMA VisibleType ==
  ASSUME NEW s \in Texts, NEW t \in Texts, NEW b \in BOOLEAN
  PROVE  Visible(s, b) \in Texts /\ Visible(s \o t, b) = Visible(s, b) \o Visible(t, b)
  BY NoText DEF Visible

LEMMA CutType ==
  ASSUME NEW s \in Texts, NEW b \in BOOLEAN
  PROVE  Cut(s, b) \in Texts
  <1>1. CASE b = FALSE
    BY <1>1, ReferenceType DEF Cut
  <1>2. CASE b = TRUE
    <2>1. PICK j : j = Find(s, Closing)
      OBVIOUS
    <2>2. PICK rest : rest = Drop(s, j + Len(Closing) - 1)
      OBVIOUS
    <2>3. j # 0 => rest \in Texts
      BY <1>2, <2>1, <2>2, BehindMarker DEF Marker
    <2>4. Cut(s, b) = IF j = 0 THEN <<>> ELSE WithoutThinking[rest]
      BY <1>2, <2>1, <2>2 DEF Cut
    <2> QED
      BY <2>3, <2>4, NoText, ReferenceType
  <1> QED
    BY <1>1, <1>2

\* Inside and outside, the cut goes from marker to marker.
Unfolds(s, b, m, i) ==
  Cut(s, b) = IF i = 0 THEN Visible(s, b)
              ELSE Visible(Beginning(s, i - 1), b) \o Cut(Drop(s, i + Len(m) - 1), ~b)

LEMMA CutUnfolds ==
  ASSUME NEW s \in Texts, NEW b \in BOOLEAN, NEW m, m = Marker(b), NEW i, i = Find(s, m)
  PROVE  Unfolds(s, b, m, i)
  <1>1. PICK rest : rest = Drop(s, i + Len(m) - 1)
    OBVIOUS
  <1>2. i # 0 => rest \in Texts
    BY <1>1, BehindMarker
  <1>3. CASE b = FALSE
    <2>1. m = Opening
      BY <1>3 DEF Marker
    <2>2. Cut(s, b) = Cutting(WithoutThinking, s)
      BY <1>3, ReferenceUnfolds DEF Cut
    <2>3. PICK j : j = Find(rest, Closing)
      OBVIOUS
    <2>4. Cutting(WithoutThinking, s)
            = IF i = 0 THEN s
              ELSE Beginning(s, i - 1)
                     \o (IF j = 0 THEN <<>> ELSE WithoutThinking[Drop(rest, j + Len(Closing) - 1)])
      BY <1>1, <2>1, <2>3 DEF Cutting, Beginning
    <2>5. Cut(rest, TRUE)
            = IF j = 0 THEN <<>> ELSE WithoutThinking[Drop(rest, j + Len(Closing) - 1)]
      BY <2>3 DEF Cut
    <2>6. Visible(s, b) = s /\ Visible(Beginning(s, i - 1), b) = Beginning(s, i - 1)
          /\ Cut(rest, ~b) = Cut(rest, TRUE)
      BY <1>3 DEF Visible
    <2> QED
      BY <1>1, <2>2, <2>4, <2>5, <2>6 DEF Unfolds
  <1>4. CASE b = TRUE
    <2>1. m = Closing
      BY <1>4 DEF Marker
    <2>2. Cut(s, b) = IF i = 0 THEN <<>> ELSE WithoutThinking[rest]
      BY <1>1, <1>4, <2>1 DEF Cut
    <2>3. /\ Visible(s, b) = <<>> /\ Visible(Beginning(s, i - 1), b) = <<>>
          /\ Cut(rest, ~b) = WithoutThinking[rest]
      BY <1>4 DEF Visible, Cut
    <2>4. i # 0 => <<>> \o WithoutThinking[rest] = WithoutThinking[rest]
      BY <1>2, NoText, ReferenceType
    <2> QED
      BY <1>1, <2>2, <2>3, <2>4 DEF Unfolds
  <1> QED
    BY <1>3, <1>4

\* Whatever follows s, read in mode b, v is shown of it and t is left, in mode c.
LeadsTo(s, b, v, t, c) ==
  \A rest \in Texts : Cut(s \o rest, b) = v \o Cut(t \o rest, c)

\* A marker is passed: what is in front of it may be shown.
LEMMA CutAtMarker ==
  ASSUME NEW s \in Texts, NEW b \in BOOLEAN, NEW m, m = Marker(b), NEW i, i = Find(s, m), i # 0,
         NEW v, v = Visible(Beginning(s, i - 1), b), NEW t, t = Drop(s, i + Len(m) - 1),
         NEW c, c = ~b
  PROVE  LeadsTo(s, b, v, t, c)
  <1> SUFFICES ASSUME NEW rest \in Texts
               PROVE  Cut(s \o rest, b) = v \o Cut(t \o rest, c)
    BY DEF LeadsTo
  <1>1. m \in Texts /\ Len(m) \in Nat \ {0}
    BY MarkerType
  <1>2. PICK u : u = s \o rest
    OBVIOUS
  <1>3. u \in Texts
    BY <1>2, Together
  <1>4. Found(s, m, i) /\ Found(u, m, Find(u, m))
    BY <1>1, <1>3, FindFinds
  <1>5. Found(u, m, i)
    BY <1>1, <1>2, <1>4, FoundInFirst
  <1>6. i = Find(u, m)
    BY <1>4, <1>5, FoundOnce
  <1>7. Cut(u, b) = Visible(Beginning(u, i - 1), b) \o Cut(Drop(u, i + Len(m) - 1), ~b)
    <2>1. Unfolds(u, b, m, i)
      BY <1>3, <1>6, CutUnfolds
    <2> QED
      BY <2>1 DEF Unfolds
  <1>8. PICK k : k = i + Len(m) - 1
    OBVIOUS
  <1>9. i - 1 \in 0..Len(s) /\ k \in 0..Len(s)
    BY <1>8, BehindMarker
  <1>10. Beginning(u, i - 1) = Beginning(s, i - 1) /\ Drop(u, k) = Drop(s, k) \o rest
    BY <1>2, <1>9, BeginningOfFirst, DropOfFirst
  <1> QED
    BY <1>2, <1>7, <1>8, <1>10

\* Where no marker begins, the text is passed on and the cut goes on behind it.
LEMMA CutWithoutMarker ==
  ASSUME NEW v \in Texts, NEW t \in Texts, NEW b \in BOOLEAN, NEW m, m = Marker(b),
         \A k \in Nat : k < Len(v) => ~Occurs(v \o t, m, k)
  PROVE  Cut(v \o t, b) = Visible(v, b) \o Cut(t, b)
  <1>1. m \in Texts /\ Len(m) \in Nat \ {0} /\ Len(v) \in Nat /\ Len(t) \in Nat
    BY MarkerType, TextSeq
  <1>2. PICK u : u = v \o t
    OBVIOUS
  <1>3. u \in Texts
    BY <1>2, Together
  <1>4. PICK f : f = Find(t, m)
    OBVIOUS
  <1>5. PICK i : i = Find(u, m)
    OBVIOUS
  <1>6. Found(t, m, f) /\ Found(u, m, i)
    BY <1>1, <1>3, <1>4, <1>5, FindFinds
  <1>7. PICK g : g = IF f = 0 THEN 0 ELSE Len(v) + f
    OBVIOUS
  <1>8. Found(u, m, g)
    BY <1>1, <1>2, <1>6, <1>7, FoundInSecond
  <1>9. i = g
    BY <1>6, <1>8, FoundOnce
  <1>10. Cut(t, b) = IF f = 0 THEN Visible(t, b)
                     ELSE Visible(Beginning(t, f - 1), b) \o Cut(Drop(t, f + Len(m) - 1), ~b)
    <2>1. Unfolds(t, b, m, f)
      BY <1>4, CutUnfolds
    <2> QED
      BY <2>1 DEF Unfolds
  <1>11. Cut(u, b) = IF i = 0 THEN Visible(u, b)
                     ELSE Visible(Beginning(u, i - 1), b) \o Cut(Drop(u, i + Len(m) - 1), ~b)
    <2>1. Unfolds(u, b, m, i)
      BY <1>3, <1>5, CutUnfolds
    <2> QED
      BY <2>1 DEF Unfolds
  <1>12. CASE f = 0
    <2>1. i = 0
      BY <1>7, <1>9, <1>12
    <2>2. Cut(u, b) = Visible(u, b) /\ Cut(t, b) = Visible(t, b)
      BY <1>10, <1>11, <1>12, <2>1
    <2>3. Visible(u, b) = Visible(v, b) \o Visible(t, b)
      BY <1>2, VisibleType
    <2>4. Cut(u, b) = Visible(v, b) \o Cut(t, b)
      BY <2>2, <2>3
    <2> QED
      BY <1>2, <2>4
  <1>13. CASE f # 0
    <2>1. /\ f \in Nat /\ f - 1 \in 0..Len(t) /\ f + Len(m) - 1 \in 0..Len(t)
          /\ Drop(t, f + Len(m) - 1) \in Texts /\ Beginning(t, f - 1) \in Texts
      BY <1>4, <1>13, BehindMarker
    <2>2. PICK k : k = f + Len(m) - 1
      OBVIOUS
    <2>3. i # 0 /\ i - 1 = Len(v) + (f - 1) /\ i + Len(m) - 1 = Len(v) + k
      BY <1>1, <1>7, <1>9, <1>13, <2>1, <2>2
    <2>4. PICK p : p = f - 1
      OBVIOUS
    <2>5. Beginning(u, Len(v) + p) = v \o Beginning(t, p)
      BY <1>2, <2>1, <2>4, BeginningOfSecond, SMTT(30)
    <2>6. Drop(u, Len(v) + k) = Drop(t, k)
      BY <1>2, <2>1, <2>2, DropOfSecond
    <2>7. Cut(u, b) = Visible(v \o Beginning(t, p), b) \o Cut(Drop(t, k), ~b)
      BY <1>11, <2>3, <2>4, <2>5, <2>6
    <2>8. Cut(t, b) = Visible(Beginning(t, p), b) \o Cut(Drop(t, k), ~b)
      BY <1>10, <1>13, <2>2, <2>4
    <2>9. Visible(v \o Beginning(t, p), b) = Visible(v, b) \o Visible(Beginning(t, p), b)
      BY <2>1, <2>4, VisibleType, ZenonT(40)
    <2>10. /\ Visible(v, b) \in Texts /\ Visible(Beginning(t, p), b) \in Texts
           /\ Cut(Drop(t, k), ~b) \in Texts
      BY <2>1, <2>2, <2>4, VisibleType, CutType
    <2>11. (Visible(v, b) \o Visible(Beginning(t, p), b)) \o Cut(Drop(t, k), ~b)
             = Visible(v, b) \o (Visible(Beginning(t, p), b) \o Cut(Drop(t, k), ~b))
      <3>1. PICK x : x = Visible(v, b)
        OBVIOUS
      <3>2. PICK y : y = Visible(Beginning(t, p), b)
        OBVIOUS
      <3>3. PICK z : z = Cut(Drop(t, k), ~b)
        OBVIOUS
      <3>4. x \in Texts /\ y \in Texts /\ z \in Texts
        BY <2>10, <3>1, <3>2, <3>3
      <3>5. (x \o y) \o z = x \o (y \o z)
        BY <3>4, Associative, ZenonT(40)
      <3> QED
        BY <3>1, <3>2, <3>3, <3>5
    <2>12. Cut(u, b) = (Visible(v, b) \o Visible(Beginning(t, p), b)) \o Cut(Drop(t, k), ~b)
      BY <2>7, <2>9
    <2>13. Cut(u, b) = Visible(v, b) \o Cut(t, b)
      BY <2>8, <2>11, <2>12
    <2> QED
      BY <1>2, <2>13
  <1> QED
    BY <1>12, <1>13

(***************************************************************************)
(* ThinkingFilter: the turns of the loop                                   *)
(***************************************************************************)

\* What is not the start of a marker, however the text goes on.
LEMMA NoMarkerBegins ==
  ASSUME NEW q \in Texts, NEW b \in BOOLEAN, NEW m, m = Marker(b), Find(q, m) = 0,
         NEW p, p = PartialMarker(q, m)
  PROVE  /\ p \in Nat /\ p < Len(m) /\ p <= Len(q)
         /\ \A rest \in Texts : \A k \in Nat : k < Len(q) - p => ~Occurs(q \o rest, m, k)
  <1>1. m \in Texts /\ Len(m) \in Nat \ {0} /\ Len(q) \in Nat
    BY MarkerType, TextSeq
  <1> DEFINE P == {n \in 0..(Len(m) - 1) :
                     n <= Len(q) /\ SubSeq(m, 1, n) = SubSeq(q, Len(q) + 1 - n, Len(q))}
  <1>2. ASSUME NEW n \in 0..(Len(m) - 1), n <= Len(q), NEW k, k = Len(q) - n,
               Agree(m, 0, q, k, n)
        PROVE  n \in P
    <2>1. n \in 0..Len(m) /\ k \in 0..Len(q) /\ Len(q) - k = n /\ Len(q) + 1 - n = k + 1
      BY <1>1, <1>2
    <2>2. IsPart(Beginning(m, n), m, 0, n) /\ IsPart(Drop(q, k), q, k, n)
      BY <1>1, <2>1, Beginnings, Dropped
    <2>3. Beginning(m, n) = Drop(q, k)
      BY <1>2, <2>2, EqualParts
    <2>4. SubSeq(m, 1, n) = SubSeq(q, Len(q) + 1 - n, Len(q))
      BY <2>1, <2>3 DEF Beginning, Drop
    <2> QED
      BY <1>2, <2>4
  <1>3. P # {}
    <2>1. 0 \in 0..(Len(m) - 1) /\ 0 <= Len(q)
      BY <1>1
    <2>2. PICK k : k = Len(q) - 0
      OBVIOUS
    <2>3. Agree(m, 0, q, k, 0)
      BY DEF Agree
    <2> HIDE DEF P
    <2> QED
      BY <1>2, <2>1, <2>2, <2>3
  <1>4. P \in SUBSET (0..(Len(m) - 1)) /\ \A n \in P : n <= Len(q)
    OBVIOUS
  <1>5. p = Max(P)
    BY DEF PartialMarker
  <1> HIDE DEF P
  <1>6. p \in P /\ \A n \in P : n <= p
    <2>1. PICK l : l = Len(m) - 1
      OBVIOUS
    <2>2. l \in Nat /\ P \in SUBSET (0..l)
      BY <1>1, <1>4, <2>1
    <2> QED
      BY <1>3, <1>5, <2>2, MaxOfNats
  <1>7. p \in Nat /\ p < Len(m) /\ p <= Len(q)
    <2>1. p \in 0..(Len(m) - 1) /\ p <= Len(q)
      BY <1>4, <1>6
    <2> QED
      BY <1>1, <2>1
  <1>8. \A k \in Nat : ~Occurs(q, m, k)
    <2>1. Found(q, m, 0)
      BY <1>1, FindFinds
    <2>2. \A i \in Nat : i + 1 # 0
      OBVIOUS
    <2> QED
      BY <2>1, <2>2 DEF Found
  <1>9. ASSUME NEW rest \in Texts, NEW k \in Nat, k < Len(q) - p, Occurs(q \o rest, m, k)
        PROVE  FALSE
    <2>1. CASE k + Len(m) <= Len(q)
      BY <1>1, <1>8, <1>9, <2>1, OccursInFirst
    <2>2. CASE ~(k + Len(m) <= Len(q))
      <3>1. PICK n : n = Len(q) - k
        OBVIOUS
      <3>2. n \in 0..(Len(m) - 1) /\ n <= Len(q) /\ k = Len(q) - n /\ ~(n <= p)
        BY <1>1, <1>7, <1>9, <2>2, <3>1
      <3>3. PICK u : u = q \o rest
        OBVIOUS
      <3>4. IsJoin(u, q, rest)
        BY <3>3, Joined
      <3>5. Agree(m, 0, q, k, n)
        <4>1. ASSUME NEW j \in 1..n
              PROVE  m[0 + j] = q[k + j]
          <5>1. j \in 1..Len(m) /\ k + j \in 1..Len(q) /\ 0 + j = j
            BY <1>1, <1>9, <3>2
          <5>2. u[k + j] = m[j]
            BY <1>9, <3>3, <5>1 DEF Occurs
          <5>3. u[k + j] = q[k + j]
            BY <3>4, <5>1 DEF IsJoin
          <5> QED
            BY <5>1, <5>2, <5>3
        <4> QED
          BY <4>1 DEF Agree
      <3>6. n \in P
        BY <1>2, <3>2, <3>5
      <3> QED
        BY <1>6, <3>2, <3>6
    <2> QED
      BY <2>1, <2>2
  <1> QED
    BY <1>7, <1>9

Reading == [visible : Texts, pending : Texts, thinking : BOOLEAN]

\* f is as far as the reading of q may have come.
Faithful(f, q, b) ==
  f \in Reading /\ LeadsTo(q, b, f.visible, f.pending, f.thinking)

\* Passing more on: v is cut off in front of the pending text.
LEMMA PassingOn ==
  ASSUME NEW f, NEW q \in Texts, NEW b \in BOOLEAN, Faithful(f, q, b),
         NEW v \in Texts, NEW t \in Texts, NEW c \in BOOLEAN,
         LeadsTo(f.pending, f.thinking, v, t, c),
         NEW g, g = [visible |-> f.visible \o v, pending |-> t, thinking |-> c]
  PROVE  Faithful(g, q, b)
  <1>1. f.visible \in Texts
    BY DEF Faithful, Reading
  <1>2. f.visible \o v \in Texts
    BY <1>1, Together
  <1>3. g \in Reading /\ g.visible = f.visible \o v /\ g.pending = t /\ g.thinking = c
    BY <1>2 DEF Reading
  <1>4. ASSUME NEW rest \in Texts
        PROVE  Cut(q \o rest, b) = g.visible \o Cut(g.pending \o rest, g.thinking)
    <2>1. PICK z : z = Cut(t \o rest, c)
      OBVIOUS
    <2>2. z \in Texts
      BY <2>1, Together, CutType
    <2>3. Cut(q \o rest, b) = f.visible \o (v \o z)
      BY <2>1 DEF Faithful, LeadsTo
    <2>4. (f.visible \o v) \o z = f.visible \o (v \o z)
      BY <1>1, <2>2, Associative, ZenonT(40)
    <2> QED
      BY <1>3, <2>1, <2>3, <2>4
  <1> QED
    BY <1>3, <1>4 DEF Faithful, LeadsTo

\* A turn of the loop.
LEMMA PassStep ==
  ASSUME NEW f, NEW q \in Texts, NEW b \in BOOLEAN, Faithful(f, q, b),
         NEW m, m = Marker(f.thinking), NEW i, i = Find(f.pending, m), NEW g, g = PassMarker(f)
  PROVE  /\ Faithful(g, q, b)
         /\ i = 0 => g = f
         /\ i # 0 => Len(g.pending) < Len(f.pending)
  <1>1. f.visible \in Texts /\ f.pending \in Texts /\ f.thinking \in BOOLEAN
    BY DEF Faithful, Reading
  <1>2. CASE i = 0
    <2>1. g = f
      BY <1>2 DEF PassMarker
    <2> QED
      BY <1>2, <2>1
  <1>3. CASE i # 0
    <2>1. PICK v : v = Visible(Beginning(f.pending, i - 1), f.thinking)
      OBVIOUS
    <2>2. PICK t : t = Drop(f.pending, i + Len(m) - 1)
      OBVIOUS
    <2>3. PICK c : c = ~f.thinking
      OBVIOUS
    <2>4. g = [visible |-> f.visible \o v, pending |-> t, thinking |-> c]
      BY <1>3, <2>1, <2>2, <2>3 DEF PassMarker, Beginning
    <2>5. t \in Texts /\ Len(t) < Len(f.pending) /\ v \in Texts /\ c \in BOOLEAN
      BY <1>1, <1>3, <2>1, <2>2, <2>3, BehindMarker, VisibleType
    <2>6. LeadsTo(f.pending, f.thinking, v, t, c)
      BY <1>1, <1>3, <2>1, <2>2, <2>3, CutAtMarker
    <2>7. Faithful(g, q, b)
      BY <2>4, <2>5, <2>6, PassingOn
    <2> QED
      BY <1>3, <2>4, <2>5, <2>7
  <1> QED
    BY <1>2, <1>3

\* The last turn.
LEMMA KeepStep ==
  ASSUME NEW f, NEW q \in Texts, NEW b \in BOOLEAN, Faithful(f, q, b),
         NEW m, m = Marker(f.thinking), Find(f.pending, m) = 0, NEW g, g = KeepPartial(f)
  PROVE  Faithful(g, q, b) /\ Len(g.pending) < Len(Marker(g.thinking))
  <1>1. /\ f \in Reading /\ f.visible \in Texts /\ f.pending \in Texts /\ f.thinking \in BOOLEAN
        /\ Len(f.pending) \in Nat
    BY TextSeq DEF Faithful, Reading
  <1>2. PICK p : p = PartialMarker(f.pending, m)
    OBVIOUS
  <1>3. PICK s : s = f.pending
    OBVIOUS
  <1>4. /\ p \in Nat /\ p < Len(m) /\ p <= Len(s)
        /\ \A rest \in Texts : \A k \in Nat : k < Len(s) - p => ~Occurs(s \o rest, m, k)
    BY <1>1, <1>2, <1>3, NoMarkerBegins
  <1>5. PICK keep : keep = Len(s) - p
    OBVIOUS
  <1>6. keep \in 0..Len(s) /\ Len(s) - keep = p
    BY <1>1, <1>3, <1>4, <1>5
  <1>7. PICK u : u = Beginning(s, keep)
    OBVIOUS
  <1>8. PICK t : t = Drop(s, keep)
    OBVIOUS
  <1>9. u \in Texts /\ Len(u) = keep /\ t \in Texts /\ Len(t) = p /\ u \o t = s
    <2>1. IsPart(u, s, 0, keep) /\ IsPart(t, s, keep, p)
      BY <1>1, <1>3, <1>6, <1>7, <1>8, Beginnings, Dropped
    <2>2. u \o t = s
      BY <1>1, <1>3, <1>6, <1>7, <1>8, BeginningAndRest
    <2> QED
      BY <2>1, <2>2 DEF IsPart
  <1>10. PICK v : v = Visible(u, f.thinking)
    OBVIOUS
  <1>11. v \in Texts
    BY <1>1, <1>9, <1>10, VisibleType
  <1>12. g = [visible |-> f.visible \o v, pending |-> t, thinking |-> f.thinking]
    <2>1. g = [f EXCEPT !.visible = f.visible \o v, !.pending = t]
      BY <1>2, <1>3, <1>5, <1>7, <1>8, <1>10 DEF KeepPartial, Beginning
    <2> QED
      BY <1>1, <2>1 DEF Reading
  <1>13. LeadsTo(f.pending, f.thinking, v, t, f.thinking)
    <2> SUFFICES ASSUME NEW rest \in Texts
                 PROVE  Cut(f.pending \o rest, f.thinking) = v \o Cut(t \o rest, f.thinking)
      BY DEF LeadsTo
    <2>1. PICK w : w = t \o rest
      OBVIOUS
    <2>2. w \in Texts
      BY <1>9, <2>1, Together
    <2>3. s \o rest = u \o w
      BY <1>9, <2>1, Associative
    <2>4. \A k \in Nat : k < Len(u) => ~Occurs(u \o w, m, k)
      BY <1>4, <1>5, <1>9, <2>3
    <2>5. Cut(u \o w, f.thinking) = Visible(u, f.thinking) \o Cut(w, f.thinking)
      BY <1>1, <1>9, <2>2, <2>4, CutWithoutMarker
    <2> QED
      BY <1>3, <1>10, <2>1, <2>3, <2>5
  <1>14. Faithful(g, q, b)
    BY <1>1, <1>9, <1>11, <1>12, <1>13, PassingOn
  <1>15. Len(g.pending) < Len(Marker(g.thinking))
    BY <1>4, <1>9, <1>12
  <1> QED
    BY <1>14, <1>15

\* g is the loop's first n turns from a on.
Turns(g, n, a) == g = [k \in 0..n |-> IF k = 0 THEN a ELSE PassMarker(g[k - 1])]

LEMMA TurnsExist ==
  ASSUME NEW a, NEW n \in Nat
  PROVE  \E g : Turns(g, n, a)
  <1> DEFINE B == {l \in Nat : ~\E g : Turns(g, l, a)}
  <1> SUFFICES ASSUME B # {}
               PROVE  FALSE
    OBVIOUS
  <1>1. PICK l : l = Min(B)
    OBVIOUS
  <1>2. l \in B /\ \A q \in B : l <= q
    BY <1>1, MinOfNats
  <1>3. l \in Nat /\ ~\E g : Turns(g, l, a)
    BY <1>2
  <1>4. CASE l = 0
    <2> DEFINE g == [k \in 0..0 |-> a]
    <2>1. \A k \in 0..0 : k = 0
      OBVIOUS
    <2>2. g = [k \in 0..0 |-> IF k = 0 THEN a ELSE PassMarker(g[k - 1])]
      BY <2>1
    <2>3. Turns(g, 0, a)
      BY <2>2 DEF Turns
    <2> QED
      BY <1>3, <1>4, <2>3
  <1>5. CASE l # 0
    <2>1. PICK p : p = l - 1
      OBVIOUS
    <2>2. p \in Nat /\ p + 1 = l /\ ~(l <= p)
      BY <1>3, <1>5, <2>1
    <2>3. PICK h : Turns(h, p, a)
      BY <1>2, <2>2
    <2>4. \A k \in 0..p : h[k] = IF k = 0 THEN a ELSE PassMarker(h[k - 1])
      BY <2>3 DEF Turns
    <2> DEFINE g == [k \in 0..l |-> IF k = 0 THEN a ELSE PassMarker(h[k - 1])]
    <2>5. \A k \in 0..l : g[k] = IF k = 0 THEN a ELSE PassMarker(h[k - 1])
      OBVIOUS
    <2>6. \A k \in 0..l : k # 0 => k - 1 \in 0..p /\ k - 1 \in 0..l
      BY <2>2
    <2>7. \A k \in 0..p : k \in 0..l
      BY <2>2
    <2>8. g = [k \in 0..l |-> g[k]]
      OBVIOUS
    <2> HIDE DEF g
    <2>9. \A k \in 0..p : g[k] = h[k]
      BY <2>4, <2>5, <2>7
    <2>10. \A k \in 0..l : g[k] = IF k = 0 THEN a ELSE PassMarker(g[k - 1])
      BY <2>5, <2>6, <2>9
    <2>11. Turns(g, l, a)
      BY <2>8, <2>10 DEF Turns
    <2> QED
      BY <1>3, <2>11
  <1> QED
    BY <1>4, <1>5

\* After as many turns as there are symbols no marker is left.
LEMMA TurnsEnd ==
  ASSUME NEW q \in Texts, NEW b \in BOOLEAN,
         NEW a, a = [visible |-> <<>>, pending |-> q, thinking |-> b],
         NEW n, n = Len(q), NEW g, Turns(g, n, a)
  PROVE  Faithful(g[n], q, b) /\ Find(g[n].pending, Marker(g[n].thinking)) = 0
  <1> DEFINE Good(k) == /\ Faithful(g[k], q, b)
                        /\ \/ Find(g[k].pending, Marker(g[k].thinking)) = 0
                           \/ Len(g[k].pending) <= n - k
             B == {k \in Nat : k <= n /\ ~Good(k)}
  <1>1. n \in Nat /\ \A k \in 0..n : g[k] = IF k = 0 THEN a ELSE PassMarker(g[k - 1])
    BY TextSeq DEF Turns
  <1>2. Good(0)
    <2>1. g[0] = a
      BY <1>1
    <2>2. a \in Reading /\ a.visible = <<>> /\ a.pending = q /\ a.thinking = b
      BY NoText DEF Reading
    <2>3. LeadsTo(q, b, <<>>, q, b)
      BY NoText, Together, CutType DEF LeadsTo
    <2>4. Len(q) <= n - 0
      BY <1>1
    <2> QED
      BY <2>1, <2>2, <2>3, <2>4 DEF Faithful
  <1>3. ASSUME NEW k \in Nat, k + 1 <= n, Good(k)
        PROVE  Good(k + 1)
    <2>1. PICK f : f = g[k]
      OBVIOUS
    <2>2. PICK h : h = g[k + 1]
      OBVIOUS
    <2>3. h = PassMarker(f)
      <3>1. k + 1 \in 0..n /\ k + 1 # 0 /\ (k + 1) - 1 = k
        BY <1>1, <1>3
      <3> QED
        BY <1>1, <2>1, <2>2, <3>1
    <2>4. PICK m : m = Marker(f.thinking)
      OBVIOUS
    <2>5. PICK i : i = Find(f.pending, m)
      OBVIOUS
    <2>6. Faithful(f, q, b) /\ (i = 0 \/ Len(f.pending) <= n - k)
      BY <1>3, <2>1, <2>4, <2>5
    <2>7. Faithful(h, q, b) /\ (i = 0 => h = f) /\ (i # 0 => Len(h.pending) < Len(f.pending))
      BY <2>3, <2>4, <2>5, <2>6, PassStep
    <2>8. CASE i = 0
      BY <2>2, <2>4, <2>5, <2>7, <2>8
    <2>9. CASE i # 0
      <3>1. Len(f.pending) \in Nat /\ Len(h.pending) \in Nat
        <4>1. f.pending \in Texts /\ h.pending \in Texts
          BY <2>6, <2>7 DEF Faithful, Reading
        <4> QED
          BY <4>1, TextSeq
      <3>2. Len(h.pending) <= n - (k + 1)
        BY <1>1, <2>6, <2>7, <2>9, <3>1
      <3> QED
        BY <2>2, <2>7, <3>2
    <2> QED
      BY <2>8, <2>9
  <1>4. B = {}
    <2> SUFFICES ASSUME B # {} PROVE FALSE
      OBVIOUS
    <2>1. \A k \in B : k \in Nat /\ k <= n /\ ~Good(k)
      OBVIOUS
    <2>2. \A k \in Nat : (k <= n /\ ~Good(k)) => k \in B
      OBVIOUS
    <2> HIDE DEF B, Good
    <2>3. B \in SUBSET Nat
      BY <2>1
    <2>4. PICK l : l = Min(B)
      OBVIOUS
    <2>5. l \in B /\ \A k \in B : l <= k
      BY <2>3, <2>4, MinOfNats
    <2>6. l \in Nat /\ l <= n /\ ~Good(l) /\ l # 0
      BY <1>2, <2>1, <2>5
    <2>7. PICK p : p = l - 1
      OBVIOUS
    <2>8. p \in Nat /\ p + 1 = l /\ ~(l <= p) /\ p <= n /\ p + 1 <= n
      BY <1>1, <2>6, <2>7
    <2>9. Good(p)
      BY <2>2, <2>5, <2>8
    <2>10. Good(l)
      BY <1>3, <2>8, <2>9
    <2> QED
      BY <2>6, <2>10
  <1>5. Good(n)
    <2>1. \A k \in Nat : (k <= n /\ ~Good(k)) => k \in B
      OBVIOUS
    <2> HIDE DEF B, Good
    <2> QED
      BY <1>1, <1>4, <2>1
  <1>6. PICK f : f = g[n]
    OBVIOUS
  <1>7. PICK m : m = Marker(f.thinking)
    OBVIOUS
  <1>8. Faithful(f, q, b) /\ (Find(f.pending, m) = 0 \/ Len(f.pending) <= n - n)
    BY <1>5, <1>6, <1>7
  <1>9. Find(f.pending, m) = 0
    <2>1. f.pending \in Texts /\ f.thinking \in BOOLEAN
      BY <1>8 DEF Faithful, Reading
    <2>2. m \in Texts /\ Len(m) \in Nat \ {0} /\ Len(f.pending) \in Nat
      BY <1>7, <2>1, MarkerType, TextSeq
    <2> SUFFICES ASSUME Find(f.pending, m) # 0 PROVE FALSE
      OBVIOUS
    <2>3. Found(f.pending, m, Find(f.pending, m))
      BY <2>1, <2>2, FindFinds
    <2>4. PICK p \in Nat : p + Len(m) <= Len(f.pending)
      BY <2>3 DEF Found, Occurs
    <2>5. Len(f.pending) <= n - n
      BY <1>8
    <2> QED
      BY <1>1, <2>2, <2>4, <2>5
  <1> QED
    BY <1>6, <1>7, <1>8, <1>9

\* The filter on a pending text, whatever follows it.
LEMMA Filters ==
  ASSUME NEW q \in Texts, NEW b \in BOOLEAN, NEW f, f = Filtered(q, b)
  PROVE  Faithful(f, q, b) /\ Len(f.pending) < Len(Marker(f.thinking))
  <1>1. PICK a : a = [visible |-> <<>>, pending |-> q, thinking |-> b]
    OBVIOUS
  <1>2. PICK n : n = Len(q)
    OBVIOUS
  <1>3. n \in Nat
    BY <1>2, TextSeq
  <1> DEFINE g == CHOOSE h : Turns(h, n, a)
  <1>4. Turns(g, n, a)
    BY <1>3, TurnsExist
  <1>5. f = KeepPartial(g[n])
    BY <1>1, <1>2 DEF Filtered, Turns
  <1> HIDE DEF g
  <1>6. PICK e : e = g[n]
    OBVIOUS
  <1>7. Faithful(e, q, b) /\ Find(e.pending, Marker(e.thinking)) = 0
    BY <1>1, <1>2, <1>4, <1>6, TurnsEnd
  <1> QED
    BY <1>5, <1>6, <1>7, KeepStep

(***************************************************************************)
(* ThinkingFilter: the theorems                                            *)
(***************************************************************************)

\* Whatever may follow the text, the client has seen what the reference makes of
\* it, up to what the pending text will show.
FilterInv ==
  FilterTypeOK /\ LeadsTo(text, FALSE, shown, filter.pending, filter.thinking)

LEMMA FilterStarts ==
  FilterInit => FilterInv
  <1> SUFFICES ASSUME FilterInit PROVE FilterInv
    OBVIOUS
  <1>1. /\ text = <<>> /\ shown = <<>> /\ filter.pending = <<>> /\ filter.thinking = FALSE
        /\ filter \in [pending : Seq(Symbols), thinking : BOOLEAN]
    BY EmptySeq DEF FilterInit
  <1>2. FilterTypeOK
    <2>1. <<>> \in Seq(Symbols) /\ Len(<<>>) = 0 /\ MaxText \in Nat
      BY EmptySeq, FilterAssumption
    <2>2. Len(Marker(FALSE)) \in Nat \ {0}
      BY MarkerType
    <2>3. Len(<<>>) <= MaxText /\ Len(<<>>) < Len(Marker(FALSE))
      <3>1. \A n \in Nat : 0 <= n /\ (n # 0 => 0 < n)
        OBVIOUS
      <3> QED
        BY <2>1, <2>2, <3>1
    <2> QED
      BY <1>1, <2>1, <2>3 DEF FilterTypeOK
  <1>3. LeadsTo(<<>>, FALSE, <<>>, <<>>, FALSE)
    BY NoText, CutType DEF LeadsTo
  <1> QED
    BY <1>1, <1>2, <1>3 DEF FilterInv

LEMMA DeltaStep ==
  ASSUME FilterInv, NEW d \in Texts, Delta(d)
  PROVE  FilterInv'
  <1>1. /\ text \in Texts /\ shown \in Texts
        /\ filter \in [pending : Texts, thinking : BOOLEAN]
    BY DEF FilterInv, FilterTypeOK, Texts
  <1>2. PICK p : p = filter.pending
    OBVIOUS
  <1>3. PICK b : b = filter.thinking
    OBVIOUS
  <1>4. p \in Texts /\ b \in BOOLEAN /\ LeadsTo(text, FALSE, shown, p, b)
    BY <1>1, <1>2, <1>3 DEF FilterInv
  <1>5. PICK f : f = Filtered(p \o d, b)
    OBVIOUS
  <1>6. /\ text' = text \o d /\ shown' = shown \o f.visible
        /\ filter' = [pending |-> f.pending, thinking |-> f.thinking]
        /\ Len(text) + Len(d) <= MaxText
    BY <1>2, <1>3, <1>5 DEF Delta
  <1>7. PICK q : q = p \o d
    OBVIOUS
  <1>8. q \in Texts
    BY <1>4, <1>7, Together
  <1>9. Faithful(f, q, b) /\ Len(f.pending) < Len(Marker(f.thinking))
    BY <1>4, <1>5, <1>7, <1>8, Filters
  <1>10. /\ f.visible \in Texts /\ f.pending \in Texts /\ f.thinking \in BOOLEAN
         /\ LeadsTo(q, b, f.visible, f.pending, f.thinking)
    BY <1>9 DEF Faithful, Reading
  <1>11. filter'.pending = f.pending /\ filter'.thinking = f.thinking
    BY <1>6
  <1>12. FilterTypeOK'
    <2>1. text' \in Texts /\ shown' \in Texts
      BY <1>1, <1>6, <1>10, Together
    <2>2. Len(text') <= MaxText
      <3>1. IsJoin(text \o d, text, d)
        BY <1>1, Joined
      <3> QED
        BY <1>6, <3>1 DEF IsJoin
    <2>3. filter' \in [pending : Texts, thinking : BOOLEAN]
      BY <1>6, <1>10
    <2> QED
      BY <1>9, <1>11, <2>1, <2>2, <2>3 DEF FilterTypeOK, Texts
  <1>13. LeadsTo(text \o d, FALSE, shown \o f.visible, f.pending, f.thinking)
    <2> SUFFICES ASSUME NEW rest \in Texts
                 PROVE  Cut((text \o d) \o rest, FALSE)
                          = (shown \o f.visible) \o Cut(f.pending \o rest, f.thinking)
      BY DEF LeadsTo
    <2>1. PICK more : more = d \o rest
      OBVIOUS
    <2>2. more \in Texts
      BY <2>1, Together
    <2>3. PICK z : z = Cut(f.pending \o rest, f.thinking)
      OBVIOUS
    <2>4. z \in Texts
      BY <1>10, <2>3, Together, CutType
    <2>5. Cut(text \o more, FALSE) = shown \o Cut(p \o more, b)
      BY <1>4, <2>2 DEF LeadsTo
    <2>6. (text \o d) \o rest = text \o more /\ q \o rest = p \o more
      <3>1. PICK x : x = text
        OBVIOUS
      <3>2. x \in Texts
        BY <1>1, <3>1
      <3>3. (x \o d) \o rest = x \o (d \o rest)
        BY <3>2, Associative
      <3>4. (p \o d) \o rest = p \o (d \o rest)
        BY <1>4, Associative
      <3> QED
        BY <1>7, <2>1, <3>1, <3>3, <3>4
    <2>7. Cut(q \o rest, b) = f.visible \o z
      BY <1>10, <2>3 DEF LeadsTo
    <2>8. (shown \o f.visible) \o z = shown \o (f.visible \o z)
      <3>1. PICK x : x = shown
        OBVIOUS
      <3>2. PICK y : y = f.visible
        OBVIOUS
      <3>3. x \in Texts /\ y \in Texts
        BY <1>1, <1>10, <3>1, <3>2
      <3>4. (x \o y) \o z = x \o (y \o z)
        BY <2>4, <3>3, Associative
      <3> QED
        BY <3>1, <3>2, <3>4
    <2> QED
      BY <2>3, <2>5, <2>6, <2>7, <2>8
  <1>14. LeadsTo(text, FALSE, shown, filter.pending, filter.thinking)'
    <2>1. LeadsTo(text', FALSE, shown', filter'.pending, filter'.thinking)
      BY <1>6, <1>11, <1>13
    <2> QED
      BY <2>1 DEF LeadsTo
  <1> QED
    BY <1>12, <1>14 DEF FilterInv

LEMMA FilterStep ==
  FilterInv /\ [FilterNext]_thinkVars => FilterInv'
  <1> SUFFICES ASSUME FilterInv, [FilterNext]_thinkVars PROVE FilterInv'
    OBVIOUS
  <1>1. CASE FilterNext
    <2>1. PICK d \in BoundedSeq(Symbols, MaxDelta) : Delta(d)
      BY <1>1 DEF FilterNext
    <2>2. d \in Texts
      BY <2>1 DEF BoundedSeq, SeqOf, Texts
    <2> QED
      BY <2>1, <2>2, DeltaStep
  <1>2. CASE UNCHANGED thinkVars
    BY <1>2 DEF thinkVars, FilterInv, FilterTypeOK, LeadsTo
  <1> QED
    BY <1>1, <1>2

\* The inductive invariant: what was shown, and what the pending text will show
\* together with any text that may come, is what the reference shows of it all.
THEOREM FilterFollowsReference ==
  FilterSpec => []FilterInv
  BY FilterStarts, FilterStep, PTL DEF FilterSpec

\* The filter keeps less than a marker back (stream.py, longest_prefix_suffix).
THEOREM FilterTypes ==
  FilterSpec => []FilterTypeOK
  <1>1. FilterInv => FilterTypeOK
    BY DEF FilterInv
  <1> QED
    BY <1>1, FilterFollowsReference, PTL

\* However an answer is cut into deltas, the client is shown it without its
\* thinking passages (_filter_thinking_delta, _flush_thinking_filter).
THEOREM PassagesAreRemoved ==
  FilterSpec => []ThinkingIsRemoved
  <1>1. ASSUME FilterInv
        PROVE  ThinkingIsRemoved
    <2>1. PICK p : p = filter.pending
      OBVIOUS
    <2>2. PICK b : b = filter.thinking
      OBVIOUS
    <2>3. PICK m : m = Marker(b)
      OBVIOUS
    <2>4. /\ text \in Texts /\ shown \in Texts /\ p \in Texts /\ b \in BOOLEAN
          /\ Len(p) < Len(m) /\ LeadsTo(text, FALSE, shown, p, b)
      BY <1>1, <2>1, <2>2, <2>3 DEF FilterInv, FilterTypeOK, Texts
    <2>5. Cut(text, FALSE) = shown \o Cut(p, b)
      BY <2>4, NoText DEF LeadsTo
    <2>6. Cut(p, b) = Visible(p, b)
      <3>1. m \in Texts /\ Len(m) \in Nat \ {0} /\ Len(p) \in Nat
        BY <2>3, <2>4, MarkerType, TextSeq
      <3>2. Found(p, m, Find(p, m))
        BY <2>4, <3>1, FindFinds
      <3>3. \A k \in Nat : ~Occurs(p, m, k)
        BY <2>4, <3>1 DEF Occurs
      <3>4. Find(p, m) = 0
        BY <3>2, <3>3 DEF Found
      <3>5. PICK i : i = Find(p, m)
        OBVIOUS
      <3>6. Unfolds(p, b, m, i)
        BY <2>3, <2>4, <3>5, CutUnfolds
      <3> QED
        BY <3>4, <3>5, <3>6 DEF Unfolds
    <2> QED
      BY <2>1, <2>2, <2>5, <2>6 DEF ThinkingIsRemoved, Flushed, Cut
  <1> QED
    BY <1>1, FilterFollowsReference, PTL
=============================================================================
