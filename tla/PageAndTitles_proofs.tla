------------------------ MODULE PageAndTitles_proofs ------------------------
(***************************************************************************)
(* From a page to sorted people: the safety properties of DirectoryPage,   *)
(* for every page, whatever its length, and those of TitleTranslation, for *)
(* every set of titles, languages and translations.  The assumptions of    *)
(* the two modules are independent, and neither part uses the other's.     *)
(*                                                                         *)
(* The page.  Gathering, merging and the choice of the longest name are    *)
(* shown by the least position at which they could fail (LeastNatural).    *)
(* What every reader finds is sound: each record is one entry's, and that  *)
(* entry is not of an excluded section, or its reader does not ask         *)
(* (Sound).  Joining and merging keep that, and a record of every key.  So *)
(* a stage keeps the people it was given, or replaces them by something    *)
(* (Advances), and the invariant PageInv follows.                          *)
(*                                                                         *)
(* The child: once the service has forgotten it, it is being ended, or it  *)
(* cannot be (Ending).  The titles: the cache maps a title read in a       *)
(* language to its own translation (CacheSound), and so does the crawl at  *)
(* every step at which it has a text; only titles the rules leave open get *)
(* that far (CrawlHolds).                                                  *)
(***************************************************************************)
EXTENDS DirectoryPage, TitleTranslation, FiniteSetTheorems, NaturalsInduction,
        SequenceTheorems, TLAPS

-----------------------------------------------------------------------------
(* Counting and induction.                                                 *)

\* Every set of naturals that is not empty has a least element: what the proofs below use
\* for induction, on the least counterexample.
LEMMA LeastNatural ==
    ASSUME NEW T, T \subseteq Nat, T # {}
    PROVE  \E n \in T : \A m \in T : n <= m
<1>1. IsWellFoundedOn(OpToRel(<, Nat), Nat)
  BY NatLessThanWellFounded
<1>2. PICK n \in T : \A m \in T : ~(<<m, n>> \in OpToRel(<, Nat))
  BY <1>1, WFMin
<1>3. \A m \in T : ~(m < n)
  BY <1>2 DEF OpToRel
<1> QED BY <1>3

\* The position of i among those of S.
Rank(S, i) == Cardinality({j \in S : j <= i})

LEMMA RankIsInjective ==
    ASSUME NEW S, IsFiniteSet(S), S \subseteq Nat
    PROVE  /\ Cardinality(S) \in Nat
           /\ \A i \in S : Rank(S, i) \in 1..Cardinality(S)
           /\ \A i, k \in S : Rank(S, i) = Rank(S, k) => i = k
<1> DEFINE Below(i) == {j \in S : j <= i}
<1>1. Cardinality(S) \in Nat
  BY FS_CardinalityType
<1>2. ASSUME NEW i \in S PROVE Rank(S, i) \in 1..Cardinality(S)
  <2>1. Below(i) \in SUBSET S /\ i \in Below(i)
    BY <1>2
  <2>2. IsFiniteSet(Below(i)) /\ Cardinality(Below(i)) <= Cardinality(S)
    BY <2>1, FS_Subset
  <2>3. Cardinality(Below(i)) \in Nat
    BY <2>2, FS_CardinalityType
  <2>4. Cardinality(Below(i)) # 0
    BY <2>1, <2>2, FS_EmptySet
  <2> QED BY <1>1, <2>2, <2>3, <2>4 DEF Rank
<1>3. ASSUME NEW i \in S, NEW k \in S, i < k PROVE Rank(S, i) # Rank(S, k)
  <2>1. /\ Below(k) \in SUBSET S /\ k \in Below(k) /\ k \notin Below(i)
        /\ Below(i) \in SUBSET Below(k)
    <3>1. i \in Nat /\ k \in Nat
      BY <1>3
    <3>2. \A j \in S : j \in Nat
      OBVIOUS
    <3>3. \A j \in Below(i) : j \in Below(k)
      BY <1>3, <3>1, <3>2
    <3>4. k \in Below(k) /\ k \notin Below(i)
      BY <1>3, <3>1
    <3> QED BY <3>3, <3>4
  <2>2. IsFiniteSet(Below(k))
    BY <2>1, FS_Subset
  <2>3. Cardinality(Below(k)) = Cardinality(Below(i)) => Below(k) = Below(i)
    BY <2>1, <2>2, FS_Subset
  <2> QED BY <2>1, <2>3 DEF Rank
<1>4. ASSUME NEW i \in S, NEW k \in S, Rank(S, i) = Rank(S, k) PROVE i = k
  <2>1. i \in Nat /\ k \in Nat /\ ~(i < k) /\ ~(k < i)
    BY <1>3, <1>4
  <2> QED BY <2>1
<1> QED BY <1>1, <1>2, <1>4

\* A position for every rank, and every position has one.
LEMMA OrderIsComplete ==
    ASSUME NEW S, IsFiniteSet(S), S \subseteq Nat
    PROVE  /\ Order(S) \in [1..Cardinality(S) -> S]
           /\ \A i \in S : \E k \in 1..Cardinality(S) : Order(S)[k] = i
<1> DEFINE n == Cardinality(S)
           rank == [i \in S |-> Rank(S, i)]
           ranks == {rank[i] : i \in S}
<1>1. /\ n \in Nat
      /\ \A i \in S : rank[i] \in 1..n
      /\ \A i, k \in S : rank[i] = rank[k] => i = k
  BY RankIsInjective
<1>2. ranks \in SUBSET (1..n)
  BY <1>1
<1>3. IsFiniteSet(1..n) /\ Cardinality(1..n) = n
  BY <1>1, FS_Interval
<1>4. IsFiniteSet(ranks) /\ Cardinality(ranks) <= n /\ (n = Cardinality(ranks) => 1..n = ranks)
  BY <1>2, <1>3, FS_Subset
<1>5. rank \in Injection(S, ranks)
  BY <1>1 DEF Injection, IsInjective
<1>6. Cardinality(S) <= Cardinality(ranks)
  BY <1>4, <1>5, FS_Injection
<1>7. 1..n = ranks
  <2>1. Cardinality(ranks) \in Nat
    BY <1>4, FS_CardinalityType
  <2> QED BY <1>1, <1>4, <1>6, <2>1
<1>8. ASSUME NEW k \in 1..n PROVE Order(S)[k] \in S /\ Rank(S, Order(S)[k]) = k
  <2>1. \E i \in S : rank[i] = k
    BY <1>7, <1>8
  <2>2. \E i \in S : Cardinality({j \in S : j <= i}) = k
    BY <2>1 DEF Rank
  <2>3. Order(S)[k] = CHOOSE i \in S : Cardinality({j \in S : j <= i}) = k
    BY <1>8 DEF Order
  <2> QED BY <2>2, <2>3 DEF Rank
<1>9. Order(S) \in [1..n -> S]
  BY <1>8 DEF Order
<1>10. ASSUME NEW i \in S PROVE Order(S)[Rank(S, i)] = i
  BY <1>1, <1>8, <1>10
<1> QED BY <1>1, <1>9, <1>10

\* What is gathered from f is a sequence of what f has, all of it.
LEMMA GatherIsComplete ==
    ASSUME NEW T, NEW f, IsFiniteSet(DOMAIN f), DOMAIN f \subseteq Nat,
           \A i \in DOMAIN f : f[i] \in T
    PROVE  /\ Gather(f) \in Seq(T) /\ Len(Gather(f)) = Cardinality(DOMAIN f)
           /\ \A k \in 1..Len(Gather(f)) : \E i \in DOMAIN f : Gather(f)[k] = f[i]
           /\ \A i \in DOMAIN f : \E k \in 1..Len(Gather(f)) : Gather(f)[k] = f[i]
<1> DEFINE D == DOMAIN f
           n == Cardinality(D)
           o == Order(D)
<1>1. n \in Nat
  BY FS_CardinalityType
<1>2. o \in [1..n -> D] /\ \A i \in D : \E k \in 1..n : o[k] = i
  BY OrderIsComplete
<1>3. Gather(f) = [k \in 1..n |-> f[o[k]]]
  BY DEF Gather
<1>4. Gather(f) \in [1..n -> T]
  BY <1>2, <1>3
<1>5. Gather(f) \in Seq(T) /\ Len(Gather(f)) = n
  BY <1>1, <1>4
<1>6. \A k \in 1..n : \E i \in D : Gather(f)[k] = f[i]
  BY <1>2, <1>3
<1>7. \A i \in D : \E k \in 1..n : Gather(f)[k] = f[i]
  BY <1>2, <1>3
<1> QED BY <1>5, <1>6, <1>7

-----------------------------------------------------------------------------
(* remove_duplicates.                                                      *)

Recorded == [name : Names, title : TitleKinds \cup {"section"},
             url : Urls \cup {NoUrl}, email : Emails \cup {NoEmail}]

\* The recursive definition has a solution, so that Merged(rs) is one.
LEMMA MergedSteps ==
    ASSUME NEW rs, Len(rs) \in Nat
    PROVE  Merged(rs) = [n \in 0..Len(rs) |->
                            IF n = 0 THEN <<>> ELSE Merge(Merged(rs)[n - 1], rs[n])]
<1> DEFINE Step(f, n) == [m \in 0..n |-> IF m = 0 THEN <<>> ELSE Merge(f[m - 1], rs[m])]
           Lacking == {n \in Nat : ~\E f : f = Step(f, n)}
<1>1. Lacking = {}
  <2>1. SUFFICES ASSUME Lacking # {} PROVE FALSE
    OBVIOUS
  <2>2. Lacking \subseteq Nat
    OBVIOUS
  <2>3. PICK n \in Lacking : \A m \in Lacking : n <= m
    <3> HIDE DEF Lacking
    <3> QED BY <2>1, <2>2, LeastNatural
  <2>4. CASE n = 0
    <3> DEFINE f == [m \in 0..0 |-> <<>>]
    <3>1. f = Step(f, 0)
      OBVIOUS
    <3> QED BY <2>3, <2>4, <3>1
  <2>5. CASE n # 0
    <3>1. n \in Nat /\ n - 1 \in Nat /\ n - 1 \notin Lacking
      BY <2>3, <2>5
    <3>2. PICK f : f = Step(f, n - 1)
      BY <3>1
    <3> DEFINE g == [m \in 0..n |-> IF m = n THEN Merge(f[n - 1], rs[n]) ELSE f[m]]
    <3>3. ASSUME NEW m \in 0..n PROVE g[m] = Step(g, n)[m]
      <4>1. CASE m = n
        BY <2>5, <3>1, <4>1
      <4>2. CASE m = 0
        BY <2>5, <3>1, <3>2, <4>2
      <4>3. CASE m # n /\ m # 0
        <5>1. m \in 0..(n - 1) /\ m - 1 \in 0..n /\ m - 1 # n
          BY <3>1, <4>3
        <5>2. g[m] = f[m] /\ f[m] = Merge(f[m - 1], rs[m])
          BY <3>2, <4>3, <5>1
        <5>3. g[m - 1] = f[m - 1]
          BY <5>1
        <5> QED BY <4>3, <5>2, <5>3
      <4> QED BY <4>1, <4>2, <4>3
    <3>4. g = Step(g, n)
      BY <3>3
    <3> QED BY <2>3, <3>4
  <2> QED BY <2>4, <2>5
<1>2. \E f : f = Step(f, Len(rs))
  BY <1>1
<1> QED BY <1>2 DEF Merged

\* Of two records with one key one is kept, and it has an address if one of them has.
LEMMA PreferredIsOne ==
    ASSUME NEW a \in Recorded, NEW b \in Recorded, KeyOf(a) = KeyOf(b)
    PROVE  /\ Preferred(a, b) \in {a, b}
           /\ (a.email # NoEmail \/ b.email # NoEmail) => Preferred(a, b).email # NoEmail
<1>1. a.url = NoUrl <=> b.url = NoUrl
  BY DEF KeyOf
<1>2. CASE a.email # NoEmail
  <2>1. Completeness(b) <= Completeness(a)
    BY <1>1, <1>2 DEF Completeness
  <2> QED BY <1>2, <2>1 DEF Preferred, Completeness
<1>3. CASE a.email = NoEmail /\ b.email # NoEmail
  <2>1. Completeness(b) > Completeness(a)
    BY <1>1, <1>3 DEF Completeness
  <2> QED BY <1>3, <2>1 DEF Preferred
<1>4. CASE a.email = NoEmail /\ b.email = NoEmail
  <2>1. ~(Completeness(b) > Completeness(a))
    BY <1>1, <1>4 DEF Completeness
  <2>2. [a EXCEPT !.email = NoEmail] = a
    BY <1>4 DEF Recorded
  <2> QED BY <1>4, <2>1, <2>2 DEF Preferred
<1> QED BY <1>2, <1>3, <1>4

\* What the result of merging the first n records of rs is: one record per key, each one of
\* them, with an address if one of its key has.
MergedWell(unique, rs, n) ==
    /\ unique \in Seq(Recorded)
    /\ \A j \in 1..Len(unique) : \E k \in 1..n : unique[j] = rs[k]
    /\ \A j, k \in 1..Len(unique) : KeyOf(unique[j]) = KeyOf(unique[k]) => j = k
    /\ \A k \in 1..n : \E j \in 1..Len(unique) :
          /\ KeyOf(unique[j]) = KeyOf(rs[k])
          /\ rs[k].email # NoEmail => unique[j].email # NoEmail

LEMMA MergeIsWell ==
    ASSUME NEW rs \in Seq(Recorded), NEW n \in 1..Len(rs), NEW unique,
           MergedWell(unique, rs, n - 1)
    PROVE  MergedWell(Merge(unique, rs[n]), rs, n)
<1> DEFINE r == rs[n]
           merged == Merge(unique, r)
<1>1. /\ unique \in Seq(Recorded) /\ Len(unique) \in Nat /\ DOMAIN unique = 1..Len(unique)
      /\ r \in Recorded /\ n \in Nat /\ n \in 1..n
      /\ \A k \in 1..(n - 1) : k \in 1..n
      /\ \A k \in 1..n : k \in 1..(n - 1) \/ k = n
      /\ \A j \in 1..Len(unique) : unique[j] \in Recorded
  BY DEF MergedWell
<1>2. CASE \E k \in DOMAIN unique : KeyOf(unique[k]) = KeyOf(r)
  <2> DEFINE One(k) == IF KeyOf(unique[k]) = KeyOf(r) THEN Preferred(unique[k], r) ELSE unique[k]
  <2>1. merged = [k \in 1..Len(unique) |-> One(k)]
    BY <1>1, <1>2 DEF Merge
  <2>2. ASSUME NEW k \in 1..Len(unique)
        PROVE  /\ One(k) \in {unique[k], r} /\ One(k) \in Recorded
               /\ KeyOf(One(k)) = KeyOf(unique[k])
               /\ unique[k].email # NoEmail => One(k).email # NoEmail
               /\ KeyOf(unique[k]) = KeyOf(r) /\ r.email # NoEmail => One(k).email # NoEmail
    <3>1. CASE KeyOf(unique[k]) = KeyOf(r)
      BY <1>1, <3>1, PreferredIsOne
    <3>2. CASE KeyOf(unique[k]) # KeyOf(r)
      BY <1>1, <3>2
    <3> QED BY <3>1, <3>2
  <2> HIDE DEF One
  <2>3. merged \in Seq(Recorded) /\ Len(merged) = Len(unique)
    BY <1>1, <2>1, <2>2
  <2>4. \A k \in 1..Len(unique) : merged[k] = One(k)
    BY <2>1
  <2> HIDE DEF merged
  <2>5. ASSUME NEW j \in 1..Len(merged) PROVE \E k \in 1..n : merged[j] = rs[k]
    <3>1. j \in 1..Len(unique) /\ merged[j] \in {unique[j], r}
      BY <2>2, <2>3, <2>4
    <3>2. PICK k \in 1..(n - 1) : unique[j] = rs[k]
      BY <3>1 DEF MergedWell
    <3> QED BY <1>1, <3>1, <3>2
  <2>6. \A j, k \in 1..Len(merged) : KeyOf(merged[j]) = KeyOf(merged[k]) => j = k
    BY <2>2, <2>3, <2>4 DEF MergedWell
  <2>7. ASSUME NEW k \in 1..n
        PROVE  \E j \in 1..Len(merged) : /\ KeyOf(merged[j]) = KeyOf(rs[k])
                                         /\ rs[k].email # NoEmail => merged[j].email # NoEmail
    <3>1. CASE k = n
      <4>1. PICK j \in 1..Len(unique) : KeyOf(unique[j]) = KeyOf(r)
        BY <1>1, <1>2
      <4> QED BY <2>2, <2>3, <2>4, <3>1, <4>1
    <3>2. CASE k \in 1..(n - 1)
      <4>1. PICK j \in 1..Len(unique) : /\ KeyOf(unique[j]) = KeyOf(rs[k])
                                        /\ rs[k].email # NoEmail => unique[j].email # NoEmail
        BY <3>2 DEF MergedWell
      <4> QED BY <2>2, <2>3, <2>4, <4>1
    <3> QED BY <1>1, <3>1, <3>2
  <2> QED BY <2>3, <2>5, <2>6, <2>7 DEF MergedWell, merged
<1>3. CASE ~\E k \in DOMAIN unique : KeyOf(unique[k]) = KeyOf(r)
  <2>1. merged = Append(unique, r)
    BY <1>3 DEF Merge
  <2>2. /\ merged \in Seq(Recorded) /\ Len(merged) = Len(unique) + 1
        /\ \A j \in 1..Len(unique) : merged[j] = unique[j]
        /\ merged[Len(unique) + 1] = r
    BY <1>1, <2>1, AppendProperties
  <2> HIDE DEF merged
  <2>3. \A j \in 1..Len(merged) : j \in 1..Len(unique) \/ j = Len(unique) + 1
    BY <1>1, <2>2
  <2>4. ASSUME NEW j \in 1..Len(merged) PROVE \E k \in 1..n : merged[j] = rs[k]
    <3>1. CASE j = Len(unique) + 1
      BY <1>1, <2>2, <3>1
    <3>2. CASE j \in 1..Len(unique)
      <4>1. PICK k \in 1..(n - 1) : unique[j] = rs[k]
        BY <3>2 DEF MergedWell
      <4> QED BY <1>1, <2>2, <3>2, <4>1
    <3> QED BY <2>3, <3>1, <3>2
  <2>5. \A j, k \in 1..Len(merged) : KeyOf(merged[j]) = KeyOf(merged[k]) => j = k
    BY <1>1, <1>3, <2>2, <2>3 DEF MergedWell
  <2>6. ASSUME NEW k \in 1..n
        PROVE  \E j \in 1..Len(merged) : /\ KeyOf(merged[j]) = KeyOf(rs[k])
                                         /\ rs[k].email # NoEmail => merged[j].email # NoEmail
    <3>1. CASE k = n
      <4>1. Len(unique) + 1 \in 1..Len(merged)
        BY <1>1, <2>2
      <4> QED BY <2>2, <3>1, <4>1
    <3>2. CASE k \in 1..(n - 1)
      <4>1. PICK j \in 1..Len(unique) : /\ KeyOf(unique[j]) = KeyOf(rs[k])
                                        /\ rs[k].email # NoEmail => unique[j].email # NoEmail
        BY <3>2 DEF MergedWell
      <4>2. j \in 1..Len(merged)
        BY <1>1, <2>2
      <4> QED BY <2>2, <4>1, <4>2
    <3> QED BY <1>1, <3>1, <3>2
  <2> QED BY <2>2, <2>4, <2>5, <2>6 DEF MergedWell, merged
<1> QED BY <1>2, <1>3

\* crawler/parsers.py, remove_duplicates: of any records, one of each key is left, no other
\* is made, and none without an address while one of its key has one.
THEOREM DuplicatesAreMerged ==
    ASSUME NEW rs \in Seq(Recorded)
    PROVE  MergedWell(RemoveDuplicates(rs), rs, Len(rs))
<1> DEFINE m == Merged(rs)
           Bad == {n \in 0..Len(rs) : ~MergedWell(m[n], rs, n)}
<1>1. Len(rs) \in Nat
  OBVIOUS
<1>2. \A n \in 0..Len(rs) : m[n] = IF n = 0 THEN <<>> ELSE Merge(m[n - 1], rs[n])
  <2>1. m = [n \in 0..Len(rs) |-> IF n = 0 THEN <<>> ELSE Merge(m[n - 1], rs[n])]
    BY <1>1, MergedSteps
  <2> HIDE DEF m
  <2> QED BY <2>1
<1> HIDE DEF m
<1>3. Bad = {}
  <2>1. SUFFICES ASSUME Bad # {} PROVE FALSE
    OBVIOUS
  <2>2. Bad \subseteq Nat
    BY <1>1
  <2>3. PICK n \in Bad : \A k \in Bad : n <= k
    <3> HIDE DEF Bad
    <3> QED BY <2>1, <2>2, LeastNatural
  <2>4. CASE n = 0
    <3>1. m[0] = <<>>
      BY <1>1, <1>2
    <3>2. MergedWell(<<>>, rs, 0)
      BY EmptySeq DEF MergedWell
    <3> QED BY <2>3, <2>4, <3>1, <3>2
  <2>5. CASE n # 0
    <3>1. n \in 1..Len(rs) /\ n - 1 \in 0..Len(rs) /\ n - 1 < n
      BY <1>1, <2>3, <2>5
    <3>2. MergedWell(m[n - 1], rs, n - 1)
      BY <2>3, <3>1
    <3>3. m[n] = Merge(m[n - 1], rs[n])
      BY <1>2, <2>5, <3>1
    <3>4. MergedWell(m[n], rs, n)
      BY <3>1, <3>2, <3>3, MergeIsWell
    <3> QED BY <2>3, <3>4
  <2> QED BY <2>4, <2>5
<1>4. MergedWell(m[Len(rs)], rs, Len(rs))
  BY <1>1, <1>3
<1> QED BY <1>4 DEF RemoveDuplicates, m

-----------------------------------------------------------------------------
(* What the readers read.                                                  *)

PageTyped == page \in Seq(Heading \cup Entry)

\* The readers that do not look at the section.
Unchecked == {"query", "subpage", "named", "headed", "website", "patterned", "embedded",
              "business"}
Admitted(i) == Section(i) = "excluded" => page[i].marks \cap Unchecked # {}
\* The link and the address a reader may give an entry.
Given(i, url) ==
    \/ page[i].url = url
    \/ /\ i \in Marked("named") \ Marked("linked")
       /\ \E j \in Wrapper(i) \cup Preceding(i) \cup Following(i) : page[j].url = url
Addressed(i, email) == email = NoEmail \/ \E j \in Wrapper(i) : page[j].email = email
OfEntry(r) ==
    \E i \in Entries :
        /\ page[i].name = r.name /\ Given(i, r.url) /\ Addressed(i, r.email)
        /\ Admitted(i)
Sound(rs) == rs \in Seq(Recorded) /\ \A r \in ToSet(rs) : OfEntry(r)

LEMMA EntriesTyped ==
    ASSUME PageTyped
    PROVE  /\ IsFiniteSet(Entries) /\ Entries \subseteq Nat
           /\ \A i \in Entries : i \in DOMAIN page /\ page[i] \in Entry
<1>1. Len(page) \in Nat /\ DOMAIN page = 1..Len(page) /\ \A i \in 1..Len(page) : page[i] \in Heading \cup Entry
  BY DEF PageTyped
<1>2. Entries \in SUBSET (1..Len(page))
  BY <1>1 DEF Entries
<1>3. IsFiniteSet(Entries)
  <2>1. IsFiniteSet(1..Len(page))
    BY <1>1, FS_Interval
  <2> QED BY <1>2, <2>1, FS_Subset
<1>4. \A i \in Entries : page[i] \in Entry
  BY <1>1, <1>2 DEF Entries, Heading
<1> QED BY <1>1, <1>2, <1>3, <1>4

\* The first of some positions is one of them.
LEMMA FirstIsOne ==
    ASSUME PageTyped, NEW S, S \subseteq Entries, S # {}
    PROVE  First(S) \in S
<1>1. S \subseteq Nat
  BY EntriesTyped
<1>2. \E i \in S : \A j \in S : i <= j
  BY <1>1, LeastNatural
<1> QED BY <1>2 DEF First

\* What is around an entry is of its wrapper, which it is itself part of.
LEMMA AroundIsOfWrapper ==
    ASSUME PageTyped, NEW i \in Entries
    PROVE  /\ i \in Wrapper(i) /\ Wrapper(i) \subseteq Entries
           /\ Addressed(i, EmailAround(i)) /\ EmailAround(i) \in Emails \cup {NoEmail}
           /\ Addressed(i, page[i].email)
           /\ TitleAround(i) \in TitleKinds
<1>1. i \in Wrapper(i)
  <2>1. i \in Nat /\ DOMAIN page \subseteq Nat
    BY EntriesTyped DEF PageTyped
  <2>2. \A k \in DOMAIN page : ~(i < k /\ k <= i)
    BY <2>1
  <2> QED BY <2>2 DEF Wrapper
<1>2. Wrapper(i) \subseteq Entries
  BY DEF Wrapper
<1>3. Addressed(i, page[i].email)
  BY <1>1 DEF Addressed
<1>4. Addressed(i, EmailAround(i)) /\ EmailAround(i) \in Emails \cup {NoEmail}
  <2> DEFINE told == {j \in Wrapper(i) : page[j].email # NoEmail}
  <2>1. EmailAround(i) = IF told = {} THEN NoEmail ELSE page[First(told)].email
    BY DEF EmailAround
  <2>2. CASE told = {}
    BY <2>1, <2>2 DEF Addressed
  <2>3. CASE told # {}
    <3>1. told \subseteq Entries /\ told \subseteq Wrapper(i)
      BY <1>2
    <3> HIDE DEF told
    <3>2. First(told) \in told /\ EmailAround(i) = page[First(told)].email
      BY <2>1, <2>3, <3>1, FirstIsOne
    <3>3. PICK j \in Wrapper(i) : EmailAround(i) = page[j].email
      BY <3>1, <3>2
    <3>4. page[j] \in Entry
      BY <1>2, <3>3, EntriesTyped
    <3> QED BY <3>3, <3>4 DEF Addressed, Entry
  <2> QED BY <2>2, <2>3
<1>5. TitleAround(i) \in TitleKinds
  <2> DEFINE told == {j \in Wrapper(i) : page[j].title \in Extracted}
  <2>1. TitleAround(i) = IF told = {} THEN "none" ELSE page[First(told)].title
    BY DEF TitleAround
  <2>2. CASE told = {}
    BY <2>1, <2>2 DEF TitleKinds
  <2>3. CASE told # {}
    <3>1. told \subseteq Entries /\ \A j \in told : page[j].title \in Extracted
      BY <1>2
    <3> HIDE DEF told
    <3>2. First(told) \in told /\ TitleAround(i) = page[First(told)].title
      BY <2>1, <2>3, <3>1, FirstIsOne
    <3> QED BY <3>1, <3>2 DEF Extracted, TitleKinds
  <2> QED BY <2>2, <2>3
<1> QED BY <1>1, <1>2, <1>3, <1>4, <1>5

LEMMA UrlInIsOne ==
    ASSUME PageTyped, NEW S, S \subseteq Entries, UrlIn(S) # NoUrl
    PROVE  \E j \in S : page[j].url = UrlIn(S)
<1> DEFINE linked == {j \in S : page[j].url # NoUrl}
<1>1. linked # {} /\ UrlIn(S) = page[First(linked)].url
  BY DEF UrlIn
<1>2. linked \subseteq Entries /\ linked \subseteq S
  OBVIOUS
<1> HIDE DEF linked
<1>3. First(linked) \in linked
  BY <1>1, <1>2, FirstIsOne
<1> QED BY <1>1, <1>2, <1>3

\* A name that is a heading is given its own link, or one from around it.
LEMMA LinkIsGiven ==
    ASSUME PageTyped, NEW i \in Marked("named"), UrlAround(i) # NoUrl
    PROVE  Given(i, UrlAround(i)) /\ UrlAround(i) \in Urls \cup {NoUrl}
<1>1. i \in Entries /\ \A j : Wrapper(j) \subseteq Entries
  BY DEF Marked, Wrapper
<1>2. Preceding(i) \subseteq Entries /\ Following(i) \subseteq Entries
  <2>1. ASSUME NEW x \in Preceding(i) \cup Following(i) PROVE \E j : x \in Wrapper(j)
    BY <2>1 DEF Preceding, Following
  <2> QED BY <1>1, <2>1
<1>3. CASE i \in Marked("linked")
  <2>1. UrlAround(i) = page[i].url /\ page[i] \in Entry
    BY <1>1, <1>3, EntriesTyped DEF UrlAround
  <2> QED BY <2>1 DEF Given, Entry
<1>4. CASE i \notin Marked("linked")
  <2>1. \/ UrlAround(i) = UrlIn(Wrapper(i)) /\ UrlIn(Wrapper(i)) # NoUrl
        \/ UrlAround(i) = UrlIn(Preceding(i)) /\ UrlIn(Preceding(i)) # NoUrl
        \/ UrlAround(i) = UrlIn(Following(i)) /\ UrlIn(Following(i)) # NoUrl
    BY <1>4 DEF UrlAround
  <2>2. \E j \in Wrapper(i) \cup Preceding(i) \cup Following(i) : page[j].url = UrlAround(i)
    BY <1>1, <1>2, <2>1, UrlInIsOne
  <2>3. PICK j \in Wrapper(i) \cup Preceding(i) \cup Following(i) : page[j].url = UrlAround(i)
    BY <2>2
  <2>4. page[j] \in Entry
    BY <1>1, <1>2, <2>3, EntriesTyped
  <2>5. Given(i, UrlAround(i))
    BY <1>4, <2>2 DEF Given
  <2> QED BY <2>3, <2>4, <2>5 DEF Entry
<1> QED BY <1>3, <1>4

LEMMA RecordIsOfEntry ==
    ASSUME PageTyped, NEW i \in Entries, NEW title \in TitleKinds \cup {"section"},
           NEW email \in {page[i].email, NoEmail, EmailAround(i)}, Admitted(i)
    PROVE  Record(page[i], title, email) \in Recorded /\ OfEntry(Record(page[i], title, email))
<1>1. page[i] \in Entry
  BY EntriesTyped
<1>2. email \in Emails \cup {NoEmail} /\ Addressed(i, email)
  <2>1. NoEmail \in Emails \cup {NoEmail} /\ Addressed(i, NoEmail)
    BY DEF Addressed
  <2> QED BY <1>1, <2>1, AroundIsOfWrapper DEF Entry
<1>3. Record(page[i], title, email) \in Recorded
  BY <1>1, <1>2 DEF Record, Recorded, Entry
<1>4. Given(i, page[i].url)
  BY DEF Given
<1>5. OfEntry(Record(page[i], title, email))
  BY <1>2, <1>4 DEF Record, OfEntry
<1> QED BY <1>3, <1>5

LEMMA GatherIsSound ==
    ASSUME PageTyped, NEW f, DOMAIN f \subseteq Entries,
           \A i \in DOMAIN f : f[i] \in Recorded /\ OfEntry(f[i])
    PROVE  Sound(Gather(f)) /\ (DOMAIN f # {} => Gather(f) # <<>>)
<1>1. IsFiniteSet(DOMAIN f) /\ DOMAIN f \subseteq Nat
  BY EntriesTyped, FS_Subset
<1>2. /\ Gather(f) \in Seq(Recorded) /\ Len(Gather(f)) = Cardinality(DOMAIN f)
      /\ \A k \in 1..Len(Gather(f)) : \E i \in DOMAIN f : Gather(f)[k] = f[i]
      /\ \A i \in DOMAIN f : \E k \in 1..Len(Gather(f)) : Gather(f)[k] = f[i]
  BY <1>1, GatherIsComplete
<1>3. Sound(Gather(f))
  BY <1>2 DEF Sound, ToSet
<1>4. DOMAIN f # {} => Gather(f) # <<>>
  BY <1>2, EmptySeq
<1> QED BY <1>3, <1>4

LEMMA ConcatIsSound ==
    ASSUME NEW rs, NEW qs, Sound(rs), Sound(qs)
    PROVE  /\ Sound(rs \o qs)
           /\ \A r \in ToSet(rs) \cup ToSet(qs) : r \in ToSet(rs \o qs)
<1>1. rs \in Seq(Recorded) /\ qs \in Seq(Recorded)
  BY DEF Sound
<1>2. /\ rs \o qs \in Seq(Recorded) /\ Len(rs) \in Nat /\ Len(qs) \in Nat
      /\ Len(rs \o qs) = Len(rs) + Len(qs)
      /\ \A i \in 1 .. Len(rs) + Len(qs) :
            (rs \o qs)[i] = IF i <= Len(rs) THEN rs[i] ELSE qs[i - Len(rs)]
  BY <1>1, ConcatProperties
<1>3. DOMAIN rs = 1..Len(rs) /\ DOMAIN qs = 1..Len(qs) /\ DOMAIN (rs \o qs) = 1..(Len(rs) + Len(qs))
  BY <1>1, <1>2
<1>4. ASSUME NEW r \in ToSet(rs \o qs) PROVE r \in ToSet(rs) \cup ToSet(qs)
  <2>1. PICK i \in 1..(Len(rs) + Len(qs)) : r = (rs \o qs)[i]
    BY <1>3, <1>4 DEF ToSet
  <2>2. CASE i <= Len(rs)
    BY <1>2, <1>3, <2>1, <2>2 DEF ToSet
  <2>3. CASE ~(i <= Len(rs))
    <3>1. i - Len(rs) \in DOMAIN qs /\ r = qs[i - Len(rs)]
      BY <1>2, <1>3, <2>1, <2>3
    <3> QED BY <3>1 DEF ToSet
  <2> QED BY <2>2, <2>3
<1>5. ASSUME NEW i \in 1..Len(rs) PROVE rs[i] \in ToSet(rs \o qs)
  <2>1. i \in DOMAIN (rs \o qs) /\ (rs \o qs)[i] = rs[i]
    BY <1>2, <1>3, <1>5
  <2> QED BY <2>1 DEF ToSet
<1>6. ASSUME NEW i \in 1..Len(qs) PROVE qs[i] \in ToSet(rs \o qs)
  <2>1. i + Len(rs) \in DOMAIN (rs \o qs) /\ (rs \o qs)[i + Len(rs)] = qs[i]
    BY <1>2, <1>3, <1>6
  <2> QED BY <2>1 DEF ToSet
<1>7. Sound(rs \o qs)
  BY <1>2, <1>4 DEF Sound
<1>8. \A r \in ToSet(rs) \cup ToSet(qs) : r \in ToSet(rs \o qs)
  BY <1>3, <1>5, <1>6 DEF ToSet
<1> QED BY <1>7, <1>8

LEMMA MergedIsSound ==
    ASSUME NEW rs, Sound(rs)
    PROVE  /\ Sound(RemoveDuplicates(rs))
           /\ \A r \in ToSet(rs) : \E q \in ToSet(RemoveDuplicates(rs)) : KeyOf(q) = KeyOf(r)
           /\ rs # <<>> => RemoveDuplicates(rs) # <<>>
<1> DEFINE out == RemoveDuplicates(rs)
<1>1. rs \in Seq(Recorded) /\ DOMAIN rs = 1..Len(rs) /\ Len(rs) \in Nat
  BY DEF Sound
<1>2. MergedWell(out, rs, Len(rs))
  BY <1>1, DuplicatesAreMerged
<1> HIDE DEF out
<1>3. out \in Seq(Recorded) /\ DOMAIN out = 1..Len(out)
  BY <1>2 DEF MergedWell
<1>4. \A q \in ToSet(out) : q \in ToSet(rs)
  BY <1>1, <1>2, <1>3 DEF MergedWell, ToSet
<1>5. Sound(out)
  BY <1>3, <1>4 DEF Sound
<1>6. \A r \in ToSet(rs) : \E q \in ToSet(out) : KeyOf(q) = KeyOf(r)
  BY <1>1, <1>2, <1>3 DEF MergedWell, ToSet
<1>7. ASSUME rs # <<>> PROVE out # <<>>
  <2>1. 1 \in DOMAIN rs
    BY <1>1, <1>7, EmptySeq
  <2>2. PICK q \in ToSet(out) : TRUE
    BY <1>6, <2>1 DEF ToSet
  <2> QED BY <1>3, <2>2, EmptySeq DEF ToSet
<1> QED BY <1>5, <1>6, <1>7 DEF out

LEMMA MarkedAreEntries ==
    /\ \A mark : Marked(mark) \subseteq Entries /\ Visible(mark) \subseteq Marked(mark)
    /\ \A S : FirstOfUrl(S) \subseteq S
BY DEF Marked, Visible, FirstOfUrl

\* An entry that is not excluded is not of an excluded section.
LEMMA IncludedIsAdmitted ==
    ASSUME NEW i, NEW title, ~Excluded(i, title)
    PROVE  Admitted(i)
BY DEF Excluded, Admitted

\* A mark that stands for such a reader.
LEMMA UncheckedIsAdmitted ==
    ASSUME NEW mark \in Unchecked, NEW i \in Marked(mark)
    PROVE  Admitted(i)
BY DEF Admitted, Marked

LEMMA ContainersAreSound ==
    ASSUME PageTyped
    PROVE  /\ Sound(ContainerRecords)
           /\ (\E i \in Linked \ Rows : CardIsRead(i)) => ContainerRecords # <<>>
<1> DEFINE read == {i \in Containers \ Marked("hidden") : IF i \in Rows THEN RowIsRead(i) ELSE CardIsRead(i)}
           f == [i \in read |-> ContainerRecord(i)]
<1>1. ContainerRecords = Gather(f)
  BY DEF ContainerRecords
<1>2. /\ Linked \subseteq Entries /\ Linked \cap Marked("hidden") = {}
      /\ read \subseteq Entries
  BY MarkedAreEntries DEF Containers, Rows, Linked, Signalled, Visible
<1>3. ASSUME NEW i \in read PROVE f[i] \in Recorded /\ OfEntry(f[i])
  <2>1. i \in Entries /\ page[i].title \in TitleKinds
    BY <1>2, <1>3, EntriesTyped DEF Entry
  <2>2. CardTitle(i) \in TitleKinds
    BY <2>1, AroundIsOfWrapper DEF CardTitle
  <2>3. Admitted(i)
    <3>1. CASE i \in Rows
      BY <1>3, <3>1, IncludedIsAdmitted DEF RowIsRead
    <3>2. CASE i \notin Rows /\ i \in Marked("tr")
      BY <1>3, <3>2, IncludedIsAdmitted DEF CardIsRead, TableRowIsRead
    <3>3. CASE i \in Marked("business")
      BY <3>3, UncheckedIsAdmitted DEF Unchecked
    <3>4. CASE i \notin Rows \cup Marked("tr") \cup Marked("business")
      BY <1>3, <3>4, IncludedIsAdmitted DEF CardIsRead
    <3> QED BY <3>1, <3>2, <3>3, <3>4
  <2>4. \/ f[i] = Record(page[i], page[i].title, NoEmail)
        \/ f[i] = Record(page[i], CardTitle(i), EmailAround(i))
        \/ f[i] = Record(page[i], CardTitle(i), page[i].email)
    BY <1>3 DEF ContainerRecord
  <2> QED BY <2>1, <2>2, <2>3, <2>4, RecordIsOfEntry
<1>4. ASSUME NEW i \in Linked \ Rows, CardIsRead(i) PROVE i \in read
  BY <1>2, <1>4 DEF Containers
<1> HIDE DEF read
<1>5. Sound(Gather(f)) /\ (read # {} => Gather(f) # <<>>)
  BY <1>2, <1>3, GatherIsSound
<1> QED BY <1>1, <1>4, <1>5

LEMMA StrongIsSound ==
    ASSUME PageTyped
    PROVE  Sound(StrongRecords)
<1> DEFINE read == {j \in Marked("strong") : StrongIsRead(j)}
           f == [i \in read |-> Strong(i)]
<1>1. ASSUME NEW i \in read PROVE f[i] \in Recorded /\ OfEntry(f[i])
  <2>1. i \in Entries /\ page[i].title \in TitleKinds /\ ~Excluded(i, page[i].title)
    BY <1>1, EntriesTyped, MarkedAreEntries DEF Entry, StrongIsRead
  <2> QED BY <1>1, <2>1, IncludedIsAdmitted, RecordIsOfEntry DEF Strong
<1>2. read \subseteq Entries
  BY MarkedAreEntries
<1> HIDE DEF read
<1> QED BY <1>1, <1>2, GatherIsSound DEF StrongRecords, read

LEMMA RolesAreSound ==
    ASSUME PageTyped
    PROVE  Sound(RoleRecords)
<1> DEFINE read == {j \in Marked("query") : Active({2, 3}, j) = "ruolo"}
           f == [i \in read |-> Record(page[i], "academic", EmailAround(i))]
<1>1. ASSUME NEW i \in read PROVE f[i] \in Recorded /\ OfEntry(f[i])
  <2>1. i \in Entries /\ Admitted(i)
    BY <1>1, MarkedAreEntries, UncheckedIsAdmitted DEF Unchecked
  <2> QED BY <1>1, <2>1, RecordIsOfEntry DEF TitleKinds
<1>2. read \subseteq Entries
  BY MarkedAreEntries
<1> HIDE DEF read
<1> QED BY <1>1, <1>2, GatherIsSound DEF RoleRecords, read

\* The people of these readers stand in no excluded section.
LEMMA ChairsAreSound ==
    ASSUME PageTyped
    PROVE  Sound(ChairRecords)
<1> DEFINE read == {i \in FirstOfUrl({j \in Visible("titled") : Section(j) = "chair"}) : page[i].url # NoUrl}
           f == [i \in read |-> Academic(i)]
<1>1. ASSUME NEW i \in read PROVE f[i] \in Recorded /\ OfEntry(f[i])
  <2>1. i \in Visible("titled") /\ Section(i) = "chair"
    BY <1>1 DEF FirstOfUrl
  <2>2. i \in Entries /\ Admitted(i)
    BY <2>1, MarkedAreEntries DEF Admitted
  <2> QED BY <1>1, <2>2, RecordIsOfEntry DEF Academic, TitleKinds
<1>2. read \subseteq Entries
  BY MarkedAreEntries DEF FirstOfUrl
<1> HIDE DEF read
<1> QED BY <1>1, <1>2, GatherIsSound DEF ChairRecords, read

LEMMA SegmentsAreSound ==
    ASSUME PageTyped
    PROVE  Sound(SegmentRecords)
<1> DEFINE read == {i \in Wrapped : /\ Section(i) # "excluded"
                                   /\ page[i].title \notin {"emeritus", "staff"}
                                   /\ SelectedTitle(i) \in {"academic", "honorific"}}
           f == [i \in read |-> Record(page[i], SelectedTitle(i), page[i].email)]
<1>1. ASSUME NEW i \in read PROVE f[i] \in Recorded /\ OfEntry(f[i])
  <2>1. i \in Entries /\ Admitted(i) /\ SelectedTitle(i) \in TitleKinds
    BY <1>1, MarkedAreEntries DEF Wrapped, Admitted, TitleKinds
  <2> QED BY <1>1, <2>1, RecordIsOfEntry
<1>2. read \subseteq Entries
  BY MarkedAreEntries DEF Wrapped
<1> HIDE DEF read
<1> QED BY <1>1, <1>2, GatherIsSound DEF SegmentRecords, read

LEMMA HeadedAreSound ==
    ASSUME PageTyped
    PROVE  Sound(HeadedRecords)
<1> DEFINE read == {i \in Headed : page[i].title \in {"academic", "emeritus"} /\ page[i].url # NoUrl}
           f == [i \in read |-> Own(i)]
<1>1. ASSUME NEW i \in read PROVE f[i] \in Recorded /\ OfEntry(f[i])
  <2>1. i \in Entries /\ Admitted(i) /\ page[i].title \in TitleKinds
    BY <1>1, MarkedAreEntries, UncheckedIsAdmitted DEF Headed, Unchecked, TitleKinds
  <2> QED BY <1>1, <2>1, RecordIsOfEntry DEF Own
<1>2. read \subseteq Entries
  BY MarkedAreEntries DEF Headed
<1> HIDE DEF read
<1> QED BY <1>1, <1>2, GatherIsSound DEF HeadedRecords, read

LEMMA TeasersAreSound ==
    ASSUME PageTyped
    PROVE  Sound(TeaserRecords)
<1> DEFINE read == FirstOfUrl(Teasers)
           f == [i \in read |-> Unaddressed(i)]
<1>1. ASSUME NEW i \in read PROVE f[i] \in Recorded /\ OfEntry(f[i])
  <2>1. i \in Teasers
    BY <1>1, MarkedAreEntries
  <2>2. i \in Entries /\ Admitted(i) /\ page[i].title \in TitleKinds
    BY <2>1, MarkedAreEntries, IncludedIsAdmitted DEF Teasers, TitleKinds
  <2> QED BY <1>1, <2>2, RecordIsOfEntry DEF Unaddressed
<1>2. read \subseteq Entries
  BY MarkedAreEntries DEF Teasers
<1> HIDE DEF read
<1>3. Sound(Gather(f))
  BY <1>1, <1>2, GatherIsSound
<1>4. Sound(<<>>)
  BY EmptySeq DEF Sound, ToSet
<1> QED BY <1>3, <1>4 DEF TeaserRecords, read

LEMMA SectionsAreSound ==
    ASSUME PageTyped
    PROVE  Sound(SectionRecords)
<1> DEFINE all == FirstOfUrl({i \in Visible("person") : Section(i) = "fulltime"})
           HeadingOf(i) == Greatest({j \in 1..i : page[j].kind = "heading"})
           read == {i \in all : \E j \in all : i # j /\ HeadingOf(i) = HeadingOf(j)}
           TitleOf(i) == IF page[i].title \in {"academic", "emeritus"} THEN page[i].title
                         ELSE IF TitleAround(i) \in {"academic", "emeritus"} THEN TitleAround(i)
                         ELSE "section"
           EmailOf(i) == IF page[i].email # NoEmail THEN page[i].email ELSE EmailAround(i)
           f == [i \in read |-> Record(page[i], TitleOf(i), EmailOf(i))]
<1>1. ASSUME NEW i \in read PROVE f[i] \in Recorded /\ OfEntry(f[i])
  <2>1. i \in Visible("person") /\ Section(i) = "fulltime"
    BY <1>1 DEF FirstOfUrl
  <2>2. i \in Entries /\ Admitted(i) /\ TitleOf(i) \in TitleKinds \cup {"section"}
    BY <2>1, MarkedAreEntries DEF Admitted, TitleKinds
  <2>3. EmailOf(i) \in {page[i].email, NoEmail, EmailAround(i)}
    OBVIOUS
  <2> HIDE DEF TitleOf, EmailOf
  <2> QED BY <1>1, <2>2, <2>3, RecordIsOfEntry
<1>2. read \subseteq Entries
  BY MarkedAreEntries DEF FirstOfUrl
<1>3. SectionRecords = Gather(f)
  BY DEF SectionRecords
<1> HIDE DEF read, TitleOf, EmailOf
<1> QED BY <1>1, <1>2, <1>3, GatherIsSound

LEMMA EmbeddedAreSound ==
    ASSUME PageTyped
    PROVE  Sound(EmbeddedRecords)
<1> DEFINE read == {i \in Marked("embedded") : page[i].title # "none" /\ page[i].url # NoUrl}
           f == [i \in read |-> Own(i)]
<1>1. ASSUME NEW i \in read PROVE f[i] \in Recorded /\ OfEntry(f[i])
  <2>1. i \in Entries /\ Admitted(i) /\ page[i].title \in TitleKinds
    BY <1>1, EntriesTyped, MarkedAreEntries, UncheckedIsAdmitted DEF Unchecked, Entry
  <2> QED BY <1>1, <2>1, RecordIsOfEntry DEF Own
<1>2. read \subseteq Entries
  BY MarkedAreEntries
<1> HIDE DEF read
<1> QED BY <1>1, <1>2, GatherIsSound DEF EmbeddedRecords, read

LEMMA PatternedAreSound ==
    ASSUME PageTyped
    PROVE  Sound(PatternedRecords)
<1> DEFINE read == {i \in Patterned : page[i].title \in {"academic", "emeritus"}}
           f == [i \in read |-> Unaddressed(i)]
<1>0. Patterned \subseteq Visible("patterned")
  BY MarkedAreEntries DEF Patterned
<1>1. ASSUME NEW i \in read PROVE f[i] \in Recorded /\ OfEntry(f[i])
  <2>1. i \in Entries /\ Admitted(i) /\ page[i].title \in TitleKinds
    BY <1>0, <1>1, MarkedAreEntries, UncheckedIsAdmitted DEF Unchecked, TitleKinds
  <2> QED BY <1>1, <2>1, RecordIsOfEntry DEF Unaddressed
<1>2. read \subseteq Entries
  BY <1>0, MarkedAreEntries
<1> HIDE DEF read
<1> QED BY <1>1, <1>2, GatherIsSound DEF PatternedRecords, read

LEMMA NamedAreSound ==
    ASSUME PageTyped
    PROVE  Sound(NamedRecords)
<1> DEFINE read == {i \in NamedPeople : UrlAround(i) # NoUrl /\ TitleAround(i) \in Extracted}
           Around(i) == [page[i] EXCEPT !.url = UrlAround(i)]
           f == [i \in read |-> Record(Around(i), TitleAround(i), EmailAround(i))]
<1>0. NamedPeople \subseteq Visible("named")
  BY DEF NamedPeople
<1>1. ASSUME NEW i \in read PROVE f[i] \in Recorded /\ OfEntry(f[i])
  <2>1. i \in Marked("named") /\ i \in Entries /\ Admitted(i) /\ page[i] \in Entry
    BY <1>0, <1>1, EntriesTyped, MarkedAreEntries, UncheckedIsAdmitted DEF Unchecked
  <2>2. Given(i, UrlAround(i)) /\ UrlAround(i) \in Urls \cup {NoUrl}
    BY <1>1, <2>1, LinkIsGiven
  <2>3. /\ Addressed(i, EmailAround(i)) /\ EmailAround(i) \in Emails \cup {NoEmail}
        /\ TitleAround(i) \in TitleKinds
    BY <2>1, AroundIsOfWrapper
  <2>4. f[i] = [name |-> page[i].name, title |-> TitleAround(i), url |-> UrlAround(i),
                email |-> EmailAround(i)]
    BY <1>1, <2>1 DEF Record, Entry
  <2>5. f[i] \in Recorded
    BY <2>1, <2>2, <2>3, <2>4 DEF Recorded, Entry
  <2> HIDE DEF f
  <2>6. OfEntry(f[i])
    BY <2>1, <2>2, <2>3, <2>4 DEF OfEntry
  <2> QED BY <2>5, <2>6
<1>2. read \subseteq Entries
  BY <1>0, MarkedAreEntries
<1>3. NamedRecords = Gather(f)
  BY DEF NamedRecords
<1> HIDE DEF read
<1> QED BY <1>1, <1>2, <1>3, GatherIsSound

LEMMA LinksAreSound ==
    ASSUME PageTyped, NEW strong \in BOOLEAN
    PROVE  Sound(LinkRecords(strong))
<1> DEFINE read == {i \in Entries : LinkIsRead(i) /\ (i \in Marked("strong")) = strong}
           f == [i \in read |-> IF strong THEN Strong(i) ELSE Unaddressed(i)]
<1>1. ASSUME NEW i \in read PROVE f[i] \in Recorded /\ OfEntry(f[i])
  <2>1. i \in Entries /\ ~Excluded(i, page[i].title)
    BY <1>1 DEF LinkIsRead, StrongIsRead
  <2>2. page[i].title \in TitleKinds
    BY <2>1, EntriesTyped DEF Entry
  <2>3. Strong(i) \in Recorded /\ OfEntry(Strong(i)) /\ Unaddressed(i) \in Recorded /\ OfEntry(Unaddressed(i))
    BY <2>1, <2>2, IncludedIsAdmitted, RecordIsOfEntry DEF Strong, Unaddressed
  <2> QED BY <1>1, <2>3
<1>2. read \subseteq Entries
  OBVIOUS
<1>3. LinkRecords(strong) = RemoveDuplicates(Gather(f))
  BY DEF LinkRecords
<1> HIDE DEF read
<1>4. Sound(Gather(f))
  BY <1>1, <1>2, GatherIsSound
<1> QED BY <1>3, <1>4, MergedIsSound

LEMMA AccordionIsSound ==
    ASSUME PageTyped
    PROVE  Sound(AccordionRecords)
<1> DEFINE read == {j \in Accordion : AccordionIsRead(j)}
           f == [i \in read |-> Academic(i)]
<1>0. Accordion \subseteq Marked("website")
  BY DEF Accordion
<1>1. ASSUME NEW i \in read PROVE f[i] \in Recorded /\ OfEntry(f[i])
  <2>1. i \in Entries /\ Admitted(i)
    BY <1>0, <1>1, MarkedAreEntries, UncheckedIsAdmitted DEF Unchecked
  <2> QED BY <1>1, <2>1, RecordIsOfEntry DEF Academic, TitleKinds
<1>2. read \subseteq Entries
  BY <1>0, MarkedAreEntries
<1> HIDE DEF read
<1> QED BY <1>1, <1>2, GatherIsSound DEF AccordionRecords, read

\* Of finitely many positions with a width there is a first of the widest.
LEMMA WidestExists ==
    ASSUME NEW S, IsFiniteSet(S), S \subseteq Nat, S # {}, NEW w, \A j \in S : w[j] \in Nat
    PROVE  \E j \in S : \A k \in S : w[j] > w[k] \/ (w[j] = w[k] /\ j <= k)
<1> DEFINE Wins(k, j) == w[k] > w[j] \/ (w[k] = w[j] /\ k < j)
           Wider(j) == {k \in S : Wins(k, j)}
           counts == {Cardinality(Wider(j)) : j \in S}
<1>1. \A j \in S : IsFiniteSet(Wider(j)) /\ Cardinality(Wider(j)) \in Nat
  <2> SUFFICES ASSUME NEW j \in S PROVE IsFiniteSet(Wider(j)) /\ Cardinality(Wider(j)) \in Nat
    OBVIOUS
  <2>1. Wider(j) \in SUBSET S
    OBVIOUS
  <2>2. IsFiniteSet(Wider(j))
    BY <2>1, FS_Subset
  <2> QED BY <2>2, FS_CardinalityType
<1>2. counts \subseteq Nat /\ counts # {}
  BY <1>1
<1>3. PICK c \in counts : \A d \in counts : c <= d
  <2> HIDE DEF counts
  <2> QED BY <1>2, LeastNatural
<1>4. PICK j \in S : c = Cardinality(Wider(j))
  BY <1>3
<1>5. Wider(j) = {}
  <2>1. SUFFICES ASSUME NEW k \in S, Wins(k, j) PROVE FALSE
    OBVIOUS
  <2>2. /\ j \in Nat /\ k \in Nat /\ w[j] \in Nat /\ w[k] \in Nat
        /\ \A l \in S : l \in Nat /\ w[l] \in Nat
    BY <1>4
  <2>3. \A l \in S : Wins(l, k) => Wins(l, j)
    BY <2>1, <2>2
  <2>4. Wider(k) \in SUBSET Wider(j) /\ k \in Wider(j) /\ k \notin Wider(k)
    <3>1. Wider(k) \in SUBSET Wider(j)
      BY <2>3
    <3>2. k \in Wider(j) /\ ~Wins(k, k)
      BY <2>1, <2>2
    <3>3. k \notin Wider(k)
      BY <3>2
    <3> QED BY <3>1, <3>2, <3>3
  <2> HIDE DEF Wider
  <2>5. Cardinality(Wider(k)) <= Cardinality(Wider(j)) /\ Cardinality(Wider(k)) # Cardinality(Wider(j))
    BY <1>1, <1>4, <2>4, FS_Subset
  <2>6. Cardinality(Wider(j)) <= Cardinality(Wider(k))
    BY <1>3, <1>4
  <2> QED BY <1>1, <1>4, <2>5, <2>6
<1>6. \A k \in S : w[j] > w[k] \/ (w[j] = w[k] /\ j <= k)
  <2> SUFFICES ASSUME NEW k \in S PROVE w[j] > w[k] \/ (w[j] = w[k] /\ j <= k)
    OBVIOUS
  <2>1. ~Wins(k, j)
    BY <1>5
  <2> QED BY <1>4, <2>1
<1> QED BY <1>4, <1>6

LEMMA ListingIsSound ==
    ASSUME PageTyped
    PROVE  Sound(ListingRecords)
<1> DEFINE links == {i \in Marked("subpage") : Active({4, 5}, i) \in Roles}
           firsts == {i \in FirstOfUrl(links) : Active({4, 5}, i) # "emeriti"}
           Called(i) == CHOOSE j \in {j \in links : page[j].url = page[i].url} :
                            \A k \in links : page[k].url = page[i].url =>
                                \/ Width[page[j].name] > Width[page[k].name]
                                \/ Width[page[j].name] = Width[page[k].name] /\ j <= k
           f == [i \in firsts |-> Record(page[Called(i)], "academic", NoEmail)]
<1>1. links \subseteq Entries /\ firsts \subseteq links /\ \A j \in links : Admitted(j)
  BY MarkedAreEntries, UncheckedIsAdmitted DEF Unchecked
<1>2. ASSUME NEW i \in firsts PROVE Called(i) \in links
  <2> DEFINE same == {j \in links : page[j].url = page[i].url}
             w == [j \in links |-> Width[page[j].name]]
  <2>1. IsFiniteSet(same) /\ same \subseteq Nat /\ same # {}
    <3>1. same \in SUBSET Entries /\ i \in same
      BY <1>1, <1>2
    <3> QED BY <3>1, EntriesTyped, FS_Subset
  <2>2. \A j \in same : w[j] \in Nat /\ w[j] = Width[page[j].name]
    BY <1>1, EntriesTyped, PageAssumption DEF Entry
  <2>3. \E j \in same : \A k \in same : w[j] > w[k] \/ (w[j] = w[k] /\ j <= k)
    <3> HIDE DEF same, w
    <3> QED BY <2>1, <2>2, WidestExists
  <2> HIDE DEF links
  <2>4. PICK j \in same : \A k \in links : page[k].url = page[i].url =>
                                \/ Width[page[j].name] > Width[page[k].name]
                                \/ Width[page[j].name] = Width[page[k].name] /\ j <= k
    BY <2>2, <2>3
  <2>5. Called(i) \in same
    BY <2>4
  <2> QED BY <2>5
<1>3. ASSUME NEW i \in firsts PROVE f[i] \in Recorded /\ OfEntry(f[i])
  <2> DEFINE j == Called(i)
  <2>1. j \in Entries /\ Admitted(j)
    BY <1>1, <1>2, <1>3
  <2>2. f[i] = Record(page[j], "academic", NoEmail)
    BY <1>3
  <2> HIDE DEF j
  <2> QED BY <2>1, <2>2, RecordIsOfEntry DEF TitleKinds
<1>4. firsts \subseteq Entries
  BY <1>1
<1>5. ListingRecords = Gather(f)
  BY DEF ListingRecords
<1> HIDE DEF firsts, Called
<1> QED BY <1>3, <1>4, <1>5, GatherIsSound

LEMMA PendingAreSound ==
    ASSUME PageTyped
    PROVE  PendingRecords \in Seq(Recorded)
<1> DEFINE containers == {"card", "business", "row", "tr", "listed"}
           open == {i \in UNION {Visible(mark) : mark \in containers} :
                        /\ Section(i) \in {"faculty", "fulltime", "professors", "chair"}
                        /\ page[i].title \in {"none", "honorific"} /\ page[i].url # NoUrl}
           f == [i \in FirstOfUrl(open) |-> Own(i)]
<1>1. FirstOfUrl(open) \subseteq Entries /\ \A i \in FirstOfUrl(open) : Section(i) # "excluded"
  BY MarkedAreEntries DEF FirstOfUrl
<1>2. ASSUME NEW i \in FirstOfUrl(open) PROVE f[i] \in Recorded /\ OfEntry(f[i])
  <2>1. i \in Entries /\ Admitted(i) /\ page[i].title \in TitleKinds
    BY <1>1, <1>2, EntriesTyped DEF Admitted, Entry
  <2> QED BY <1>2, <2>1, RecordIsOfEntry DEF Own
<1>3. PendingRecords = Gather(f)
  BY DEF PendingRecords
<1> HIDE DEF open
<1> QED BY <1>1, <1>2, <1>3, GatherIsSound DEF Sound

\* Records at some positions of a sequence.
LEMMA ChosenAreSome ==
    ASSUME NEW rs \in Seq(Recorded), NEW S \in SUBSET DOMAIN rs
    PROVE  /\ Gather([k \in S |-> rs[k]]) \in Seq(Recorded)
           /\ ToSet(Gather([k \in S |-> rs[k]])) = {rs[k] : k \in S}
<1> DEFINE f == [k \in S |-> rs[k]]
<1>1. S \in SUBSET (1..Len(rs)) /\ Len(rs) \in Nat
  OBVIOUS
<1>2. IsFiniteSet(1..Len(rs))
  BY <1>1, FS_Interval
<1>3. IsFiniteSet(S) /\ S \subseteq Nat
  BY <1>1, <1>2, FS_Subset
<1>4. DOMAIN f = S /\ \A k \in S : f[k] \in Recorded /\ f[k] = rs[k]
  BY <1>1
<1> HIDE DEF f
<1>5. /\ Gather(f) \in Seq(Recorded)
      /\ \A k \in 1..Len(Gather(f)) : \E i \in DOMAIN f : Gather(f)[k] = f[i]
      /\ \A i \in DOMAIN f : \E k \in 1..Len(Gather(f)) : Gather(f)[k] = f[i]
  BY <1>3, <1>4, GatherIsComplete
<1>6. DOMAIN Gather(f) = 1..Len(Gather(f))
  BY <1>5
<1>7. ToSet(Gather(f)) = {Gather(f)[k] : k \in 1..Len(Gather(f))}
  BY <1>6 DEF ToSet
<1>8. \A r \in ToSet(Gather(f)) : r \in {rs[k] : k \in S}
  BY <1>4, <1>5, <1>7
<1>9. \A k \in S : rs[k] \in ToSet(Gather(f))
  BY <1>4, <1>5, <1>7
<1>10. ToSet(Gather(f)) = {rs[k] : k \in S}
  BY <1>8, <1>9
<1> QED BY <1>5, <1>10 DEF f

-----------------------------------------------------------------------------
(* The cascade.                                                            *)

Kept(rs, qs) == \A r \in ToSet(rs) : \E q \in ToSet(qs) : KeyOf(q) = KeyOf(r)

LEMMA KeptIsNotEmpty ==
    ASSUME NEW rs, NEW qs, Sound(rs), Sound(qs), Kept(rs, qs), rs # <<>>
    PROVE  qs # <<>>
<1>1. rs \in Seq(Recorded) /\ DOMAIN rs = 1..Len(rs) /\ 1 \in DOMAIN rs
  BY EmptySeq DEF Sound
<1>2. qs \in Seq(Recorded) /\ DOMAIN qs = 1..Len(qs)
  BY DEF Sound
<1>3. PICK q \in ToSet(qs) : TRUE
  BY <1>1 DEF Kept, ToSet
<1> QED BY <1>2, <1>3, EmptySeq DEF ToSet

LEMMA NothingIsSound == Sound(<<>>) /\ \A qs : Kept(<<>>, qs)
BY EmptySeq DEF Sound, Kept, ToSet

\* Records put before or after others, and merged with them.
LEMMA JoinedAreKept ==
    ASSUME NEW rs, NEW qs, Sound(rs), Sound(qs)
    PROVE  /\ Sound(RemoveDuplicates(rs \o qs))
           /\ Kept(rs, RemoveDuplicates(rs \o qs)) /\ Kept(qs, RemoveDuplicates(rs \o qs))
<1>1. Sound(rs \o qs) /\ \A r \in ToSet(rs) \cup ToSet(qs) : r \in ToSet(rs \o qs)
  BY ConcatIsSound
<1>2. /\ Sound(RemoveDuplicates(rs \o qs))
      /\ \A r \in ToSet(rs \o qs) : \E q \in ToSet(RemoveDuplicates(rs \o qs)) : KeyOf(q) = KeyOf(r)
  BY <1>1, MergedIsSound
<1> QED BY <1>1, <1>2 DEF Kept

\* A page that has a container to be read, and no accordion.
Readable == Accordion = {} /\ \E i \in Linked \ Rows : CardIsRead(i)

PageInv ==
    /\ PageTyped
    /\ Sound(records)
    /\ pending \in Seq(Recorded)
    /\ segmented \in BOOLEAN
    /\ pc = "containers" => records = <<>>
    /\ pc \in {"containers", "strong", "roles", "listing", "segments"} => ~segmented
    /\ Readable /\ pc # "containers" => records # <<>>
    /\ Readable /\ pc = "done" => cards # <<>>

\* What every stage does with the records of the stages before it.
Advances ==
    /\ Sound(records')
    /\ \/ Kept(records, records')
       \/ segmented' /\ ~segmented /\ records' # <<>>
       \/ pc = "links" /\ Len(records') > Len(records)
       \/ /\ pc = "accordion" /\ Accordion # {}
          /\ \A r \in ToSet(records) :
                \/ \E q \in ToSet(records') : KeyOf(q) = KeyOf(r)
                \/ r.url \in AccordionUrls

LEMMA SameAdvances ==
    ASSUME Sound(records), records' = records
    PROVE  Advances
BY DEF Advances, Kept

LEMMA ContainersAdvance ==
    ASSUME PageInv, ReadContainers
    PROVE  Advances /\ (Readable => records' # <<>>)
<1>1. records = <<>> /\ records' = RemoveDuplicates(ContainerRecords)
  BY DEF PageInv, ReadContainers, Stage, Reads
<1>2. Sound(ContainerRecords) /\ (Readable => ContainerRecords # <<>>)
  BY ContainersAreSound DEF PageInv, Readable
<1>3. Sound(records') /\ (Readable => records' # <<>>)
  BY <1>1, <1>2, MergedIsSound
<1> QED BY <1>1, <1>3, NothingIsSound DEF Advances

\* The stages that put what they read before the rest.
LEMMA FirstStagesAdvance ==
    ASSUME PageInv, ReadStrong \/ ReadRoles \/ ReadListing \/ ReadHeaded
    PROVE  Advances
<1>1. PageTyped /\ Sound(records)
  BY DEF PageInv
<1>2. CASE ReadStrong
  <2>1. Sound(RemoveDuplicates(StrongRecords))
    BY <1>1, StrongIsSound, MergedIsSound
  <2>2. Sound(RemoveDuplicates(RemoveDuplicates(StrongRecords) \o records))
        /\ Kept(records, RemoveDuplicates(RemoveDuplicates(StrongRecords) \o records))
    BY <1>1, <2>1, JoinedAreKept
  <2> QED BY <1>1, <1>2, <2>2, SameAdvances DEF ReadStrong, Reads, Advances
<1>3. CASE ReadRoles
  BY <1>1, <1>3, RolesAreSound, JoinedAreKept DEF ReadRoles, Reads, Advances
<1>4. CASE ReadListing
  BY <1>1, <1>4, ListingIsSound, JoinedAreKept DEF ReadListing, Reads, Advances
<1>5. CASE ReadHeaded
  <2>1. Sound(RemoveDuplicates(HeadedRecords \o records))
        /\ Kept(records, RemoveDuplicates(HeadedRecords \o records))
    BY <1>1, HeadedAreSound, JoinedAreKept
  <2> QED BY <1>1, <1>5, <2>1, SameAdvances DEF ReadHeaded, Reads, Advances
<1> QED BY <1>2, <1>3, <1>4, <1>5

LEMMA SegmentsAdvance ==
    ASSUME PageInv, ReadSegments
    PROVE  Advances
<1> DEFINE found == IF HasChairs THEN ChairRecords ELSE SegmentRecords
           links == IF HasChairs THEN Len(ChairRecords) ELSE Cardinality(Wrapped)
<1>1. PageTyped /\ Sound(records) /\ ~segmented
  BY DEF PageInv, ReadSegments, Stage
<1>2. Sound(found)
  BY <1>1, ChairsAreSound, SegmentsAreSound
<1>3. /\ records' = IF Replaces(found, links) THEN RemoveDuplicates(found) ELSE records
      /\ segmented' = Replaces(found, links)
  BY DEF ReadSegments
<1> HIDE DEF found, links
<1>4. CASE Replaces(found, links)
  <2>1. found # <<>>
    BY <1>4 DEF Replaces
  <2>2. Sound(RemoveDuplicates(found)) /\ RemoveDuplicates(found) # <<>>
    BY <1>2, <2>1, MergedIsSound
  <2> QED BY <1>1, <1>3, <1>4, <2>2 DEF Advances
<1>5. CASE ~Replaces(found, links)
  BY <1>1, <1>3, <1>5, SameAdvances
<1> QED BY <1>4, <1>5

\* The stages that read only when there is nothing.
LEMMA BlankStagesAdvance ==
    ASSUME PageInv, ReadTeasers \/ ReadSections \/ ReadEmbedded \/ ReadPatterns \/ ReadNames
    PROVE  Advances
<1>1. PageTyped /\ Sound(records)
  BY DEF PageInv
<1>2. ASSUME NEW rs, Sound(rs), Blank, records' = rs PROVE Advances
  BY <1>2, NothingIsSound DEF Blank, Advances
<1>3. Sound(TeaserRecords) /\ Sound(SectionRecords)
  BY <1>1, TeasersAreSound, SectionsAreSound
<1>4. Sound(RemoveDuplicates(EmbeddedRecords)) /\ Sound(RemoveDuplicates(PatternedRecords))
      /\ Sound(RemoveDuplicates(NamedRecords))
  BY <1>1, EmbeddedAreSound, PatternedAreSound, NamedAreSound, MergedIsSound
<1>5. CASE records' = records
  BY <1>1, <1>5, SameAdvances
<1>6. CASE records' # records
  <2>1. Blank /\ records' \in {TeaserRecords, SectionRecords, RemoveDuplicates(EmbeddedRecords),
                               RemoveDuplicates(PatternedRecords), RemoveDuplicates(NamedRecords)}
    BY <1>6 DEF ReadTeasers, ReadSections, ReadEmbedded, ReadPatterns, ReadNames, Reads
  <2> QED BY <1>2, <1>3, <1>4, <2>1
<1> QED BY <1>5, <1>6

LEMMA LinksAdvance ==
    ASSUME PageInv, ReadLinks
    PROVE  Advances
<1> DEFINE strong == LinkRecords(TRUE)
           other == LinkRecords(FALSE)
<1>1. PageTyped /\ Sound(records) /\ pc = "links"
  BY DEF PageInv, ReadLinks, Stage
<1>2. Sound(strong) /\ Sound(other)
  BY <1>1, LinksAreSound
<1>3. records' = IF Rows # {} \/ segmented \/ Len(records) >= Few THEN records
                 ELSE IF strong # <<>> THEN RemoveDuplicates(strong \o records \o other)
                 ELSE IF Outnumbers(other) THEN other
                 ELSE RemoveDuplicates(records \o other)
  BY DEF ReadLinks, Reads
<1> HIDE DEF strong, other
<1>4. CASE records' = records
  BY <1>1, <1>4, SameAdvances
<1>5. CASE records' = RemoveDuplicates(strong \o records \o other)
  <2>1. Sound(strong \o records) /\ \A r \in ToSet(records) : r \in ToSet(strong \o records)
    BY <1>1, <1>2, ConcatIsSound
  <2>2. /\ Sound(RemoveDuplicates((strong \o records) \o other))
        /\ Kept(strong \o records, RemoveDuplicates((strong \o records) \o other))
    BY <1>2, <2>1, JoinedAreKept
  <2> QED BY <1>5, <2>1, <2>2 DEF Advances, Kept
<1>6. CASE records' = other /\ Outnumbers(other)
  BY <1>1, <1>2, <1>6 DEF Advances, Outnumbers
<1>7. CASE records' = RemoveDuplicates(records \o other)
  BY <1>1, <1>2, <1>7, JoinedAreKept DEF Advances
<1> QED BY <1>3, <1>4, <1>5, <1>6, <1>7

LEMMA AccordionAdvances ==
    ASSUME PageInv, ReadAccordion
    PROVE  Advances
<1> DEFINE others == {k \in DOMAIN records : records[k].url \notin AccordionUrls}
           rest == Gather([k \in others |-> records[k]])
<1>1. PageTyped /\ Sound(records) /\ pc = "accordion" /\ records \in Seq(Recorded)
  BY DEF PageInv, ReadAccordion, Stage, Sound
<1>2. records' = IF Accordion = {} THEN records ELSE RemoveDuplicates(AccordionRecords \o rest)
  BY DEF ReadAccordion, Reads
<1>3. CASE Accordion = {}
  BY <1>1, <1>2, <1>3, SameAdvances
<1>4. CASE Accordion # {}
  <2>1. rest \in Seq(Recorded) /\ ToSet(rest) = {records[k] : k \in others}
    BY <1>1, ChosenAreSome
  <2>2. Sound(rest)
    BY <1>1, <2>1 DEF Sound, ToSet
  <2>3. ASSUME NEW r \in ToSet(records), r.url \notin AccordionUrls PROVE r \in ToSet(rest)
    BY <2>1, <2>3 DEF ToSet
  <2> HIDE DEF rest
  <2>4. Sound(records') /\ Kept(rest, records')
    BY <1>1, <1>2, <1>4, <2>2, AccordionIsSound, JoinedAreKept
  <2> QED BY <1>1, <1>4, <2>3, <2>4 DEF Advances, Kept
<1> QED BY <1>3, <1>4

LEMMA NextAdvances ==
    ASSUME PageInv, Next
    PROVE  Advances
<1>1. CASE ReadPending \/ PassOn
  <2>1. records' = records /\ Sound(records)
    BY <1>1 DEF ReadPending, PassOn, PageInv
  <2> QED BY <2>1, SameAdvances
<1> QED BY <1>1, ContainersAdvance, FirstStagesAdvance, SegmentsAdvance, BlankStagesAdvance,
           LinksAdvance, AccordionAdvances DEF Next

-----------------------------------------------------------------------------
(* The page stays, and with it what is said of it.                         *)

LEMMA MarksStay ==
    ASSUME page' = page
    PROVE  /\ Entries' = Entries /\ Rows' = Rows /\ Accordion' = Accordion
           /\ \A mark \in Marks : Marked(mark)' = Marked(mark) /\ Visible(mark)' = Visible(mark)
<1>1. Entries' = Entries
  BY DEF Entries
<1>2. ASSUME NEW mark \in Marks PROVE Marked(mark)' = Marked(mark)
  BY <1>1 DEF Marked
<1>3. /\ Marked("row")' = Marked("row") /\ Marked("hidden")' = Marked("hidden")
      /\ Marked("website")' = Marked("website")
  BY <1>2 DEF Marks
<1> QED BY <1>1, <1>2, <1>3 DEF Rows, Visible, Accordion

LEMMA SectionStays ==
    ASSUME page' = page, NEW i
    PROVE  Section(i)' = Section(i)
<1> DEFINE S == {j \in 1..i : page[j].kind = "heading"}
<1>1. S' = S
  OBVIOUS
<1>2. ASSUME NEW T PROVE LastSays(T)' = LastSays(T)
  BY DEF LastSays
<1>3. Section(i) = LastSays(S) /\ Section(i)' = LastSays(S)'
  BY DEF Section
<1> QED BY <1>1, <1>2, <1>3

LEMMA WrapperStays ==
    ASSUME page' = page, NEW i
    PROVE  /\ Wrapper(i)' = Wrapper(i) /\ TitleAround(i)' = TitleAround(i)
           /\ Preceding(i)' = Preceding(i) /\ Following(i)' = Following(i)
<1>1. Entries' = Entries /\ Marked("shared")' = Marked("shared")
  BY MarksStay DEF Marks
<1>2. ASSUME NEW j PROVE Wrapper(j)' = Wrapper(j)
  BY <1>1 DEF Wrapper
<1>3. {j \in Entries \ Wrapper(i) : j + 1 \in Wrapper(i)}' = {j \in Entries \ Wrapper(i) : j + 1 \in Wrapper(i)}
  BY <1>1, <1>2
<1>4. {j \in Entries \ Wrapper(i) : j - 1 \in Wrapper(i)}' = {j \in Entries \ Wrapper(i) : j - 1 \in Wrapper(i)}
  BY <1>1, <1>2
<1>5. Preceding(i)' = Preceding(i) /\ Following(i)' = Following(i)
  BY <1>2, <1>3, <1>4 DEF Preceding, Following
<1>6. TitleAround(i)' = TitleAround(i)
  BY <1>2 DEF TitleAround
<1> QED BY <1>2, <1>5, <1>6

LEMMA OfEntryStays ==
    ASSUME page' = page, NEW r
    PROVE  OfEntry(r)' <=> OfEntry(r)
<1>1. ASSUME NEW i PROVE Admitted(i)' <=> Admitted(i)
  <2>1. Section(i)' = Section(i)
    BY SectionStays
  <2> QED BY <2>1 DEF Admitted, Unchecked
<1>2. /\ Entries' = Entries
      /\ Marked("named")' = Marked("named") /\ Marked("linked")' = Marked("linked")
  BY MarksStay DEF Marks
<1>3. ASSUME NEW i PROVE (Given(i, r.url)' <=> Given(i, r.url)) /\ (Addressed(i, r.email)' <=> Addressed(i, r.email))
  BY <1>2, WrapperStays DEF Given, Addressed
<1> QED BY <1>1, <1>2, <1>3 DEF OfEntry

LEMMA ReadableStays ==
    ASSUME page' = page
    PROVE  Readable' <=> Readable
<1>1. /\ Rows' = Rows /\ Accordion' = Accordion
      /\ Marked("card")' = Marked("card") /\ Marked("tr")' = Marked("tr")
      /\ Marked("business")' = Marked("business") /\ Marked("split")' = Marked("split")
      /\ Marked("unnamed")' = Marked("unnamed") /\ Marked("profile")' = Marked("profile")
      /\ Visible("card")' = Visible("card") /\ Visible("tr")' = Visible("tr")
      /\ Visible("business")' = Visible("business") /\ Visible("row")' = Visible("row")
      /\ Visible("listed")' = Visible("listed")
  BY MarksStay DEF Marks
<1>2. ASSUME NEW i PROVE HasSignal(i)' <=> HasSignal(i)
  BY <1>1 DEF HasSignal, BusinessIsRead
<1>3. Signalled' = Signalled
  BY <1>1, <1>2 DEF Signalled
<1>4. Linked' = Linked
  BY <1>1, <1>3 DEF Linked
<1>5. ASSUME NEW i PROVE CardIsRead(i)' <=> CardIsRead(i)
  <2>1. Section(i)' = Section(i) /\ CardTitle(i)' = CardTitle(i)
    BY <1>1, SectionStays, WrapperStays DEF CardTitle
  <2>2. /\ Excluded(i, page[i].title)' <=> Excluded(i, page[i].title)
        /\ Excluded(i, CardTitle(i))' <=> Excluded(i, CardTitle(i))
    BY <2>1 DEF Excluded
  <2> QED BY <1>1, <2>1, <2>2 DEF CardIsRead, TableRowIsRead, BusinessIsRead
<1> QED BY <1>1, <1>4, <1>5 DEF Readable

-----------------------------------------------------------------------------
(* What the adapter takes.                                                 *)

\* What is found of the entries, as they are.
LEMMA OwnAreRecords ==
    ASSUME PageTyped, NEW S, S \subseteq Entries
    PROVE  Gather([i \in S |-> Own(i)]) \in Seq(Recorded)
<1> DEFINE f == [i \in S |-> Own(i)]
<1>1. DOMAIN f = S /\ IsFiniteSet(S) /\ S \subseteq Nat
  BY EntriesTyped, FS_Subset
<1>2. ASSUME NEW i \in S PROVE f[i] \in Recorded
  <2>1. page[i] \in Entry
    BY <1>2, EntriesTyped
  <2> QED BY <1>2, <2>1 DEF Own, Record, Recorded, Entry
<1> HIDE DEF f
<1>3. Gather(f) \in Seq(Recorded)
  BY <1>1, <1>2, GatherIsComplete
<1> QED BY <1>3 DEF f

\* The first of some records is always a new one.
LEMMA DistinctIsNotEmpty ==
    ASSUME NEW rs \in Seq(Recorded)
    PROVE  Distinct(rs) \in Seq(Recorded) /\ (rs # <<>> => Distinct(rs) # <<>>)
<1> DEFINE New(k) == \A j \in 1..(k - 1) : [rs[j] EXCEPT !.title = ""] # [rs[k] EXCEPT !.title = ""]
           S == {j \in DOMAIN rs : New(j)}
<1>1. Len(rs) \in Nat /\ DOMAIN rs = 1..Len(rs)
  OBVIOUS
<1>2. Distinct(rs) = Gather([k \in S |-> rs[k]])
  BY DEF Distinct
<1>3. New(1)
  <2>1. 1..(1 - 1) = {}
    OBVIOUS
  <2> QED BY <2>1
<1>4. S \in SUBSET DOMAIN rs /\ (1 \in DOMAIN rs => 1 \in S)
  BY <1>3
<1> HIDE DEF New, S
<1>5. Distinct(rs) \in Seq(Recorded) /\ ToSet(Distinct(rs)) = {rs[k] : k \in S}
  BY <1>2, <1>4, ChosenAreSome
<1>6. ASSUME rs # <<>> PROVE Distinct(rs) # <<>>
  <2>1. 1 \in S
    BY <1>1, <1>4, <1>6, EmptySeq
  <2>2. rs[1] \in ToSet(Distinct(rs))
    BY <1>5, <2>1
  <2>3. ToSet(<<>>) = {}
    BY EmptySeq DEF ToSet
  <2> QED BY <2>2, <2>3
<1> QED BY <1>5, <1>6

LEMMA AdaptedAreRecords ==
    ASSUME PageTyped
    PROVE  Adapted \in Seq(Recorded) /\ (Authoritative => Adapted # <<>>)
<1>1. Items \in Seq(Recorded) /\ Single \in Seq(Recorded)
  BY OwnAreRecords, MarkedAreEntries DEF Items, Single, WithEmail
<1>2. Employees \in Seq(Recorded)
  <2> DEFINE S == {i \in Marked("employee") : page[i].title \in {"academic", "emeritus"}}
  <2>1. S \subseteq Entries /\ Employees = Gather([i \in S |-> Own(i)])
    BY MarkedAreEntries DEF Employees
  <2> HIDE DEF S
  <2> QED BY <2>1, OwnAreRecords
<1>3. MailCards \in Seq(Recorded)
  <2>1. Gather([i \in WithEmail("mail") |-> Own(i)]) \in Seq(Recorded)
    BY OwnAreRecords, MarkedAreEntries DEF WithEmail
  <2> QED BY <2>1, DistinctIsNotEmpty DEF MailCards
<1>4. \A rs \in Seq(Recorded) : Len(rs) >= 1 => rs # <<>>
  BY EmptySeq
<1>5. Adapted \in Seq(Recorded)
  BY <1>1, <1>2, <1>3, DistinctIsNotEmpty DEF Adapted
<1>6. ASSUME Authoritative PROVE Adapted # <<>>
  <2>1. CASE Len(Items) >= 2
    <3>1. Items # <<>>
      BY <2>1, EmptySeq
    <3> QED BY <1>1, <2>1, <3>1, DistinctIsNotEmpty DEF Adapted
  <2>2. CASE ~(Len(Items) >= 2) /\ Len(Employees) >= 2
    <3>1. Employees # <<>>
      BY <2>2, EmptySeq
    <3> QED BY <1>2, <2>2, <3>1, DistinctIsNotEmpty DEF Adapted
  <2>3. CASE ~(Len(Items) >= 2) /\ ~(Len(Employees) >= 2) /\ Len(Single) = 1
    BY <2>3, EmptySeq DEF Adapted
  <2>4. CASE ~(Len(Items) >= 2) /\ ~(Len(Employees) >= 2) /\ ~(Len(Single) = 1) /\ Len(MailCards) >= 2
    BY <2>4, EmptySeq DEF Adapted
  <2> QED BY <1>6, <2>1, <2>2, <2>3, <2>4 DEF Authoritative
<1> QED BY <1>5, <1>6

LEMMA PassedAreSome ==
    ASSUME PageInv, Readable => records # <<>>
    PROVE  Readable => Passed # <<>>
<1>1. SUFFICES ASSUME Readable PROVE Passed # <<>>
  OBVIOUS
<1>2. /\ records \in Seq(Recorded) /\ records # <<>> /\ pending \in Seq(Recorded)
      /\ Adapted \in Seq(Recorded) /\ (Authoritative => Adapted # <<>>)
  BY <1>1, AdaptedAreRecords DEF PageInv, Sound
<1>3. CASE Authoritative
  BY <1>2, <1>3 DEF Passed
<1>4. CASE ~Authoritative
  <2>1. /\ records \o Adapted \in Seq(Recorded)
        /\ Len(records \o Adapted) = Len(records) + Len(Adapted)
    BY <1>2, ConcatProperties
  <2>2. Len((records \o Adapted) \o pending) = Len(records) + Len(Adapted) + Len(pending)
    BY <1>2, <2>1, ConcatProperties
  <2>3. Len(records) # 0 /\ Len(records) \in Nat /\ Len(Adapted) \in Nat /\ Len(pending) \in Nat
    BY <1>2, EmptySeq
  <2>4. Len(Passed) # 0
    BY <1>4, <2>2, <2>3 DEF Passed
  <2> QED BY <2>4, EmptySeq
<1> QED BY <1>3, <1>4

-----------------------------------------------------------------------------
(* The invariant.                                                          *)

LEMMA InitPageInv ==
    ASSUME Init
    PROVE  PageInv
<1>1. PageTyped
  BY PageAssumption DEF Init, PageTyped
<1>2. Sound(records) /\ pending \in Seq(Recorded) /\ segmented \in BOOLEAN
  BY NothingIsSound, EmptySeq DEF Init
<1> QED BY <1>1, <1>2 DEF Init, PageInv

\* Only the accordion, which a readable page does not have, can come to nothing.
LEMMA RecordsRemain ==
    ASSUME PageInv, Next, Readable
    PROVE  records' # <<>>
<1>1. CASE ReadContainers
  BY <1>1, ContainersAdvance
<1>2. CASE ~ReadContainers
  <2>1. pc # "containers"
    BY <1>2 DEF Next, ReadStrong, ReadRoles, ReadListing, ReadSegments, ReadHeaded, ReadTeasers,
         ReadSections, ReadEmbedded, ReadPatterns, ReadNames, ReadLinks, ReadAccordion,
         ReadPending, PassOn, Stage
  <2>2. records # <<>> /\ Sound(records)
    BY <2>1 DEF PageInv
  <2>3. Advances
    BY NextAdvances
  <2>4. CASE Kept(records, records')
    <3>1. Sound(records')
      BY <2>3 DEF Advances
    <3> QED BY <2>2, <2>4, <3>1, KeptIsNotEmpty
  <2>5. CASE segmented' /\ ~segmented /\ records' # <<>>
    BY <2>5
  <2>6. CASE pc = "links" /\ Len(records') > Len(records)
    <3>1. Len(records) \in Nat /\ Len(<<>>) = 0
      BY <2>2, EmptySeq DEF Sound
    <3> QED BY <2>6, <3>1
  <2> QED BY <2>3, <2>4, <2>5, <2>6 DEF Advances, Readable
<1> QED BY <1>1, <1>2

LEMMA PendingRemain ==
    ASSUME PageInv, Next
    PROVE  pending' \in Seq(Recorded)
<1>1. CASE ReadPending
  <2> DEFINE untold == {k \in DOMAIN PendingRecords :
                          \A q \in ToSet(records) : q.url # PendingRecords[k].url}
  <2>1. PendingRecords \in Seq(Recorded)
    BY PendingAreSound DEF PageInv
  <2>2. pending' = Gather([k \in untold |-> PendingRecords[k]])
    BY <1>1 DEF ReadPending
  <2>3. untold \in SUBSET DOMAIN PendingRecords
    OBVIOUS
  <2> HIDE DEF untold
  <2> QED BY <2>1, <2>2, <2>3, ChosenAreSome
<1>2. CASE ~ReadPending
  BY <1>2 DEF Next, ReadContainers, ReadStrong, ReadRoles, ReadListing, ReadSegments, ReadHeaded,
       ReadTeasers, ReadSections, ReadEmbedded, ReadPatterns, ReadNames, ReadLinks,
       ReadAccordion, PassOn, Reads, PageInv
<1> QED BY <1>1, <1>2

LEMMA SegmentedRemains ==
    ASSUME PageInv, Next
    PROVE  /\ page' = page /\ segmented' \in BOOLEAN /\ pc' # "containers"
           /\ pc' \in {"strong", "roles", "listing", "segments"} => ~segmented'
           /\ pc' = "done" => PassOn
<1>1. CASE ReadSegments
  <2>1. segmented' \in BOOLEAN /\ pc' = "headed" /\ page' = page
    BY <1>1 DEF ReadSegments, Stage, Replaces
  <2> QED BY <2>1
<1>2. CASE ReadContainers \/ ReadStrong \/ ReadRoles \/ ReadListing
  BY <1>2 DEF ReadContainers, ReadStrong, ReadRoles, ReadListing, Reads, Stage, PageInv
<1>3. CASE ReadHeaded \/ ReadTeasers \/ ReadSections \/ ReadEmbedded \/ ReadPatterns
  BY <1>3 DEF ReadHeaded, ReadTeasers, ReadSections, ReadEmbedded, ReadPatterns, Reads, Stage, PageInv
<1>4. CASE ReadNames \/ ReadLinks \/ ReadAccordion \/ ReadPending \/ PassOn
  BY <1>4 DEF ReadNames, ReadLinks, ReadAccordion, ReadPending, PassOn, Reads, Stage, PageInv
<1> QED BY <1>1, <1>2, <1>3, <1>4 DEF Next

LEMMA SoundRemains ==
    ASSUME PageInv, Next
    PROVE  Sound(records)'
<1>1. page' = page
  BY SegmentedRemains
<1>2. Sound(records')
  BY NextAdvances DEF Advances
<1>3. ASSUME NEW r \in ToSet(records') PROVE OfEntry(r)'
  <2>1. OfEntry(r)
    BY <1>2, <1>3 DEF Sound
  <2> QED BY <1>1, <2>1, OfEntryStays
<1>4. records' \in Seq(Recorded)
  BY <1>2 DEF Sound
<1> QED BY <1>3, <1>4 DEF Sound, ToSet

LEMMA NextPageInv ==
    ASSUME PageInv, [Next]_vars
    PROVE  PageInv'
<1>1. CASE Next
  <2>1. page' = page /\ (Readable' <=> Readable)
    BY <1>1, SegmentedRemains, ReadableStays
  <2>2. Sound(records)' /\ pending' \in Seq(Recorded)
    BY <1>1, SoundRemains, PendingRemain
  <2>3. Readable => records' # <<>>
    BY <1>1, RecordsRemain
  <2>4. Readable /\ pc' = "done" => cards' # <<>>
    <3>1. SUFFICES ASSUME Readable, PassOn PROVE cards' # <<>>
      BY <1>1, SegmentedRemains
    <3>2. records # <<>>
      BY <3>1 DEF PageInv, PassOn, Stage
    <3>3. Passed # <<>>
      BY <3>1, <3>2, PassedAreSome
    <3> QED BY <3>1, <3>3 DEF PassOn
  <2>5. PageTyped'
    BY <2>1 DEF PageInv, PageTyped, Heading, Entry, TitleKinds, Marks
  <2>6. segmented' \in BOOLEAN /\ pc' # "containers"
        /\ (pc' \in {"strong", "roles", "listing", "segments"} => ~segmented')
    BY <1>1, SegmentedRemains
  <2> QED BY <2>1, <2>2, <2>3, <2>4, <2>5, <2>6 DEF PageInv, Recorded, TitleKinds
<1>2. CASE UNCHANGED vars
  <2>1. page' = page /\ records' = records /\ UNCHANGED <<segmented, pending, cards, pc>>
    BY <1>2 DEF vars
  <2>2. Readable' <=> Readable
    BY <2>1, ReadableStays
  <2>3. ASSUME NEW r \in ToSet(records') PROVE OfEntry(r)'
    <3>1. OfEntry(r)
      BY <2>1, <2>3 DEF PageInv, Sound
    <3> QED BY <2>1, <3>1, OfEntryStays
  <2>4. Sound(records)'
    BY <2>1, <2>3 DEF PageInv, Sound, ToSet
  <2>5. PageTyped'
    BY <2>1 DEF PageInv, PageTyped
  <2> QED BY <2>1, <2>2, <2>4, <2>5 DEF PageInv
<1> QED BY <1>1, <1>2

\* crawler/parsers.py, parse_faculty_page: the invariant of the cascade, stage by stage.
THEOREM PageInvariant == Spec => []PageInv
<1>1. Init => PageInv
  BY InitPageInv
<1>2. PageInv /\ [Next]_vars => PageInv'
  BY NextPageInv
<1> QED BY <1>1, <1>2, PTL DEF Spec

-----------------------------------------------------------------------------
(* The properties.                                                         *)

\* crawler/parsers.py, remove_duplicates and the readers: the name and the link of a record
\* are those of one entry of the page, and the address is that entry's or of one that shares
\* its wrapper; only a heading that is no link itself gets one from beside it.
THEOREM RecordsAreOwnHolds == Spec => []RecordsAreOwn
<1>1. PageInv => RecordsAreOwn
  <2>1. SUFFICES ASSUME PageInv, NEW r \in ToSet(records) PROVE OfEntry(r)
    BY DEF RecordsAreOwn, OfEntry, Given, Addressed
  <2> QED BY <2>1 DEF PageInv, Sound
<1> QED BY <1>1, PageInvariant, PTL

\* crawler/parsers.py, _is_excluded_directory_section: who is recorded from an excluded
\* section, was read by one of the readers that do not ask.
THEOREM ExcludedStayOutHolds == Spec => []ExcludedStayOut
<1>1. PageInv => ExcludedStayOut
  <2>1. SUFFICES ASSUME PageInv, NEW r \in ToSet(records) PROVE OfEntry(r)
    BY DEF ExcludedStayOut, OfEntry, Given, Admitted, Unchecked
  <2> QED BY <2>1 DEF PageInv, Sound
<1> QED BY <1>1, PageInvariant, PTL

\* crawler/parsers.py, parse_faculty_page, and UniversalDirectoryAdapter.extract: a page
\* with a container that can be read, and without an accordion, ends with a card passed on.
THEOREM ReadableIsReadHolds == Spec => []ReadableIsRead
<1>1. PageInv => ReadableIsRead
  BY DEF PageInv, ReadableIsRead, Readable
<1> QED BY <1>1, PageInvariant, PTL

\* crawler/parsers.py, parse_faculty_page: of every step of the cascade, who was recorded
\* before it is recorded after it, under the same key, but for the replacements named.
THEOREM NobodyIsLostHolds == Spec => NobodyIsLost
<1> DEFINE Stays == \A r \in ToSet(records) :
                      \/ \E q \in ToSet(records') : KeyOf(q) = KeyOf(r)
                      \/ segmented' /\ ~segmented
                      \/ pc = "links" /\ Len(records') > Len(records)
                      \/ pc = "accordion" /\ r.url \in AccordionUrls
<1>1. PageInv /\ [Next]_vars => [Stays]_vars
  <2>1. SUFFICES ASSUME PageInv, Next PROVE Stays
    OBVIOUS
  <2>2. Advances
    BY <2>1, NextAdvances
  <2> QED BY <2>2 DEF Advances, Kept
<1> QED BY <1>1, PageInvariant, PTL DEF Spec, NobodyIsLost

-----------------------------------------------------------------------------
(* The titles.                                                             *)

Ending ==
    ~process /\ child \in Alive => survives \/ (Stopping /\ stage \in {"terminate", "kill"})

CacheSound == \A row \in cache : row[1] \in People /\ row[2] = TranslationOf[row[1]]

\* The steps that follow the rules, and those at which there is a text.
Open     == {"capabilities", "capable", "look up", "request", "store", "hit", "translated"}
WithText == {"store", "hit", "translated"}

CrawlHolds ==
    /\ left \subseteq People
    /\ step = "own rules" => person \in People
    /\ step \in Open => person \in People /\ Classify(person[1]) = "review"
    /\ step \in WithText => text = TranslationOf[person]
    /\ step \notin WithText \cup {"failed"} => text = NoText

TitleInv == Ending /\ CacheSound /\ CrawlHolds /\ SortedRightly

USE TitleAssumption DEF titleVars, serviceVars, clientVars, personVars

\* What SortedRightly asks of one of the sorted.
Rightly(r) ==
    CASE Classify(r.person[1]) # "review" -> r.list = Classify(r.person[1])
      [] Classify(r.person[1]) = "review" /\ r.text # NoText ->
            r.text = TranslationOf[r.person] /\ r.list = Classify(r.text)
      [] OTHER -> r.list = "review"

-----------------------------------------------------------------------------
LEMMA SortedIsRightly ==
    ASSUME NEW new, SortedRightly, sorted' = sorted \cup {new}, Rightly(new)
    PROVE  SortedRightly'
BY DEF SortedRightly, Rightly

\* Start, stop and the child leave nothing behind.
LEMMA ServiceKeepsEnding ==
    Ending /\ ServiceNext => Ending'
<1> SUFFICES ASSUME Ending, ServiceNext PROVE Ending' OBVIOUS
<1> USE DEF Ending, Alive, Stopping
<1>1. CASE ChildChanges
  BY <1>1 DEF ChildChanges
<1>2. CASE Launch
  BY <1>2 DEF Launch
<1>3. CASE CheckHealth
  BY <1>3 DEF CheckHealth, Started
<1>4. CASE StopBegins
  BY <1>4 DEF StopBegins, After
<1>5. CASE Terminate
  BY <1>5 DEF Terminate, After
<1>6. CASE Kill
  BY <1>6 DEF Kill, After
<1>7. CASE Close
  BY <1>7 DEF Close
<1>8. CASE SaveSettings
  BY <1>8 DEF SaveSettings
<1> QED
  BY <1>1, <1>2, <1>3, <1>4, <1>5, <1>6, <1>7, <1>8
     DEF ServiceNext, ServiceStep, StopService

\* A person is put where the rules say: by the title, by its own translation, or,
\* where there is none, with those to review.
LEMMA SortKeeps ==
    ASSUME TitleInv, NEW list, NEW status, Sort(list, status), person \in People,
           \/ Classify(person[1]) # "review" /\ list = Classify(person[1])
           \/ /\ Classify(person[1]) = "review" /\ text = TranslationOf[person]
              /\ list = Classify(text)
           \/ Classify(person[1]) = "review" /\ text = NoText /\ list = "review"
    PROVE  TitleInv'
<1> DEFINE new == [person |-> person, list |-> list, status |-> status, text |-> text]
<1>1. Ending' /\ CacheSound' /\ CrawlHolds'
  BY DEF Sort, TitleInv, Ending, Stopping, CacheSound, CrawlHolds, Open, WithText
<1>2. sorted' = sorted \cup {new}
  BY DEF Sort
<1>3. Rightly(new)
  <2>1. new.person = person /\ new.list = list /\ new.text = text
    OBVIOUS
  <2>2. TranslationOf[person] # NoText
    BY DEF People
  <2> QED
    BY <2>1, <2>2 DEF Rightly
<1>4. SortedRightly'
  BY <1>2, <1>3, SortedIsRightly DEF TitleInv
<1> QED
  BY <1>1, <1>4 DEF TitleInv

\* A step of a crawl other than one that sorts somebody.
LEMMA NextPersonKeeps ==
    TitleInv /\ (NextPerson \/ CrawlFails \/ CacheFails \/ BeginCrawl) => TitleInv'
<1> SUFFICES ASSUME TitleInv, NextPerson \/ CrawlFails \/ CacheFails \/ BeginCrawl
             PROVE  TitleInv'
  OBVIOUS
<1> USE DEF TitleInv, Ending, Stopping, CacheSound, CrawlHolds, SortedRightly, Open, WithText
<1>1. CASE NextPerson
  BY <1>1 DEF NextPerson
<1>2. CASE CrawlFails
  BY <1>2 DEF CrawlFails
<1>3. CASE CacheFails
  BY <1>3 DEF CacheFails
<1>4. CASE BeginCrawl
  <2>1. left' \in SUBSET People
    BY <1>4 DEF BeginCrawl
  <2> QED
    BY <1>4, <2>1 DEF BeginCrawl
<1> QED
  BY <1>1, <1>2, <1>3, <1>4

LEMMA RulesKeep ==
    TitleInv /\ (OwnRules \/ AskCapabilities \/ KnownCapabilities \/ Capable) => TitleInv'
<1> SUFFICES ASSUME TitleInv, OwnRules \/ AskCapabilities \/ KnownCapabilities \/ Capable
             PROVE  TitleInv'
  OBVIOUS
<1>1. CASE OwnRules
  <2>1. person \in People /\ text = NoText
    BY <1>1 DEF OwnRules, TitleInv, CrawlHolds, WithText
  <2>2. CASE Classify(person[1]) # "review" \/ person[2] \in {"en", ""}
    BY <1>1, <2>1, <2>2, SortKeeps DEF OwnRules
  <2>3. CASE ~(Classify(person[1]) # "review" \/ person[2] \in {"en", ""})
    BY <1>1, <2>1, <2>3
       DEF OwnRules, TitleInv, Ending, Stopping, CacheSound, CrawlHolds, SortedRightly, Open, WithText
  <2> QED
    BY <2>2, <2>3
<1>2. CASE AskCapabilities \/ KnownCapabilities
  BY <1>2 DEF AskCapabilities, KnownCapabilities, TitleInv, Ending, Stopping, CacheSound,
              CrawlHolds, SortedRightly, Open, WithText
<1>3. CASE Capable
  <2>1. person \in People /\ text = NoText /\ Classify(person[1]) = "review"
    BY <1>3 DEF Capable, TitleInv, CrawlHolds, Open, WithText
  <2>2. CASE error # NoError
    BY <1>3, <2>1, <2>2, SortKeeps DEF Capable
  <2>3. CASE error = NoError /\ person[2] \notin Supported \cup {"auto"}
    BY <1>3, <2>1, <2>3, SortKeeps DEF Capable
  <2>4. CASE error = NoError /\ person[2] \in Supported \cup {"auto"}
    BY <1>3, <2>1, <2>4
       DEF Capable, TitleInv, Ending, Stopping, CacheSound, CrawlHolds, SortedRightly, Open, WithText
  <2> QED
    BY <2>2, <2>3, <2>4
<1> QED
  BY <1>1, <1>2, <1>3

LEMMA TranslationKeeps ==
    TitleInv /\ (LookUp \/ Request \/ Store \/ Translated) => TitleInv'
<1> SUFFICES ASSUME TitleInv, LookUp \/ Request \/ Store \/ Translated
             PROVE  TitleInv'
  OBVIOUS
<1>1. person \in People /\ Classify(person[1]) = "review"
  BY DEF LookUp, Request, Store, Translated, TitleInv, CrawlHolds, Open
<1> USE DEF Key
<1>2. CASE LookUp
  BY <1>1, <1>2 DEF LookUp, Keep, TitleInv, Ending, Stopping, CacheSound, CrawlHolds,
                    SortedRightly, Open, WithText
<1>3. CASE Request
  <2>1. text = NoText
    BY <1>3 DEF Request, TitleInv, CrawlHolds, WithText
  <2>2. PICK response \in Responses(server) \cup {"malformed"} :
          CASE response = "answer" -> Keep(TranslationOf[person], "store") /\ UNCHANGED cache
            [] response = "malformed" -> Sort("review", response)
            [] OTHER -> NoAnswer(response)
    BY <1>3 DEF Request
  <2>3. CASE response = "answer"
    BY <1>1, <2>2, <2>3 DEF Keep, TitleInv, Ending, Stopping, CacheSound, CrawlHolds,
                            SortedRightly, Open, WithText
  <2>4. CASE Sort("review", response)
    BY <1>1, <2>1, <2>4, SortKeeps
  <2>5. CASE tries < Retries /\ NoAnswer(response)
    BY <1>1, <2>1, <2>5 DEF NoAnswer, TitleInv, Ending, Stopping, CacheSound, CrawlHolds,
                            SortedRightly, Open, WithText
  <2> QED
    BY <2>2, <2>3, <2>4, <2>5 DEF NoAnswer
<1>4. CASE Store
  <2>1. text = TranslationOf[person] /\ text' = text /\ person' = person
    BY <1>4 DEF Store, TitleInv, CrawlHolds, WithText
  <2>2. CacheSound'
    <3>1. ASSUME NEW row \in cache' PROVE row[1] \in People /\ row[2] = TranslationOf[row[1]]
      <4>1. row \in cache \/ row = <<person, text>>
        BY <1>4, <3>1 DEF Store
      <4>2. CASE row \in cache
        BY <4>2 DEF TitleInv, CacheSound
      <4>3. CASE row = <<person, text>>
        BY <1>1, <2>1, <4>3
      <4> QED
        BY <4>1, <4>2, <4>3
    <3> QED
      BY <3>1 DEF CacheSound
  <2>3. Ending' /\ CrawlHolds' /\ SortedRightly'
    BY <1>1, <1>4, <2>1 DEF Store, TitleInv, Ending, Stopping, CrawlHolds, SortedRightly,
                            Open, WithText
  <2> QED
    BY <2>2, <2>3 DEF TitleInv
<1>5. CASE Translated
  <2>1. text = TranslationOf[person]
    BY <1>5 DEF Translated, TitleInv, CrawlHolds, WithText
  <2> QED
    BY <1>1, <1>5, <2>1, SortKeeps DEF Translated
<1> QED
  BY <1>2, <1>3, <1>4, <1>5

-----------------------------------------------------------------------------
LEMMA InitTitleInv == TitleInit => TitleInv
BY DEF TitleInit, ServiceInit, TitleInv, Ending, Alive, CacheSound, CrawlHolds,
       SortedRightly, Open, WithText

LEMMA NextTitleInv == TitleInv /\ [TitleNext]_titleVars => TitleInv'
<1> SUFFICES ASSUME TitleInv, [TitleNext]_titleVars PROVE TitleInv'
  OBVIOUS
<1>1. CASE ServiceNext /\ UNCHANGED <<cache, crawls, step, clientVars, personVars>>
  <2>1. Ending'
    BY <1>1, ServiceKeepsEnding DEF TitleInv
  <2>2. CacheSound' /\ CrawlHolds' /\ SortedRightly'
    BY <1>1 DEF TitleInv, CacheSound, CrawlHolds, SortedRightly
  <2> QED
    BY <2>1, <2>2 DEF TitleInv
<1>2. CASE BeginCrawl
  BY <1>2, NextPersonKeeps
<1>3. CASE CrawlStep
  BY <1>3, NextPersonKeeps, RulesKeep, TranslationKeeps DEF CrawlStep
<1>4. CASE UNCHANGED titleVars
  BY <1>4 DEF TitleInv, Ending, Stopping, CacheSound, CrawlHolds, SortedRightly
<1> QED
  BY <1>1, <1>2, <1>3, <1>4 DEF TitleNext

\* Whatever is read, translated, stored or forgotten, the child and the titles keep their
\* invariants together.
THEOREM TitleInvariant == TitleSpec => []TitleInv
BY InitTitleInv, NextTitleInv, PTL DEF TitleSpec

\* Local translation service: when the window is open without the service, or has closed,
\* no child of it is left, however start and stop went, unless the system refused to kill it.
THEOREM NoChildIsLeftHolds == TitleSpec => []NoChildIsLeft
<1>1. TitleInv => NoChildIsLeft
  BY DEF TitleInv, Ending, NoChildIsLeft, Stopping
<1> QED
  BY <1>1, TitleInvariant, PTL

\* title_pipeline.py and translation.py: everybody is sorted on the word of their own title
\* or of its own translation, whatever earlier crawls, with other languages, left in the
\* cache and whatever the service answers.
THEOREM SortedRightlyHolds == TitleSpec => []SortedRightly
<1>1. TitleInv => SortedRightly
  BY DEF TitleInv
<1> QED
  BY <1>1, TitleInvariant, PTL

=============================================================================
