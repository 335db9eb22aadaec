-------------------------- MODULE CrawlPages_proofs --------------------------
(***************************************************************************)
(* The safety properties of CrawlPages, for every site and every limit.    *)
(*                                                                         *)
(* CrawlInv adds to the types what each property needs to be inductive:    *)
(* the loads of a page against its attempts and polls (Counted), the       *)
(* terminal status against the challenges met, at every place of the loop  *)
(* (Reported), that the loader only works on a page that was read          *)
(* (LoaderOnPage), where every profile link seen is (SeenIsKept), and the  *)
(* lists against the rows parsed (Listed).                                 *)
(***************************************************************************)
EXTENDS CrawlPages, TLAPS, FiniteSetTheorems

InLoop == pc \in {"load", "live", "collect", "parse", "next"}

Counted == tries.loads <= tries.attempt * (MaxPolls + 1) + tries.polls

Reported ==
    /\ InLoop => terminal = "none" /\ ~met.challenged
    /\ pc # "raised" => (met.challenged <=> terminal = "verification_required")
    /\ pc = "end" => (met.challenged <=> outcome = "verification_required")

LoaderOnPage ==
    /\ loader.phase # "off" \/ loader.challenged => page.ok
    /\ pc \notin {"collect", "parse"} => loader = LoaderOff

SeenIsKept ==
    pc \in {"collect", "parse"} =>
        seen \subseteq Links(page.live) \cup UNION {Links(v) : v \in ToSet(snapshots)}

Listed ==
    pc # "end" =>
        /\ lists.records = {p \in People : <<p, "include">> \in met.rows}
        /\ lists.pending = {p \in People : <<p, "pending">> \in met.rows}
        /\ lists.review = {p \in People : <<p, "review">> \in met.rows}
        /\ lists.excluded = {p \in People : <<p, "exclude">> \in met.rows}

RoundsLeft ==
    /\ IsFiniteSet(visited)
    /\ pc \in {"collect", "parse", "next"} => page.rounds < MaxPages

PageTypeOK ==
    /\ pc \in {"load", "live", "collect", "parse", "next", "sort", "end", "raised"}
    /\ url \in visited /\ visited \subseteq Pages /\ Cardinality(visited) <= MaxPages
    /\ tries \in [attempt : 0 .. MaxRetries, polls : 0 .. MaxPolls, loads : Nat]
    /\ page \in [ok : BOOLEAN, live : Views \cup {NoView}, final : Views \cup {NoView},
                 rounds : 0 .. MaxPages]
    /\ LoaderTypeOK

ResultTypeOK ==
    /\ lists \in [records : SUBSET People, pending : SUBSET People,
                  review : SUBSET People, excluded : SUBSET People]
    /\ terminal \in {"none", "verification_required", "review_recommended", "failed"}
    /\ outcome \in {"none", "succeeded", "verification_required", "review_recommended", "failed"}
    /\ met.rows \subseteq People \X Classes /\ met.challenged \in BOOLEAN

\* What is about the page, and what is about the results.
PageInv == PageTypeOK /\ RoundsLeft /\ Counted /\ LoaderOnPage /\ SeenIsKept

ResultInv == ResultTypeOK /\ Reported /\ Listed /\ LinkedAreSorted

CrawlInv == PageInv /\ ResultInv

-----------------------------------------------------------------------------
(* Sequences and views.                                                    *)

\* Every row of a view is a person with a class.
LEMMA ViewRows ==
    ASSUME NEW v \in Views \cup {NoView}
    PROVE  /\ DOMAIN v.rows \subseteq People
           /\ \A p \in DOMAIN v.rows : v.rows[p] \in Classes
<1>1. CASE v \in Views
  <2>1. PICK shown \in SUBSET People : v.rows \in [shown -> Classes]
    BY <1>1, LoaderAssumption
  <2> QED BY <2>1
<1>2. CASE v = NoView
  <2>1. v.rows = [p \in {} |-> "include"]
    BY <1>2 DEF NoView
  <2>2. DOMAIN v.rows = {}
    BY <2>1
  <2> QED BY <2>2
<1> QED BY <1>1, <1>2

\* The members of a sequence after an append.
LEMMA AppendSet ==
    ASSUME NEW S, NEW s \in Seq(S), NEW e \in S
    PROVE  /\ Append(s, e) \in Seq(S)
           /\ ToSet(Append(s, e)) = ToSet(s) \cup {e}
<1>1. Append(s, e) \in Seq(S) /\ Len(Append(s, e)) = Len(s) + 1
  OBVIOUS
<1>2. \A i \in 1 .. Len(s) : Append(s, e)[i] = s[i]
  OBVIOUS
<1>3. Append(s, e)[Len(s) + 1] = e
  OBVIOUS
<1>4. DOMAIN Append(s, e) = 1 .. Len(s) + 1 /\ DOMAIN s = 1 .. Len(s) /\ Len(s) \in Nat
  BY <1>1
<1>5. 1 .. Len(s) + 1 = (1 .. Len(s)) \cup {Len(s) + 1}
  BY <1>4
<1> QED BY <1>1, <1>2, <1>3, <1>4, <1>5 DEF ToSet

\* The members of two sequences in a row.
LEMMA ConcatSet ==
    ASSUME NEW S, NEW s \in Seq(S), NEW t \in Seq(S)
    PROVE  /\ s \o t \in Seq(S)
           /\ ToSet(s \o t) = ToSet(s) \cup ToSet(t)
<1>1. s \o t \in Seq(S) /\ Len(s \o t) = Len(s) + Len(t)
  OBVIOUS
<1>2. \A i \in 1 .. Len(s) : (s \o t)[i] = s[i]
  OBVIOUS
<1>3. \A i \in 1 .. Len(t) : (s \o t)[Len(s) + i] = t[i]
  OBVIOUS
<1>4. ToSet(s \o t) \subseteq ToSet(s) \cup ToSet(t)
  <2> SUFFICES ASSUME NEW i \in 1 .. Len(s) + Len(t)
               PROVE  (s \o t)[i] \in ToSet(s) \cup ToSet(t)
    BY <1>1 DEF ToSet
  <2>1. CASE i <= Len(s)
    BY <2>1, <1>2 DEF ToSet
  <2>2. CASE i > Len(s)
    <3>1. PICK j \in 1 .. Len(t) : i = Len(s) + j
      <4>1. i - Len(s) \in 1 .. Len(t) /\ i = Len(s) + (i - Len(s))
        BY <2>2
      <4> QED BY <4>1
    <3> QED BY <3>1, <1>3 DEF ToSet
  <2> QED BY <2>1, <2>2
<1>5. ToSet(s) \cup ToSet(t) \subseteq ToSet(s \o t)
  <2>1. \A i \in 1 .. Len(s) : s[i] \in ToSet(s \o t)
    BY <1>1, <1>2 DEF ToSet
  <2>2. \A i \in 1 .. Len(t) : t[i] \in ToSet(s \o t)
    BY <1>1, <1>3 DEF ToSet
  <2>3. ToSet(s) = {s[i] : i \in 1 .. Len(s)} /\ ToSet(t) = {t[i] : i \in 1 .. Len(t)}
    BY DEF ToSet
  <2> QED BY <2>1, <2>2, <2>3
<1> QED BY <1>1, <1>4, <1>5

\* What is parsed holds the live page and every snapshot, and nothing but views.
LEMMA RenderedSet ==
    ASSUME page.live \in Views \cup {NoView}, page.final \in Views \cup {NoView},
           snapshots \in Seq(Views)
    PROVE  /\ {page.live} \cup ToSet(snapshots) \subseteq ToSet(Rendered)
           /\ ToSet(Rendered) \subseteq Views \cup {NoView}
<1> DEFINE All == Views \cup {NoView}
           rounds == <<page.live>> \o snapshots
<1>1. <<page.live>> \in Seq(All) /\ ToSet(<<page.live>>) = {page.live} /\ snapshots \in Seq(All)
  BY DEF ToSet
<1> HIDE DEF All
<1>2. rounds \in Seq(All) /\ ToSet(rounds) = {page.live} \cup ToSet(snapshots)
  <2>1. \A s, t \in Seq(All) : s \o t \in Seq(All) /\ ToSet(s \o t) = ToSet(s) \cup ToSet(t)
    BY ConcatSet
  <2> QED BY <1>1, <2>1
<1>3. page.final \in All
  BY DEF All
<1>4. Append(rounds, page.final) \in Seq(All) /\ ToSet(Append(rounds, page.final)) = ToSet(rounds) \cup {page.final}
  <2>1. \A s \in Seq(All), e \in All : Append(s, e) \in Seq(All) /\ ToSet(Append(s, e)) = ToSet(s) \cup {e}
    BY AppendSet
  <2> HIDE DEF rounds
  <2> QED BY <1>2, <1>3, <2>1
<1>5. Rendered \in {rounds, Append(rounds, page.final)}
  BY DEF Rendered
<1>6. \A s \in Seq(All) : ToSet(s) \subseteq All
  BY DEF ToSet
<1> QED BY <1>2, <1>4, <1>5, <1>6 DEF All

LEMMA RowsTyped ==
    ASSUME page.live \in Views \cup {NoView}, page.final \in Views \cup {NoView},
           snapshots \in Seq(Views)
    PROVE  Rows \subseteq People \X Classes
  BY RenderedSet, ViewRows DEF Rows

\* One more load, as a poll or as a retry.
LEMMA CountedAgain ==
    ASSUME NEW a \in Nat, NEW p \in Nat, NEW n \in Nat, NEW m \in Nat,
           n <= a * (m + 1) + p, p <= m
    PROVE  /\ n + 1 <= a * (m + 1) + (p + 1)
           /\ n + 1 <= (a + 1) * (m + 1) + 0
<1>1. a * (m + 1) \in Nat
  OBVIOUS
<1>2. (a + 1) * (m + 1) = a * (m + 1) + (m + 1)
  OBVIOUS
<1> QED BY <1>1, <1>2

-----------------------------------------------------------------------------
(* The loader.                                                             *)

LEMMA LoaderStepSafe ==
    ASSUME LoaderTypeOK, LoaderStep
    PROVE  /\ LoaderTypeOK'
           /\ loader.phase # "off"
           /\ seen \subseteq seen'
           /\ ToSet(snapshots) \subseteq ToSet(snapshots')
           /\ seen' \ seen \subseteq UNION {Links(v) : v \in ToSet(snapshots')}
<1> DEFINE Loaders == [phase : {"off", "load_more", "scroll", "done"}, rounds : 0 .. MaxRounds,
                       unchanged : 0 .. 2, challenged : BOOLEAN]
<1>0. MaxRounds \in Nat \ {0} /\ loader \in Loaders
  BY LoaderAssumption DEF LoaderTypeOK
<1>8. \A c \in BOOLEAN : StopsAll(c) => loader' \in Loaders
  BY <1>0 DEF StopsAll
<1>9. ActionEnds => loader' \in Loaders
  <2>1. [LoaderOff EXCEPT !.phase = "scroll"] \in Loaders
    <3>1. LoaderOff \in Loaders
      BY <1>0 DEF LoaderOff
    <3>2. \A l \in Loaders : [l EXCEPT !.phase = "scroll"] \in Loaders
      OBVIOUS
    <3> QED BY <3>1, <3>2
  <2>2. [loader EXCEPT !.phase = "done"] \in Loaders
    BY <1>0
  <2> HIDE DEF Loaders
  <2> QED BY <2>1, <2>2 DEF ActionEnds
<1>1. ASSUME LoaderTimesOut \/ ControlExhausted \/ LoaderChallenged
      PROVE  LoaderTypeOK' /\ loader.phase # "off" /\ UNCHANGED <<seen, snapshots>>
  <2>1. loader' \in Loaders /\ UNCHANGED <<seen, snapshots>> /\ IsLoading
    <3> HIDE DEF Loaders
    <3> QED BY <1>1, <1>8, <1>9 DEF LoaderTimesOut, ControlExhausted, LoaderChallenged
  <2> QED BY <2>1 DEF LoaderTypeOK, IsLoading
<1>2. ASSUME NEW v \in Views, LoaderRound(v)
      PROVE  /\ LoaderTypeOK' /\ loader.phase # "off" /\ seen \subseteq seen'
             /\ ToSet(snapshots) \subseteq ToSet(snapshots')
             /\ seen' \ seen \subseteq UNION {Links(w) : w \in ToSet(snapshots')}
  <2>1. loader.phase # "off" /\ Patience[loader.phase] \in 2 .. 3
    BY <1>2 DEF LoaderRound, IsLoading, Patience
  <2>2. UnchangedAfter(v) \in 0 .. 3 /\ (UnchangedAfter(v) < Patience[loader.phase] => UnchangedAfter(v) \in 0 .. 2)
    BY <2>1 DEF UnchangedAfter, LoaderTypeOK
  <2>3. loader' \in Loaders
    <3>1. CASE /\ UnchangedAfter(v) < Patience[loader.phase] /\ loader.rounds + 1 < MaxRounds
               /\ loader' = [loader EXCEPT !.rounds = loader.rounds + 1, !.unchanged = UnchangedAfter(v)]
      <4>1. loader.rounds + 1 \in 0 .. MaxRounds /\ UnchangedAfter(v) \in 0 .. 2
        BY <1>0, <2>2, <3>1
      <4> QED BY <1>0, <3>1, <4>1
    <3> HIDE DEF Loaders
    <3> QED BY <1>2, <1>8, <1>9, <3>1 DEF LoaderRound
  <2>4. Keeps(v) /\ Links(v) \subseteq Linked
    BY <1>2 DEF LoaderRound, Links
  <2>5. CASE Links(v) \subseteq seen
    BY <2>1, <2>3, <2>4, <2>5 DEF Keeps, LoaderTypeOK
  <2>6. CASE ~(Links(v) \subseteq seen)
    <3>1. snapshots' = Append(snapshots, v) /\ seen' = seen \cup Links(v)
      BY <2>4, <2>6 DEF Keeps
    <3>2. snapshots' \in Seq(Views) /\ ToSet(snapshots') = ToSet(snapshots) \cup {v}
      <4>1. snapshots \in Seq(Views)
        BY DEF LoaderTypeOK
      <4> QED BY <3>1, <4>1, AppendSet
    <3> QED BY <2>1, <2>3, <2>4, <3>1, <3>2 DEF LoaderTypeOK
  <2> QED BY <2>5, <2>6
<1>3. CASE LoaderTimesOut \/ ControlExhausted \/ LoaderChallenged
  BY <1>1, <1>3
<1>4. CASE \E v \in Views : LoaderRound(v)
  BY <1>2, <1>4
<1> QED BY <1>3, <1>4 DEF LoaderStep

-----------------------------------------------------------------------------
(* The crawl.                                                              *)

LEMMA CrawlInvInit == CrawlInit => CrawlInv
<1> SUFFICES ASSUME CrawlInit PROVE CrawlInv
  OBVIOUS
<1> USE CrawlAssumption DEF CrawlInit
<1>0. NoTries.attempt = 0 /\ NoTries.polls = 0 /\ NoTries.loads = 0 /\ page.rounds = 0
  BY DEF NoTries, NoLive
<1>1. IsFiniteSet(visited) /\ Cardinality(visited) = 1
  BY FS_Singleton
<1>2. LoaderTypeOK
  BY LoaderAssumption DEF LoaderTypeOK, LoaderInit, LoaderOff
<1>3. PageTypeOK /\ ResultTypeOK
  BY <1>1, <1>2 DEF PageTypeOK, ResultTypeOK, NoTries, NoLive, NoLists
<1>4. RoundsLeft /\ Counted
  BY <1>0, <1>1 DEF RoundsLeft, Counted
<1>5. Reported /\ LoaderOnPage /\ SeenIsKept /\ LinkedAreSorted
  BY DEF Reported, LoaderOnPage, SeenIsKept, LinkedAreSorted, LoaderInit, LoaderOff
<1>6. Listed
  BY DEF Listed, NoLists
<1> QED BY <1>3, <1>4, <1>5, <1>6 DEF CrawlInv, PageInv, ResultInv

\* Leaving the loops.
LEMMA StopsSafe ==
    ASSUME PageInv, Stops
    PROVE  PageInv' /\ pc' = "sort"
<1> USE CrawlAssumption
<1>1. PageTypeOK'
  <2>1. LoaderTypeOK'
    BY LoaderAssumption DEF Stops, LoaderIsOver, LoaderTypeOK, LoaderOff
  <2>2. page'.rounds \in 0 .. MaxPages
    BY DEF Stops, NoLive
  <2>3. tries' \in [attempt : 0 .. MaxRetries, polls : 0 .. MaxPolls, loads : Nat]
    BY DEF Stops, NoTries
  <2> QED BY <2>1, <2>2, <2>3 DEF PageInv, PageTypeOK, Stops, Goto, NoLive
<1>2. Counted'
  BY DEF Stops, Counted, NoTries
<1>3. RoundsLeft' /\ LoaderOnPage' /\ SeenIsKept'
  BY DEF PageInv, Stops, Goto, RoundsLeft, LoaderOnPage, SeenIsKept, LoaderIsOver, LoaderOff
<1> QED BY <1>1, <1>2, <1>3 DEF PageInv, Stops, Goto

\* An error.
LEMMA RaiseSafe ==
    ASSUME CrawlInv, Raise
    PROVE  CrawlInv'
<1> USE CrawlAssumption
<1>1. PageTypeOK'
  <2>1. LoaderTypeOK'
    BY LoaderAssumption DEF Raise, LoaderIsOver, LoaderTypeOK, LoaderOff
  <2>2. page'.rounds \in 0 .. MaxPages
    BY DEF Raise, NoLive
  <2>3. tries' \in [attempt : 0 .. MaxRetries, polls : 0 .. MaxPolls, loads : Nat]
    BY DEF Raise, NoTries
  <2> QED BY <2>1, <2>2, <2>3 DEF CrawlInv, PageInv, PageTypeOK, Raise, Goto, NoLive
<1>2. Counted'
  BY DEF Raise, Counted, NoTries
<1>3. RoundsLeft' /\ LoaderOnPage' /\ SeenIsKept'
  BY DEF CrawlInv, PageInv, Raise, Goto, RoundsLeft, LoaderOnPage, SeenIsKept, LoaderIsOver, LoaderOff
<1>4. ResultInv'
  BY DEF CrawlInv, ResultInv, Raise, Goto, ResultTypeOK, Reported, Listed, LinkedAreSorted, InLoop, NoLists
<1> QED BY <1>1, <1>2, <1>3, <1>4 DEF CrawlInv, PageInv

\* The results are left alone, or a challenge ends the crawl.
LEMMA ResultsKept ==
    ASSUME ResultInv, InLoop, InLoop' \/ pc' = "sort", UNCHANGED resultVars
    PROVE  ResultInv'
  BY DEF ResultInv, InLoop, resultVars, ResultTypeOK, Reported, Listed, LinkedAreSorted

LEMMA ChallengeSafe ==
    ASSUME ResultInv, InLoop, pc' = "sort", Challenged, UNCHANGED <<lists, outcome>>
    PROVE  ResultInv'
<1>1. ResultTypeOK' /\ Reported'
  BY DEF ResultInv, InLoop, Challenged, ResultTypeOK, Reported
<1>2. Listed' /\ LinkedAreSorted'
  BY DEF ResultInv, InLoop, Challenged, Listed, LinkedAreSorted, ResultTypeOK
<1> QED BY <1>1, <1>2 DEF ResultInv

\* Another load of the same page.
LEMMA AgainSafe ==
    ASSUME PageInv, InLoop,
           NEW a \in 0 .. MaxRetries, NEW p \in 0 .. MaxPolls, Again(a, p),
           \/ a = tries.attempt /\ p = tries.polls + 1
           \/ a = tries.attempt + 1 /\ p = 0
    PROVE  PageInv' /\ InLoop'
<1> USE CrawlAssumption
<1>0. /\ tries.attempt \in Nat /\ tries.polls \in Nat /\ tries.polls <= MaxPolls /\ tries.loads \in Nat
      /\ tries'.attempt = a /\ tries'.polls = p /\ tries'.loads = tries.loads + 1
  BY DEF PageInv, PageTypeOK, Again
<1>1. Counted'
  <2>1. tries.loads <= tries.attempt * (MaxPolls + 1) + tries.polls
    BY DEF PageInv, Counted
  <2>2. /\ tries.loads + 1 <= tries.attempt * (MaxPolls + 1) + (tries.polls + 1)
        /\ tries.loads + 1 <= (tries.attempt + 1) * (MaxPolls + 1) + 0
    BY <1>0, <2>1, CountedAgain
  <2> QED BY <1>0, <2>2 DEF Counted
<1>2. PageTypeOK'
  BY <1>0 DEF PageInv, PageTypeOK, Again, loaderVars, LoaderTypeOK
<1>3. RoundsLeft' /\ LoaderOnPage' /\ SeenIsKept' /\ InLoop'
  BY DEF PageInv, Again, RoundsLeft, LoaderOnPage, SeenIsKept, loaderVars, InLoop, LoaderOff, Links
<1> QED BY <1>1, <1>2, <1>3 DEF PageInv

LEMMA LoadFailsSafe ==
    ASSUME CrawlInv, LoadFails
    PROVE  CrawlInv'
<1>0. InLoop /\ PageInv /\ ResultInv /\ tries.attempt \in Nat
  BY DEF LoadFails, InLoop, CrawlInv, PageInv, PageTypeOK
<1>1. CASE MayRetry /\ Retry /\ UNCHANGED <<stage, met>>
  <2>1. tries.attempt + 1 \in 0 .. MaxRetries /\ 0 \in 0 .. MaxPolls
    BY <1>0, <1>1, CrawlAssumption DEF MayRetry
  <2>2. PageInv' /\ InLoop'
    BY <1>0, <1>1, <2>1, AgainSafe DEF Retry
  <2>3. UNCHANGED resultVars
    BY <1>1 DEF LoadFails, resultVars
  <2> QED BY <1>0, <2>2, <2>3, ResultsKept DEF CrawlInv
<1>2. CASE Stops /\ UNCHANGED met
  <2>1. PageInv' /\ pc' = "sort"
    BY <1>0, <1>2, StopsSafe
  <2>2. UNCHANGED <<lists, terminal, outcome, met>>
    BY <1>0, <1>2 DEF LoadFails
  <2>3. ResultInv'
    BY <1>0, <2>1, <2>2 DEF ResultInv, InLoop, ResultTypeOK, Reported, Listed, LinkedAreSorted
  <2> QED BY <2>1, <2>3 DEF CrawlInv
<1> QED BY <1>1, <1>2 DEF LoadFails

LEMMA LoadReturnsSafe ==
    ASSUME CrawlInv, NEW v \in Views, NEW answer, NEW ok \in BOOLEAN, LoadReturns(v, answer, ok)
    PROVE  CrawlInv'
<1> USE CrawlAssumption
<1>0. InLoop /\ PageInv /\ ResultInv /\ tries.attempt \in 0 .. MaxRetries /\ tries.polls \in 0 .. MaxPolls
  BY DEF LoadReturns, InLoop, CrawlInv, PageInv, PageTypeOK
<1>1. CASE Stops /\ Challenged /\ UNCHANGED <<lists, outcome>>
  BY <1>0, <1>1, StopsSafe, ChallengeSafe DEF CrawlInv
<1>2. CASE MayPoll /\ Again(tries.attempt, tries.polls + 1) /\ UNCHANGED resultVars
  <2>1. tries.polls + 1 \in 0 .. MaxPolls
    BY <1>0, <1>2 DEF MayPoll
  <2> QED BY <1>0, <1>2, <2>1, AgainSafe, ResultsKept DEF CrawlInv
<1>3. CASE MayRetry /\ Retry /\ UNCHANGED resultVars
  <2>1. tries.attempt + 1 \in 0 .. MaxRetries /\ 0 \in 0 .. MaxPolls
    BY <1>0, <1>3 DEF MayRetry
  <2> QED BY <1>0, <1>3, <2>1, AgainSafe, ResultsKept DEF CrawlInv, Retry
<1>4. CASE /\ page' = [ok |-> ok, live |-> v, final |-> v, rounds |-> 0]
           /\ tries' = NoTries
           /\ Goto("live")
           /\ UNCHANGED <<url, visited, resultVars, loaderVars>>
  <2>1. PageTypeOK'
    <3>1. page' \in [ok : BOOLEAN, live : Views \cup {NoView}, final : Views \cup {NoView},
                      rounds : 0 .. MaxPages]
      BY <1>4
    <3>2. tries' \in [attempt : 0 .. MaxRetries, polls : 0 .. MaxPolls, loads : Nat]
      BY <1>4 DEF NoTries
    <3> QED BY <1>0, <1>4, <3>1, <3>2 DEF PageInv, PageTypeOK, LoaderTypeOK, loaderVars, Goto
  <2>2. Counted'
    BY <1>4 DEF Counted, NoTries
  <2>3. RoundsLeft' /\ LoaderOnPage' /\ SeenIsKept' /\ InLoop'
    <3>1. loader = LoaderOff /\ loader' = LoaderOff
      BY <1>4 DEF CrawlInv, PageInv, LoaderOnPage, LoadReturns, loaderVars
    <3> QED BY <1>0, <1>4, <3>1 DEF PageInv, RoundsLeft, LoaderOnPage, SeenIsKept, InLoop, Goto, LoaderOff
  <2> QED BY <1>0, <1>4, <2>1, <2>2, <2>3, ResultsKept DEF CrawlInv, PageInv
<1> QED BY <1>1, <1>2, <1>3, <1>4 DEF LoadReturns

LEMMA ExpandSafe ==
    ASSUME CrawlInv, NEW v \in Views, Expand(v)
    PROVE  CrawlInv'
<1>0. InLoop /\ InLoop' /\ PageInv /\ ResultInv /\ UNCHANGED resultVars
  BY DEF Expand, InLoop, CrawlInv, Goto
<1>1. PageTypeOK'
  <2>1. LoaderTypeOK'
    <3>1. loader' = LoaderOff /\ seen' \subseteq Linked /\ snapshots' = <<>>
      BY DEF Expand, Links
    <3>2. MaxRounds \in Nat \ {0}
      BY LoaderAssumption
    <3> QED BY <3>1, <3>2 DEF LoaderTypeOK, LoaderOff
  <2> QED BY <1>0, <2>1 DEF PageInv, PageTypeOK, Expand, Goto
<1>2. Counted' /\ RoundsLeft' /\ LoaderOnPage' /\ SeenIsKept'
  <2>1. page'.rounds = page.rounds /\ page.rounds < MaxPages /\ page'.live = v
    BY <1>0 DEF Expand, PageInv, PageTypeOK
  <2>2. Links(v)' = Links(v)
    BY DEF Links
  <2> QED BY <1>0, <2>1, <2>2 DEF PageInv, Expand, Counted, RoundsLeft, LoaderOnPage, SeenIsKept, LoaderOff, Links
<1> QED BY <1>0, <1>1, <1>2, ResultsKept DEF CrawlInv, PageInv

LEMMA NothingLiveSafe ==
    ASSUME CrawlInv, NothingLive \/ NoNext
    PROVE  CrawlInv'
  BY StopsSafe, ResultsKept DEF CrawlInv, NothingLive, NoNext, InLoop

LEMMA StartLoaderSafe ==
    ASSUME CrawlInv, StartLoader
    PROVE  CrawlInv'
<1>0. InLoop /\ InLoop' /\ PageInv /\ ResultInv /\ UNCHANGED resultVars /\ page.ok /\ pc = "collect"
  BY DEF StartLoader, InLoop, CrawlInv, MayAct
<1>1. PageTypeOK'
  <2>1. LoaderTypeOK'
    <3> DEFINE Loaders == [phase : {"off", "load_more", "scroll", "done"}, rounds : 0 .. MaxRounds,
                           unchanged : 0 .. 2, challenged : BOOLEAN]
    <3>1. LoaderOff \in Loaders
      BY LoaderAssumption DEF LoaderOff
    <3>2. \A l \in Loaders : [l EXCEPT !.phase = "load_more"] \in Loaders
      OBVIOUS
    <3>3. loader' \in Loaders
      BY <3>1, <3>2 DEF StartLoader, LoaderStarts
    <3> QED BY <3>3 DEF StartLoader, LoaderStarts, LoaderTypeOK, Links
  <2> QED BY <1>0, <2>1 DEF PageInv, PageTypeOK, StartLoader, pageVars
<1>2. Counted' /\ RoundsLeft' /\ LoaderOnPage' /\ SeenIsKept'
  BY <1>0 DEF PageInv, StartLoader, LoaderStarts, pageVars, Counted, RoundsLeft, LoaderOnPage, SeenIsKept, Links
<1> QED BY <1>0, <1>1, <1>2, ResultsKept DEF CrawlInv, PageInv

LEMMA LoaderRunsSafe ==
    ASSUME CrawlInv, LoaderRuns
    PROVE  CrawlInv'
<1>0. InLoop /\ InLoop' /\ PageInv /\ ResultInv /\ UNCHANGED <<resultVars, pc, pageVars>> /\ pc = "collect"
  BY DEF LoaderRuns, InLoop, CrawlInv
<1>1. /\ LoaderTypeOK' /\ loader.phase # "off"
      /\ ToSet(snapshots) \subseteq ToSet(snapshots')
      /\ seen' \ seen \subseteq UNION {Links(v) : v \in ToSet(snapshots')}
  BY <1>0, LoaderStepSafe DEF LoaderRuns, PageInv, PageTypeOK
<1>2. PageTypeOK' /\ Counted' /\ RoundsLeft' /\ LoaderOnPage'
  BY <1>0, <1>1 DEF PageInv, PageTypeOK, pageVars, Counted, RoundsLeft, LoaderOnPage
<1>3. SeenIsKept'
  BY <1>0, <1>1 DEF PageInv, pageVars, SeenIsKept, Links
<1> QED BY <1>0, <1>2, <1>3, ResultsKept DEF CrawlInv, PageInv

LEMMA CollectEndsSafe ==
    ASSUME CrawlInv, NEW v \in Views, CollectEnds(v)
    PROVE  CrawlInv'
<1>0. InLoop /\ InLoop' /\ PageInv /\ ResultInv /\ UNCHANGED resultVars /\ pc = "collect" /\ pc' = "parse"
  BY DEF CollectEnds, InLoop, CrawlInv, Goto
<1>1. PageTypeOK' /\ page'.live = page.live /\ page'.ok = page.ok /\ page'.rounds = page.rounds
  BY <1>0 DEF PageInv, PageTypeOK, CollectEnds, loaderVars, LoaderTypeOK
<1>2. Counted' /\ RoundsLeft' /\ LoaderOnPage' /\ SeenIsKept'
  BY <1>0, <1>1 DEF PageInv, CollectEnds, loaderVars, Counted, RoundsLeft, LoaderOnPage, SeenIsKept, Links
<1> QED BY <1>0, <1>1, <1>2, ResultsKept DEF CrawlInv, PageInv

LEMMA ParsePagesSafe ==
    ASSUME CrawlInv, ParsePages
    PROVE  CrawlInv'
<1>0. InLoop /\ PageInv /\ ResultInv /\ UNCHANGED outcome /\ pc = "parse" /\ (loader.challenged => page.ok)
  BY DEF ParsePages, InLoop, CrawlInv, PageInv, LoaderOnPage
<1>1. Rows \subseteq People \X Classes
  BY <1>0, RowsTyped DEF PageInv, PageTypeOK, LoaderTypeOK
<1>3. PageInv' /\ (InLoop' \/ pc' = "sort") /\ (InLoop' => ~loader.challenged /\ page.ok)
      /\ pc' \in {"next", "sort"} /\ (pc' = "sort" => loader.challenged \/ ~page.ok)
  <2>1. CASE loader.challenged \/ ~page.ok
    BY <1>0, <2>1, StopsSafe DEF ParsePages, InLoop
  <2>2. CASE ~(loader.challenged \/ ~page.ok)
    <3>1. /\ pc' = "next" /\ page' = [page EXCEPT !.live = NoView]
          /\ LoaderIsOver /\ UNCHANGED <<url, visited, tries>>
      BY <2>2 DEF ParsePages, Goto
    <3>2. MaxRounds \in Nat \ {0}
      BY LoaderAssumption
    <3>3. LoaderTypeOK'
      BY <3>1, <3>2 DEF LoaderIsOver, LoaderTypeOK, LoaderOff
    <3>4. PageTypeOK' /\ page'.rounds = page.rounds
      BY <1>0, <3>1, <3>3 DEF PageInv, PageTypeOK
    <3>5. Counted' /\ RoundsLeft' /\ LoaderOnPage' /\ SeenIsKept'
      BY <1>0, <3>1, <3>4 DEF PageInv, Counted, RoundsLeft, LoaderOnPage, SeenIsKept, LoaderIsOver, LoaderOff
    <3> QED BY <2>2, <3>1, <3>4, <3>5 DEF PageInv, InLoop
  <2> QED BY <2>1, <2>2
<1>4. terminal = "none" /\ ~met.challenged
  BY <1>0 DEF ResultInv, Reported
<1>5. CASE page.ok
  <2>1. /\ lists' = [records |-> lists.records \cup Parsed("include"),
                     pending |-> lists.pending \cup Parsed("pending"),
                     review |-> lists.review \cup Parsed("review"),
                     excluded |-> lists.excluded \cup Parsed("exclude")]
        /\ met' = [met EXCEPT !.rows = @ \cup Rows, !.challenged = @ \/ loader.challenged]
    BY <1>5 DEF ParsePages
  <2>2. /\ met'.rows = met.rows \cup Rows /\ met'.challenged = loader.challenged
        /\ met'.rows \subseteq People \X Classes
        /\ loader.challenged \in BOOLEAN
    <3>1. met'.rows = met.rows \cup Rows
          /\ met'.challenged = (met.challenged \/ loader.challenged) /\ loader.challenged \in BOOLEAN
      BY <2>1, <1>0 DEF ResultInv, ResultTypeOK, PageInv, PageTypeOK, LoaderTypeOK
    <3> QED BY <3>1, <1>0, <1>1, <1>4 DEF ResultInv, ResultTypeOK
  <2>3. terminal' = IF loader.challenged THEN "verification_required" ELSE "none"
    BY <1>4 DEF ParsePages
  <2>4. ResultTypeOK'
    BY <1>0, <2>1, <2>2, <2>3 DEF ResultInv, ResultTypeOK, Parsed
  <2>5. Reported'
    BY <1>3, <1>5, <2>2, <2>3 DEF Reported, InLoop
  <2>6. Listed' /\ LinkedAreSorted'
    BY <1>0, <1>3, <2>1, <2>2 DEF ResultInv, Listed, LinkedAreSorted, Parsed, InLoop
  <2> QED BY <1>3, <2>4, <2>5, <2>6 DEF CrawlInv, ResultInv
<1>6. CASE ~page.ok
  <2>1. UNCHANGED <<lists, met>> /\ terminal' = terminal
    BY <1>0, <1>6 DEF ParsePages
  <2>2. ResultInv'
    BY <1>0, <1>3, <1>4, <2>1
       DEF ResultInv, ResultTypeOK, Reported, Listed, LinkedAreSorted, InLoop
  <2> QED BY <1>3, <2>2 DEF CrawlInv
<1> QED BY <1>5, <1>6

LEMMA NextPageSafe ==
    ASSUME CrawlInv, NEW q \in Pages, NextPage(q)
    PROVE  CrawlInv'
<1>0. InLoop /\ PageInv /\ ResultInv /\ UNCHANGED resultVars /\ pc = "next"
  BY DEF NextPage, InLoop, CrawlInv
<1>1. CASE Stops
  BY <1>0, <1>1, StopsSafe, ResultsKept DEF CrawlInv
<1>2. CASE /\ q \notin visited /\ ~(Cardinality(visited) >= MaxPages)
           /\ url' = q /\ visited' = visited \cup {q}
           /\ page' = NoLive
           /\ Goto("load")
           /\ UNCHANGED <<tries, loaderVars>>
  <2>1. /\ IsFiniteSet(visited') /\ Cardinality(visited') = Cardinality(visited) + 1
        /\ Cardinality(visited) \in Nat
    BY <1>0, <1>2, FS_AddElement, FS_CardinalityType DEF PageInv, RoundsLeft
  <2>2. Cardinality(visited') <= MaxPages
    BY <2>1, <1>2, CrawlAssumption
  <2>3. PageTypeOK'
    <3>1. page' \in [ok : BOOLEAN, live : Views \cup {NoView}, final : Views \cup {NoView},
                      rounds : 0 .. MaxPages]
      BY <1>2, CrawlAssumption DEF NoLive
    <3> QED BY <1>0, <1>2, <2>2, <3>1 DEF PageInv, PageTypeOK, LoaderTypeOK, loaderVars, Goto
  <2>4. Counted' /\ RoundsLeft'
    BY <1>0, <1>2, <2>1 DEF PageInv, Counted, RoundsLeft, Goto
  <2>5. LoaderOnPage' /\ SeenIsKept' /\ InLoop'
    <3>1. loader = LoaderOff /\ loader' = LoaderOff
      BY <1>0, <1>2 DEF PageInv, LoaderOnPage, loaderVars
    <3> QED BY <1>2, <3>1 DEF LoaderOnPage, SeenIsKept, InLoop, Goto, LoaderOff
  <2> QED BY <1>0, <2>3, <2>4, <2>5, ResultsKept DEF CrawlInv, PageInv
<1> QED BY <1>1, <1>2 DEF NextPage

LEMMA DynamicNextSafe ==
    ASSUME CrawlInv, NEW v \in Views, NEW answer, DynamicNext(v, answer)
    PROVE  CrawlInv'
<1>0. InLoop /\ PageInv /\ ResultInv /\ pc = "next" /\ page.rounds < MaxPages
  BY DEF DynamicNext, InLoop, CrawlInv, PageInv, RoundsLeft
<1>1. CASE Stops /\ Challenged /\ UNCHANGED <<lists, outcome>>
  BY <1>0, <1>1, StopsSafe, ChallengeSafe DEF CrawlInv
<1>2. CASE /\ Stops
           /\ terminal' = IF lists.records = {} THEN "failed" ELSE "review_recommended"
           /\ UNCHANGED <<lists, outcome, met>>
  <2>1. PageInv' /\ pc' = "sort"
    BY <1>0, <1>2, StopsSafe
  <2>2. ResultInv'
    BY <1>0, <1>2, <2>1 DEF ResultInv, ResultTypeOK, Reported, Listed, LinkedAreSorted, InLoop
  <2> QED BY <2>1, <2>2 DEF CrawlInv
<1>3. CASE Stops /\ UNCHANGED resultVars
  BY <1>0, <1>3, StopsSafe, ResultsKept DEF CrawlInv
<1>4. CASE /\ page' = [page EXCEPT !.live = v, !.final = v, !.rounds = @ + 1]
           /\ Goto("live")
           /\ UNCHANGED <<url, visited, tries, resultVars, loaderVars>>
  <2>1. PageTypeOK'
    <3>1. page.rounds + 1 \in 0 .. MaxPages
      BY <1>0, CrawlAssumption DEF PageInv, PageTypeOK
    <3> QED BY <1>0, <1>4, <3>1 DEF PageInv, PageTypeOK, LoaderTypeOK, loaderVars, Goto
  <2>2. Counted' /\ RoundsLeft'
    BY <1>0, <1>4 DEF PageInv, Counted, RoundsLeft, Goto
  <2>3. LoaderOnPage' /\ SeenIsKept' /\ InLoop'
    <3>1. loader = LoaderOff /\ loader' = LoaderOff
      BY <1>0, <1>4 DEF PageInv, LoaderOnPage, loaderVars
    <3> QED BY <1>4, <3>1 DEF LoaderOnPage, SeenIsKept, InLoop, Goto, LoaderOff
  <2> QED BY <1>0, <1>4, <2>1, <2>2, <2>3, ResultsKept DEF CrawlInv, PageInv
<1> QED BY <1>1, <1>2, <1>3, <1>4 DEF DynamicNext

LEMMA SortSafe ==
    ASSUME CrawlInv, Sort
    PROVE  CrawlInv'
<1>0. /\ PageInv /\ ResultInv /\ pc = "sort" /\ pc' = "end"
      /\ UNCHANGED <<pageVars, terminal, stage, met, loaderVars>>
  BY DEF CrawlInv, Sort, Goto
<1>1. PageInv'
  <2>1. PageTypeOK'
    BY <1>0 DEF PageInv, PageTypeOK, LoaderTypeOK, pageVars, loaderVars
  <2>2. loader = LoaderOff /\ loader' = LoaderOff
    BY <1>0 DEF PageInv, LoaderOnPage, loaderVars
  <2> QED BY <1>0, <2>1, <2>2
          DEF PageInv, Counted, RoundsLeft, LoaderOnPage, SeenIsKept, LoaderOff, pageVars
<1>2. /\ lists'.records = lists.records
      /\ lists'.pending = Unless(lists.pending, Keys(lists.records \cap Linked))
      /\ lists'.review = Unless(lists.review, Keys(lists.records))
      /\ lists'.excluded = Unless(lists.excluded, Keys(lists.records))
      /\ lists' \in [records : SUBSET People, pending : SUBSET People,
                    review : SUBSET People, excluded : SUBSET People]
  BY <1>0 DEF Sort, ResultInv, ResultTypeOK, Unless
<1>3. ResultTypeOK' /\ Reported'
  BY <1>0, <1>2 DEF Sort, ResultInv, ResultTypeOK, Reported, OutcomeOf, InLoop
<1>4. Listed'
  BY <1>0 DEF Listed
<1>5. ASSUME NEW p \in Linked, NEW people \in SUBSET People
      PROVE  Key(p) \in Keys(people) <=> p \in people
  <2>1. NoLink \notin People /\ p \in People
    BY LoaderAssumption, CrawlAssumption
  <2> QED BY <2>1 DEF Key, Keys
<1>6. LinkedAreSorted'
  <2>1. /\ lists.records = {p \in People : <<p, "include">> \in met.rows}
        /\ lists.pending = {p \in People : <<p, "pending">> \in met.rows}
        /\ lists.review = {p \in People : <<p, "review">> \in met.rows}
        /\ lists.excluded = {p \in People : <<p, "exclude">> \in met.rows}
        /\ lists.records \in SUBSET People
    BY <1>0 DEF ResultInv, Listed
  <2>2. \A p \in Linked : p \in lists'.pending <=> p \in lists.pending /\ p \notin lists.records
    <3>1. lists.records \cap Linked \in SUBSET People
      BY <2>1
    <3>2. \A p \in Linked : Key(p) \in Keys(lists.records \cap Linked) <=> p \in lists.records \cap Linked
      BY <1>5, <3>1
    <3> QED BY <1>2, <3>2 DEF Unless
  <2>3. \A p \in Linked : /\ p \in lists'.review <=> p \in lists.review /\ p \notin lists.records
                          /\ p \in lists'.excluded <=> p \in lists.excluded /\ p \notin lists.records
    BY <1>2, <1>5, <2>1 DEF Unless
  <2>4. ASSUME NEW p \in Linked, NEW class \in Classes, <<p, class>> \in met.rows
        PROVE  p \in lists'.records \cup lists'.pending \cup lists'.review \cup lists'.excluded
    <3>1. p \in People
      BY LoaderAssumption
    <3> QED BY <1>2, <2>1, <2>2, <2>3, <2>4, <3>1 DEF Classes
  <2>5. lists'.records \cap Linked \cap (lists'.pending \cup lists'.review \cup lists'.excluded) = {}
    BY <1>2, <2>2, <2>3
  <2>6. \A p \in People : <<p, "include">> \in met.rows => p \in lists'.records
    BY <1>2, <2>1
  <2> QED BY <1>0, <2>4, <2>5, <2>6 DEF LinkedAreSorted
<1> QED BY <1>1, <1>3, <1>4, <1>6 DEF CrawlInv, ResultInv

LEMMA CrawlInvNext == CrawlInv /\ [CrawlNext]_crawlVars => CrawlInv'
<1> SUFFICES ASSUME CrawlInv, [CrawlNext]_crawlVars PROVE CrawlInv'
  OBVIOUS
<1>1. CASE LoadFails
  BY <1>1, LoadFailsSafe
<1>2. CASE \E v \in Views, answer \in {"parse", "retry", "challenge", "stop", "wait"}, ok \in BOOLEAN :
               LoadReturns(v, answer, ok)
  BY <1>2, LoadReturnsSafe
<1>3. CASE NothingLive \/ NoNext
  BY <1>3, NothingLiveSafe
<1>4. CASE StartLoader
  BY <1>4, StartLoaderSafe
<1>5. CASE LoaderRuns
  BY <1>5, LoaderRunsSafe
<1>6. CASE \E v \in Views : Expand(v) \/ CollectEnds(v)
  BY <1>6, ExpandSafe, CollectEndsSafe
<1>7. CASE ParsePages
  BY <1>7, ParsePagesSafe
<1>8. CASE ParseRaises \/ Raises
  BY <1>8, RaiseSafe DEF ParseRaises, Raises
<1>9. CASE \E q \in Pages : NextPage(q)
  BY <1>9, NextPageSafe
<1>10. CASE \E v \in Views, answer \in {"parse", "retry", "challenge", "stop", "wait"} : DynamicNext(v, answer)
  BY <1>10, DynamicNextSafe
<1>11. CASE Sort
  BY <1>11, SortSafe
<1>12. CASE UNCHANGED crawlVars
  <2>1. PageInv'
    BY <1>12 DEF crawlVars, pageVars, loaderVars, CrawlInv, PageInv, PageTypeOK, LoaderTypeOK, RoundsLeft,
                 Counted, LoaderOnPage, SeenIsKept, LoaderOff, Links
  <2>2. ResultInv'
    BY <1>12 DEF crawlVars, resultVars, CrawlInv, ResultInv, ResultTypeOK, Reported, Listed, LinkedAreSorted, InLoop
  <2> QED BY <2>1, <2>2 DEF CrawlInv
<1> QED BY <1>1, <1>2, <1>3, <1>4, <1>5, <1>6, <1>7, <1>8, <1>9, <1>10, <1>11, <1>12
        DEF CrawlNext, CrawlStep

-----------------------------------------------------------------------------
(* The theorems.                                                           *)

\* The invariant that carries the proofs: types, counters, places and lists.
THEOREM CrawlInvariant == CrawlSpec => []CrawlInv
<1>1. CrawlInit => CrawlInv
  BY CrawlInvInit
<1>2. CrawlInv /\ [CrawlNext]_crawlVars => CrawlInv'
  BY CrawlInvNext
<1> QED BY <1>1, <1>2, PTL DEF CrawlSpec

\* The crawl keeps its types and the limits of its counters (_crawl_pages and the loader).
THEOREM CrawlTypeCorrect == CrawlSpec => []CrawlTypeOK
<1>1. CrawlInv => CrawlTypeOK
  BY DEF CrawlInv, PageInv, ResultInv, PageTypeOK, ResultTypeOK, CrawlTypeOK
<1> QED BY <1>1, CrawlInvariant, PTL

\* No page is loaded more often than its retries and polls allow (retry_decision, render_polls).
THEOREM LoadsBoundedHolds == CrawlSpec => []LoadsBounded
<1>1. CrawlInv => LoadsBounded
  <2> SUFFICES ASSUME CrawlInv PROVE LoadsBounded
    OBVIOUS
  <2>1. /\ tries.attempt \in 0 .. MaxRetries /\ tries.polls \in 0 .. MaxPolls /\ tries.loads \in Nat
        /\ MaxRetries \in Nat /\ MaxPolls \in Nat
        /\ tries.loads <= tries.attempt * (MaxPolls + 1) + tries.polls
    BY CrawlAssumption DEF CrawlInv, PageInv, PageTypeOK, Counted
  <2>2. tries.attempt * (MaxPolls + 1) <= MaxRetries * (MaxPolls + 1)
    BY <2>1
  <2>3. MaxRetries * (MaxPolls + 1) + MaxPolls = MaxRetries + (MaxRetries + 1) * MaxPolls
    BY <2>1
  <2>4. tries.attempt * (MaxPolls + 1) \in Nat /\ MaxRetries * (MaxPolls + 1) \in Nat
    BY <2>1
  <2> QED BY <2>1, <2>2, <2>3, <2>4 DEF LoadsBounded
<1> QED BY <1>1, CrawlInvariant, PTL

\* A challenge met anywhere decides the outcome (_outcome_from_records).
THEOREM ChallengeIsReportedHolds == CrawlSpec => []ChallengeIsReported
<1>1. CrawlInv => ChallengeIsReported
  BY DEF CrawlInv, ResultInv, Reported, ChallengeIsReported
<1> QED BY <1>1, CrawlInvariant, PTL

\* What the loader has counted as seen is parsed (collect_dynamic_snapshots, rendered_pages).
THEOREM SeenIsParsedHolds == CrawlSpec => []SeenIsParsed
<1>1. CrawlInv => SeenIsParsed
  <2> SUFFICES ASSUME CrawlInv, pc = "parse"
               PROVE  seen \subseteq UNION {Links(v) : v \in ToSet(Rendered)}
    BY DEF SeenIsParsed
  <2>1. seen \subseteq Links(page.live) \cup UNION {Links(v) : v \in ToSet(snapshots)}
    BY DEF CrawlInv, PageInv, SeenIsKept
  <2>2. {page.live} \cup ToSet(snapshots) \subseteq ToSet(Rendered)
    BY RenderedSet DEF CrawlInv, PageInv, PageTypeOK, LoaderTypeOK
  <2> QED BY <2>1, <2>2
<1> QED BY <1>1, CrawlInvariant, PTL

\* Nobody with a profile link is lost or listed twice (the end of _crawl_pages).
THEOREM LinkedAreSortedHolds == CrawlSpec => []LinkedAreSorted
<1>1. CrawlInv => LinkedAreSorted
  BY DEF CrawlInv, ResultInv
<1> QED BY <1>1, CrawlInvariant, PTL
=============================================================================
