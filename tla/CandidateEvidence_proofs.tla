----------------------- MODULE CandidateEvidence_proofs -----------------------
(***************************************************************************)
(* Proofs about CandidateEvidence, for every set of names, addresses and   *)
(* pages, every listing and every answer of a model.                       *)
(*                                                                         *)
(* That people have one seed each rests on the shape of the keys: a key    *)
(* that was lengthened because of somebody else's ends in the name, which  *)
(* is one that is compared, so that a new seed never takes the place of    *)
(* another (SeedsInv).                                                     *)
(*                                                                         *)
(* What is accepted rests on the draft between the requests: its page was  *)
(* read, and its address is printed there or on the card (DraftInv), or,   *)
(* without a model, is the one the page alone gives (LocalInv).  That      *)
(* nobody is dropped is shown person by person: those before the one at    *)
(* hand are accounted for, and a step only removes candidate rows          *)
(* (AccountedInv).                                                         *)
(***************************************************************************)
EXTENDS CandidateEvidence, FiniteSetTheorems, TLAPS

CardKeys == {<<u>> : u \in Urls}
            \cup {<<n, e, d>> : n \in Names \cup {NoName}, e \in Emails \cup {NoEmail}, d \in Urls}

\* A key is a card's, or one lengthened by the name of its seed.
Shaped(seed) ==
    \/ seed.key \in CardKeys
    \/ Keyed(seed.name) /\ \E k \in CardKeys : seed.key = k \o <<seed.name>>

Quoted == [name : Names, title : Titles, email : Emails \cup {NoEmail}]
SeedKeys == CardKeys \cup {k \o <<n>> : k \in CardKeys, n \in Names}
Seeds ==
    [key : SeedKeys,
     name : Names, title : Titles, url : Urls \cup {NoUrl}, email : Emails \cup {NoEmail},
     quotes : SUBSET (Urls \X Quoted), dir : Urls]

\* A seed's address is on one of its cards.
Quoting(seed) == seed.email # NoEmail => \E q \in seed.quotes : q[2].email = seed.email

Distinct(ss) ==
    \A i, j \in DOMAIN ss : i # j => ss[i].key # ss[j].key /\ ~SameName(ss[i].name, ss[j].name)
Sound(ss) ==
    /\ ss \in Seq(Seeds)
    /\ Distinct(ss)
    /\ \A i \in DOMAIN ss : Shaped(ss[i])
    /\ \A i \in DOMAIN ss : \A q \in ss[i].quotes : ~Differ(q[2].name, ss[i].name)
    /\ \A i \in DOMAIN ss : Quoting(ss[i])

SeedsInv ==
    /\ cards \in Seq(Cards) /\ linked \in Seq(Cards)
    /\ Sound(seeds)

-----------------------------------------------------------------------------
(* Seeds.                                                                  *)

LEMMA KeyOfTyped ==
    ASSUME NEW card \in Cards
    PROVE  KeyOf(card) \in CardKeys
BY EvidenceAssumption DEF KeyOf, Cards, CardKeys

\* A lengthened key has an even length and ends in its name, a card's an odd one.
LEMMA KeysTold ==
    ASSUME NEW k \in CardKeys, NEW l \in CardKeys, NEW n \in Names, NEW m \in Names
    PROVE  /\ k # l \o <<n>>
           /\ k \o <<n>> = l \o <<m>> => n = m
<1>1. CASE \E u, v \in Urls : k = <<u>> /\ l = <<v>>
  BY <1>1
<1>2. CASE \E u \in Urls, a \in Names \cup {NoName}, e \in Emails \cup {NoEmail}, d \in Urls : k = <<u>> /\ l = <<a, e, d>>
  BY <1>2
<1>3. CASE \E u \in Urls, a \in Names \cup {NoName}, e \in Emails \cup {NoEmail}, d \in Urls : l = <<u>> /\ k = <<a, e, d>>
  BY <1>3
<1>4. CASE \E a, b \in Names \cup {NoName}, e, f \in Emails \cup {NoEmail}, d, c \in Urls : k = <<a, e, d>> /\ l = <<b, f, c>>
  BY <1>4
<1>5. ASSUME NEW j \in CardKeys
      PROVE  \/ \E u \in Urls : j = <<u>>
             \/ \E a \in Names \cup {NoName}, e \in Emails \cup {NoEmail}, d \in Urls : j = <<a, e, d>>
  BY DEF CardKeys
<1>6. /\ \/ \E u \in Urls : k = <<u>>
         \/ \E a \in Names \cup {NoName}, e \in Emails \cup {NoEmail}, d \in Urls : k = <<a, e, d>>
      /\ \/ \E u \in Urls : l = <<u>>
         \/ \E a \in Names \cup {NoName}, e \in Emails \cup {NoEmail}, d \in Urls : l = <<a, e, d>>
  BY <1>5
<1> QED BY <1>1, <1>2, <1>3, <1>4, <1>6

\* With one seed per name, a card without a home is of somebody new.
LEMMA HomelessIsNew ==
    ASSUME NEW ss, Sound(ss), NEW card \in Cards, Home(ss, card) = {}
    PROVE  \A i \in DOMAIN ss : ~SameName(ss[i].name, card.name)
<1> SUFFICES ASSUME NEW i \in DOMAIN ss, ss[i].name = card.name, Keyed(card.name) PROVE FALSE
  BY DEF SameName
<1>1. Named(ss, card.name) = {i}
  BY DEF Named, Sound, Distinct, SameName
<1>2. Cardinality(Named(ss, card.name)) = 1
  BY <1>1, FS_Singleton
<1> QED BY <1>1, <1>2 DEF Home

LEMMA HomeIsOfName ==
    ASSUME NEW ss, NEW card \in Cards
    PROVE  \A i \in Home(ss, card) : i \in DOMAIN ss /\ ~Differ(ss[i].name, card.name)
BY DEF Home, Named, Differ

LEMMA CardIsSeed ==
    ASSUME NEW ss, Sound(ss), NEW card \in Cards, Home(ss, card) = {},
           \A i \in DOMAIN ss : ~SameName(ss[i].name, card.name)
    PROVE  LET seed == SeedOf(card, NewKey(ss, card))
           IN /\ seed \in Seeds /\ Shaped(seed) /\ seed.name = card.name /\ Quoting(seed)
              /\ \A q \in seed.quotes : ~Differ(q[2].name, seed.name)
              /\ \A i \in DOMAIN ss : ss[i].key # seed.key
<1> DEFINE seed == SeedOf(card, NewKey(ss, card))
<1>1. KeyOf(card) \in CardKeys
  BY KeyOfTyped
<1>2. /\ card.name \in Names /\ card.title \in Titles /\ card.url \in Urls \cup {NoUrl}
      /\ card.email \in Emails \cup {NoEmail} /\ card.dir \in Urls
  BY DEF Cards
<1>3. seed.key = NewKey(ss, card) /\ seed.name = card.name
  BY DEF SeedOf
<1>4. seed.key \in CardKeys \/ (Keyed(seed.name) /\ seed.key = KeyOf(card) \o <<seed.name>>)
  BY <1>1, <1>3 DEF NewKey, Differ
<1>5. Shaped(seed)
  BY <1>1, <1>4 DEF Shaped
<1>6. seed.key \in SeedKeys
  BY <1>1, <1>2, <1>3, <1>4 DEF SeedKeys
<1>7. seed.quotes = {<<card.dir, QuoteOf(card)>>}
      /\ QuoteOf(card) \in Quoted /\ QuoteOf(card).name = card.name
  BY <1>2 DEF SeedOf, QuoteOf, Show, Quoted
<1>8. seed \in Seeds
  <2>1. seed.quotes \in SUBSET (Urls \X Quoted)
    BY <1>2, <1>7
  <2>2. seed = [key |-> seed.key, name |-> card.name, title |-> card.title, url |-> card.url,
                email |-> card.email, quotes |-> seed.quotes, dir |-> card.dir]
    BY DEF SeedOf
  <2> HIDE DEF seed
  <2> QED BY <1>2, <1>6, <2>1, <2>2 DEF Seeds
<1>9. \A i \in DOMAIN ss : ss[i].key # seed.key
  <2> SUFFICES ASSUME NEW i \in DOMAIN ss, ss[i].key = seed.key PROVE FALSE
    OBVIOUS
  <2>0. ss[i] \in Seeds
    BY DEF Sound
  <2>1. ss[i].name \in Names /\ Shaped(ss[i]) /\ ~SameName(ss[i].name, card.name)
    BY <2>0 DEF Sound, Seeds
  <2>2. CASE \E j \in DOMAIN ss : ss[j].key = KeyOf(card) /\ Differ(ss[j].name, card.name)
    <3>1. seed.key = KeyOf(card) \o <<card.name>>
      BY <1>3, <2>2 DEF NewKey
    <3>2. CASE ss[i].key \in CardKeys
      BY <3>1, <3>2, <1>1, <1>2, KeysTold
    <3>3. CASE Keyed(ss[i].name) /\ \E k \in CardKeys : ss[i].key = k \o <<ss[i].name>>
      BY <3>1, <3>3, <1>1, <1>2, <2>1, KeysTold DEF SameName
    <3> QED BY <2>1, <3>2, <3>3 DEF Shaped
  <2>3. CASE ~\E j \in DOMAIN ss : ss[j].key = KeyOf(card) /\ Differ(ss[j].name, card.name)
    <3>1. ss[i].key = KeyOf(card)
      BY <2>3, <1>3 DEF NewKey
    <3> QED BY <2>3, <3>1 DEF Home
  <2> QED BY <2>2, <2>3
<1>10. Quoting(seed)
  BY <1>7 DEF Quoting, SeedOf, QuoteOf, Show
<1> QED BY <1>3, <1>5, <1>7, <1>8, <1>9, <1>10 DEF Differ

LEMMA MergedIsSeed ==
    ASSUME NEW seed \in Seeds, NEW card \in Cards, ~Differ(seed.name, card.name), Quoting(seed)
    PROVE  /\ Merged(seed, card) \in Seeds
           /\ Merged(seed, card).key = seed.key /\ Merged(seed, card).name = seed.name
           /\ Merged(seed, card).quotes = seed.quotes \cup {<<card.dir, QuoteOf(card)>>}
           /\ ~Differ(QuoteOf(card).name, seed.name) /\ Quoting(Merged(seed, card))
<1>1. /\ card.name \in Names /\ card.title \in Titles /\ card.url \in Urls \cup {NoUrl}
      /\ card.email \in Emails \cup {NoEmail} /\ card.dir \in Urls
  BY DEF Cards
<1>2. QuoteOf(card) \in Quoted /\ QuoteOf(card).name = card.name
  BY <1>1 DEF QuoteOf, Show, Quoted
<1>3. /\ seed.email \in Emails \cup {NoEmail} /\ seed.title \in Titles
      /\ seed.url \in Urls \cup {NoUrl} /\ seed.quotes \in SUBSET (Urls \X Quoted)
  BY DEF Seeds
<1>4. /\ Agreed(seed.email, card.email) \in Emails \cup {NoEmail}
      /\ OrElse(seed.title, card.title, "none") \in Titles
      /\ OrElse(seed.url, card.url, NoUrl) \in Urls \cup {NoUrl}
  BY <1>1, <1>3 DEF Agreed, OrElse
<1>5. seed.quotes \cup {<<card.dir, QuoteOf(card)>>} \in SUBSET (Urls \X Quoted)
  BY <1>1, <1>2, <1>3
<1>6. /\ Merged(seed, card).key = seed.key /\ Merged(seed, card).name = seed.name
      /\ Merged(seed, card).quotes = seed.quotes \cup {<<card.dir, QuoteOf(card)>>}
  BY DEF Merged, Seeds
<1>7. Merged(seed, card) \in Seeds
  <2> DEFINE title == OrElse(seed.title, card.title, "none")
             url   == OrElse(seed.url, card.url, NoUrl)
             email == Agreed(seed.email, card.email)
             quotes == seed.quotes \cup {<<card.dir, QuoteOf(card)>>}
  <2>1. Merged(seed, card) = [seed EXCEPT !.title = title, !.url = url, !.email = email, !.quotes = quotes]
    BY DEF Merged
  <2>2. /\ title \in Titles /\ url \in Urls \cup {NoUrl} /\ email \in Emails \cup {NoEmail}
        /\ quotes \in SUBSET (Urls \X Quoted)
    BY <1>4, <1>5
  <2> HIDE DEF title, url, email, quotes
  <2>3. seed.key \in SeedKeys /\ seed.name \in Names /\ seed.dir \in Urls
    BY DEF Seeds
  <2>4. Merged(seed, card) = [key |-> seed.key, name |-> seed.name, title |-> title, url |-> url,
                              email |-> email, quotes |-> quotes, dir |-> seed.dir]
    BY <2>1 DEF Seeds
  <2> QED BY <2>2, <2>3, <2>4 DEF Seeds
<1>8. Quoting(Merged(seed, card))
  <2>1. Merged(seed, card).email = Agreed(seed.email, card.email)
    BY DEF Merged, Seeds
  <2>2. Agreed(seed.email, card.email) \in {seed.email, card.email, NoEmail}
    BY DEF Agreed, OrElse
  <2>3. QuoteOf(card).email = card.email
    BY DEF QuoteOf, Show
  <2> DEFINE merged == Merged(seed, card)
             new == <<card.dir, QuoteOf(card)>>
  <2>4. new \in merged.quotes /\ new[2] = QuoteOf(card) /\ seed.quotes \subseteq merged.quotes
    BY <1>6
  <2> HIDE DEF merged, new
  <2>5. CASE merged.email = NoEmail
    BY <2>5 DEF Quoting, merged
  <2>6. CASE merged.email # NoEmail /\ merged.email = seed.email
    <3>1. PICK q \in seed.quotes : q[2].email = seed.email
      BY <2>6 DEF Quoting
    <3> QED BY <2>4, <2>6, <3>1 DEF Quoting, merged
  <2>7. CASE merged.email = card.email
    <3>1. new[2].email = merged.email
      BY <2>3, <2>4, <2>7
    <3> QED BY <2>4, <3>1 DEF Quoting, merged
  <2> QED BY <2>1, <2>2, <2>5, <2>6, <2>7 DEF merged
<1> QED BY <1>2, <1>6, <1>7, <1>8 DEF Differ

\* _store_directory_seed keeps people apart, whatever the card.
LEMMA StoreSeedSound ==
    ASSUME NEW ss, Sound(ss), NEW card \in Cards
    PROVE  Sound(StoreSeed(ss, card))
<1> USE DEF Distinct
<1>1. CASE card.name \in Labs
  BY <1>1 DEF StoreSeed
<1>2. CASE card.name \notin Labs /\ Home(ss, card) = {}
  <2> DEFINE seed == SeedOf(card, NewKey(ss, card))
  <2>1. \A i \in DOMAIN ss : ~SameName(ss[i].name, card.name)
    BY <1>2, HomelessIsNew
  <2>2. /\ seed \in Seeds /\ Shaped(seed) /\ seed.name = card.name /\ Quoting(seed)
        /\ \A q \in seed.quotes : ~Differ(q[2].name, seed.name)
        /\ \A i \in DOMAIN ss : ss[i].key # seed.key
    BY <1>2, <2>1, CardIsSeed
  <2> HIDE DEF seed
  <2>3. StoreSeed(ss, card) = Append(ss, seed)
    BY <1>2, <2>2 DEF StoreSeed, Put, seed
  <2>4. /\ Append(ss, seed) \in Seq(Seeds)
        /\ DOMAIN Append(ss, seed) = DOMAIN ss \cup {Len(ss) + 1}
        /\ \A i \in DOMAIN ss : Append(ss, seed)[i] = ss[i]
        /\ Append(ss, seed)[Len(ss) + 1] = seed
    BY <2>2 DEF Sound
  <2> DEFINE new == Append(ss, seed)
  <2> HIDE DEF new
  <2>5. /\ new \in Seq(Seeds) /\ DOMAIN new = DOMAIN ss \cup {Len(ss) + 1}
        /\ \A i \in DOMAIN ss : new[i] = ss[i]
        /\ new[Len(ss) + 1] = seed
    BY <2>4 DEF new
  <2>6. Distinct(new)
    BY <2>1, <2>2, <2>5 DEF Sound, SameName
  <2>8. \A i \in DOMAIN new :
           Shaped(new[i]) /\ Quoting(new[i]) /\ \A q \in new[i].quotes : ~Differ(q[2].name, new[i].name)
    BY <2>2, <2>5 DEF Sound
  <2> QED BY <2>3, <2>5, <2>6, <2>8 DEF Sound, new
<1>3. CASE card.name \notin Labs /\ Home(ss, card) # {}
  <2> DEFINE new == [i \in DOMAIN ss |-> IF i \in Home(ss, card) THEN Merged(ss[i], card) ELSE ss[i]]
  <2>1. StoreSeed(ss, card) = new
    BY <1>3 DEF StoreSeed
  <2>2. DOMAIN new = DOMAIN ss
    OBVIOUS
  <2>3. ASSUME NEW i \in DOMAIN ss
        PROVE  /\ new[i] \in Seeds /\ new[i].key = ss[i].key /\ new[i].name = ss[i].name
               /\ (\A q \in new[i].quotes : ~Differ(q[2].name, new[i].name)) /\ Quoting(new[i])
    <3>1. CASE i \in Home(ss, card)
      <4>1. ss[i] \in Seeds /\ ~Differ(ss[i].name, card.name) /\ Quoting(ss[i])
        BY <3>1, HomeIsOfName DEF Sound
      <4>2. new[i] = Merged(ss[i], card)
        BY <3>1
      <4>3. /\ new[i] \in Seeds /\ new[i].key = ss[i].key /\ new[i].name = ss[i].name
            /\ new[i].quotes = ss[i].quotes \cup {<<card.dir, QuoteOf(card)>>}
            /\ ~Differ(QuoteOf(card).name, ss[i].name) /\ Quoting(new[i])
        BY <4>1, <4>2, MergedIsSeed
      <4> QED BY <4>3 DEF Sound
    <3>2. CASE i \notin Home(ss, card)
      BY <3>2 DEF Sound
    <3> QED BY <3>1, <3>2
  <2> HIDE DEF new
  <2>4. new \in Seq(Seeds)
    <3>1. DOMAIN ss = 1 .. Len(ss) /\ Len(ss) \in Nat
      BY DEF Sound
    <3>2. new = [i \in 1 .. Len(ss) |-> new[i]]
      BY <3>1 DEF new
    <3>3. new \in [1 .. Len(ss) -> Seeds]
      BY <2>3, <3>1, <3>2
    <3> QED BY <3>1, <3>3
  <2>5. \A i \in DOMAIN new : Shaped(new[i])
    BY <2>2, <2>3 DEF Sound, Shaped
  <2>6. Distinct(new)
    BY <2>2, <2>3 DEF Sound
  <2>8. \A i \in DOMAIN new : Quoting(new[i]) /\ \A q \in new[i].quotes : ~Differ(q[2].name, new[i].name)
    BY <2>2, <2>3
  <2> QED BY <2>1, <2>4, <2>5, <2>6, <2>8 DEF Sound
<1> QED BY <1>1, <1>2, <1>3

LEMMA SeedsInvStep ==
    ASSUME SeedsInv, [Next]_vars
    PROVE  SeedsInv'
<1>1. CASE Collect
  <2>1. Head(cards) \in Cards /\ cards' \in Seq(Cards)
    BY <1>1 DEF Collect, SeedsInv
  <2>2. Sound(seeds')
    BY <1>1, <2>1, StoreSeedSound DEF Collect, SeedsInv
  <2> QED BY <1>1, <2>1, <2>2 DEF Collect, SeedsInv, Sound, Distinct, Shaped, Quoting
<1>2. CASE ProfilesEnd
  <2>1. cards' = linked /\ linked' = <<>> /\ seeds' = seeds
    BY <1>2 DEF ProfilesEnd
  <2>2. cards' \in Seq(Cards) /\ linked' \in Seq(Cards)
    BY <2>1 DEF SeedsInv
  <2> QED BY <2>1, <2>2 DEF SeedsInv, Sound, Distinct, Shaped, Quoting
<1>4. CASE UNCHANGED <<cards, linked, seeds>>
  BY <1>4 DEF SeedsInv, Sound, Distinct, Shaped, Quoting
<1>5. ASSUME ~(Collect \/ ProfilesEnd)
      PROVE  UNCHANGED <<cards, linked, seeds>>
  BY <1>5 DEF Next, vars, Collected, SkipEarly, EarlyFails, EarlyRow, SkipPerson, Exclude, AcceptCards,
              ReviewUnread, DecideCards, Discover, ReadPerson, Ask, AskFails, Resolve, PeopleEnd
<1> QED BY <1>1, <1>2, <1>4, <1>5

\* _store_directory_seed: people who share a profile URL stay apart, cards of one person
\* come together, for every listing, as far as normalize_key leaves something of a name.
THEOREM OneSeedPerPersonHolds == Spec => []OneSeedPerPerson
<1>1. Init => SeedsInv
  <2> SUFFICES ASSUME Init PROVE SeedsInv
    OBVIOUS
  <2>1. cards \in Seq(Cards) /\ linked \in Seq(Cards)
    BY EvidenceAssumption DEF Init
  <2> QED BY <2>1 DEF Init, SeedsInv, Sound, Distinct
<1>2. SeedsInv => OneSeedPerPerson
  BY DEF SeedsInv, Sound, Distinct, OneSeedPerPerson
<1> QED BY <1>1, <1>2, SeedsInvStep, PTL DEF Spec

-----------------------------------------------------------------------------
(* The budget.                                                             *)

SpendInv == spent \in Nat /\ SpendIsBounded

\* _provider_call asks before each request, so that one request at most passes the budget.
THEOREM SpendIsBoundedHolds == Spec => []SpendIsBounded
<1>1. Init => SpendInv
  BY EvidenceAssumption DEF Init, SpendInv, SpendIsBounded
<1>2. SpendInv /\ [Next]_vars => SpendInv'
  <2> SUFFICES ASSUME SpendInv, [Next]_vars PROVE SpendInv'
    OBVIOUS
  <2>1. CASE Ask
    <3>1. PICK cost \in 0 .. MaxCost : spent' = spent + cost
      BY <2>1 DEF Ask
    <3>2. spent + Estimate <= Budget
      BY <2>1 DEF Ask, Affordable
    <3> QED BY <3>1, <3>2, EvidenceAssumption DEF SpendInv, SpendIsBounded
  <2>2. CASE ~Ask
    <3>1. spent' = spent
      BY <2>2 DEF Next, vars, Collect, Collected, SkipEarly, EarlyFails, EarlyRow, ProfilesEnd, SkipPerson, Exclude,
                  AcceptCards, ReviewUnread, DecideCards, Discover, ReadPerson, AskFails, Resolve, PeopleEnd
    <3> QED BY <3>1 DEF SpendInv, SpendIsBounded
  <2> QED BY <2>1, <2>2
<1> QED BY <1>1, <1>2, PTL DEF Spec, SpendInv

-----------------------------------------------------------------------------
(* Accepted rows.                                                          *)

\* A row that is accepted was found to have no duplicate among those that stay.
LEMMA AcceptedIsNew ==
    ASSUME AcceptedAreDistinct, NEW rs, rs \subseteq rows, NEW x, NEW status,
           status = "accepted" => Decide(x, rs) = "accepted",
           rows' \subseteq rs \cup {RowOf(x, status)}
    PROVE  AcceptedAreDistinct'
<1> DEFINE row == RowOf(x, status)
<1>1. row.status = status /\ row.name = x.name /\ row.email = x.email /\ row.home = x.home
  BY DEF RowOf
<1> HIDE DEF row
<1>2. Accepted' \subseteq Accepted \cup (IF status = "accepted" THEN {row} ELSE {})
  BY <1>1 DEF Accepted, row
<1>3. ASSUME status = "accepted", NEW s \in rs, s.status = "accepted"
      PROVE  /\ ~SameName(row.name, s.name) /\ s.email # row.email
             /\ row.home # NoUrl => s.home # row.home
  <2>1. Duplicates(x, rs) = {} /\ Complete(x)
    BY <1>3 DEF Decide
  <2>2. x.name # NoName /\ x.email # NoEmail
    BY <2>1, EvidenceAssumption DEF Complete
  <2> QED BY <1>1, <1>3, <2>1, <2>2 DEF Duplicates
<1>4. ASSUME NEW r \in Accepted', NEW s \in Accepted', r # s
      PROVE  /\ ~SameName(r.name, s.name) /\ r.email # s.email
             /\ r.home # NoUrl => r.home # s.home
  <2>1. CASE r # row /\ s # row
    <3>1. r \in Accepted /\ s \in Accepted
      BY <1>2, <1>4, <2>1
    <3> QED BY <1>4, <3>1 DEF AcceptedAreDistinct
  <2>2. CASE r = row
    <3>1. s \in rs /\ s.status = "accepted" /\ row.status = "accepted"
      BY <1>4, <2>2 DEF Accepted, row
    <3> QED BY <1>1, <1>3, <2>2, <3>1
  <2>3. CASE s = row
    <3>1. r \in rs /\ r.status = "accepted" /\ row.status = "accepted"
      BY <1>4, <2>3 DEF Accepted, row
    <3> QED BY <1>1, <1>3, <2>3, <3>1 DEF SameName
  <2> QED BY <2>1, <2>2, <2>3
<1> QED BY <1>4 DEF AcceptedAreDistinct

LEMMA KeptIsOfRows == Kept \subseteq rows
BY DEF Kept

\* Accepted people share neither name nor address nor homepage (duplicate_reasons).
THEOREM AcceptedAreDistinctHolds == Spec => []AcceptedAreDistinct
<1>1. Init => AcceptedAreDistinct
  BY DEF Init, AcceptedAreDistinct, Accepted
<1>2. AcceptedAreDistinct /\ [Next]_vars => AcceptedAreDistinct'
  <2> SUFFICES ASSUME AcceptedAreDistinct, [Next]_vars PROVE AcceptedAreDistinct'
    OBVIOUS
  <2>1. ASSUME rows' \subseteq rows PROVE AcceptedAreDistinct'
    BY <2>1 DEF AcceptedAreDistinct, Accepted
  <2>2. CASE EarlyRow
    <3>1. \/ rows' = rows
          \/ Add(RowOf(WithCards(LocalExtraction(PageAt[Current.url], Current), Current), "candidate"), rows)
      BY <2>2 DEF EarlyRow
    <3>2. rows' = rows
          \/ rows' = rows \cup {RowOf(WithCards(LocalExtraction(PageAt[Current.url], Current), Current), "candidate")}
      BY <3>1 DEF Add
    <3> QED BY <2>1, <3>2, AcceptedIsNew
  <2>3. CASE Exclude
    <3>1. PICK x : Add(RowOf(x, "rejected"), Kept)
      BY <2>3 DEF Exclude
    <3>2. rows' \subseteq Kept \cup {RowOf(x, "rejected")}
      BY <3>1 DEF Add
    <3> QED BY <3>2, AcceptedIsNew, KeptIsOfRows
  <2>4. CASE AcceptCards
    <3>1. PICK included \in BOOLEAN :
             /\ FastPath(Current, included, Kept)
             /\ Add(RowOf(CardsAlone(Current, included), "accepted"), Kept)
      BY <2>4 DEF AcceptCards
    <3> DEFINE x == CardsAlone(Current, included)
    <3>2. Decide(x, Kept) = "accepted" /\ rows' \subseteq Kept \cup {RowOf(x, "accepted")}
      BY <3>1 DEF Add, FastPath
    <3> QED BY <3>2, AcceptedIsNew, KeptIsOfRows
  <2>5. CASE ReviewUnread
    <3>1. PICK x : Add(RowOf(x, "review"), Kept)
      BY <2>5 DEF ReviewUnread
    <3>2. rows' \subseteq Kept \cup {RowOf(x, "review")}
      BY <3>1 DEF Add
    <3> QED BY <3>2, AcceptedIsNew, KeptIsOfRows
  <2>6. CASE DecideCards
    <3>1. PICK x : Add(RowOf(x, Decide(x, Kept)), Kept)
      BY <2>6 DEF DecideCards
    <3>2. rows' \subseteq Kept \cup {RowOf(x, Decide(x, Kept))}
      BY <3>1 DEF Add
    <3> QED BY <3>2, AcceptedIsNew, KeptIsOfRows
  <2>7. CASE Resolve
    <3>1. PICK x : Save(x)
      BY <2>7 DEF Resolve
    <3> DEFINE y == [x EXCEPT !.official = {page, x.home} \subseteq Official]
    <3>2. rows' \subseteq rows \cup {RowOf(y, Decide(y, rows))}
      BY <3>1 DEF Save
    <3> HIDE DEF y
    <3> QED BY <3>2, AcceptedIsNew
  <2>8. CASE SkipPerson \/ Discover \/ ReadPerson
    BY <2>1, <2>8, KeptIsOfRows DEF SkipPerson, Discover, ReadPerson
  <2>9. ASSUME ~(EarlyRow \/ Exclude \/ AcceptCards \/ ReviewUnread \/ DecideCards \/ Resolve
                 \/ SkipPerson \/ Discover \/ ReadPerson)
        PROVE  rows' \subseteq rows
    BY <2>9 DEF Next, vars, Collect, Collected, SkipEarly, EarlyFails, ProfilesEnd, Ask, AskFails, PeopleEnd
  <2> QED BY <2>1, <2>2, <2>3, <2>4, <2>5, <2>6, <2>7, <2>8, <2>9
<1> QED BY <1>1, <1>2, PTL DEF Spec

-----------------------------------------------------------------------------
(* Where an accepted address comes from.                                   *)

ShownIn(ss, rd, i) == {q[2].email : q \in ss[i].quotes} \cup UNION {PageOf(u).emails : u \in rd}

\* What an extraction's fields are is known from its form.
Fields == {"name", "title", "normal", "email", "verified", "official", "home", "evidence"}
Extraction(x) == x = [f \in Fields |-> x[f]]

\* While a person is at hand, its page was read; an address that counts as verified is
\* on that page or is the seed's.
DraftInv ==
    pc \in {"ask", "ask_again", "resolve"} =>
        /\ at \in DOMAIN seeds /\ page \in read /\ Extraction(draft)
        /\ \E u \in Urls : page = PageAt[u].final
        /\ draft.verified => draft.email \in PageOf(page).emails \cup {Current.email}

PrintedInv ==
    /\ SeedsInv /\ DraftInv /\ AcceptedIsPrinted
    /\ pc \in {"collect", "profiles", "links"} => Accepted = {}

\* A page is found by its final URL.
LEMMA PageOfFinal ==
    ASSUME NEW u \in Urls
    PROVE  PageOf(PageAt[u].final) = PageAt[u]
<1> DEFINE Q == {PageAt[v] : v \in Urls}
<1>1. PageAt[u] \in Q
  OBVIOUS
<1>2. \E p \in Q : p.final = PageAt[u].final
  BY <1>1
<1>3. /\ PageOf(PageAt[u].final) \in Q
      /\ PageOf(PageAt[u].final).final = PageAt[u].final
  BY <1>2 DEF PageOf
<1>4. PICK v \in Urls : PageOf(PageAt[u].final) = PageAt[v]
  BY <1>3
<1> QED BY <1>3, <1>4, EvidenceAssumption

\* The address of a seed is on one of its cards.
LEMMA SeedIsShown ==
    ASSUME Sound(seeds), at \in DOMAIN seeds, Current.email # NoEmail
    PROVE  \A rd : Current.email \in ShownIn(seeds, rd, at)
<1>1. PICK q \in Current.quotes : q[2].email = Current.email
  BY DEF Sound, Quoting, Current
<1> QED BY <1>1 DEF ShownIn, Current

\* A row that is accepted has an address of the school that is shown.
LEMMA PrintedStep ==
    ASSUME AcceptedIsPrinted, NEW rs, rs \subseteq rows, NEW x, NEW status,
           status = "accepted" => Decide(x, rs) = "accepted" /\ x.email \in ShownIn(seeds, read', at),
           rows' \subseteq rs \cup {RowOf(x, status)}, seeds' = seeds, read \subseteq read'
    PROVE  AcceptedIsPrinted'
<1>1. \A i : ShownIn(seeds, read, i) \subseteq ShownIn(seeds, read', i)
  BY DEF ShownIn
<1>2. \A r \in Accepted : r.email \in Local /\ r.email \in ShownIn(seeds, read, r.of)
  BY DEF AcceptedIsPrinted, ShownIn
<1> DEFINE row == RowOf(x, status)
<1>3. row.status = status /\ row.email = x.email /\ row.of = at
  BY DEF RowOf
<1> HIDE DEF row
<1>4. ASSUME NEW r \in Accepted'
      PROVE  r.email \in Local /\ r.email \in ShownIn(seeds, read', r.of)
  <2>1. CASE r \in Accepted
    BY <1>1, <1>2, <2>1
  <2>2. CASE r \notin Accepted
    <3>1. r = row /\ status = "accepted"
      BY <1>3, <1>4, <2>2 DEF Accepted, row
    <3>2. x.email \in Local
      BY <3>1 DEF Decide, Complete
    <3> QED BY <1>3, <3>1, <3>2
  <2> QED BY <2>1, <2>2
<1> QED BY <1>4 DEF AcceptedIsPrinted, ShownIn

LEMMA BlankIsExtraction == Extraction(Blank)
BY DEF Extraction, Fields, Blank

LEMMA AddressWithCards ==
    ASSUME NEW x, Extraction(x), NEW seed, NEW included
    PROVE  LET y == Translated(WithCards(x, seed), included)
           IN /\ Extraction(y)
              /\ y.email = OrElse(x.email, seed.email, NoEmail)
              /\ y.verified = (x.verified \/ (seed.email # NoEmail /\ y.email = seed.email))
<1> DEFINE z == WithCards(x, seed)
           e == OrElse(x.email, seed.email, NoEmail)
           v == x.verified \/ (seed.email # NoEmail /\ e = seed.email)
           n == OrElse(x.name, seed.name, NoName)
           t == OrElse(seed.title, x.title, "none")
           Of(fields) == {Item(f, q[1], q[2]) : f \in fields, q \in seed.quotes}
           shown == {q \in seed.quotes : seed.email # NoEmail /\ q[2].email = seed.email}
           b == IF t = "allowed" THEN "allowed" ELSE x.normal
           w == x.evidence \cup Of({"name"} \cup IF t = "none" THEN {} ELSE {"title"})
                           \cup {Item("email", q[1], q[2]) : q \in shown}
<1>1. z = [x EXCEPT !.name = n, !.title = t, !.email = e, !.normal = b, !.verified = v, !.evidence = w]
  BY DEF WithCards
<1> HIDE DEF n, t, e, v, b, w, z
<1>2. Extraction(z) /\ z.email = e /\ z.verified = v
  BY <1>1 DEF Extraction, Fields
<1>3. Translated(z, included) =
        [z EXCEPT !.normal = IF @ = "none" /\ z.title = "foreign" /\ included THEN "allowed" ELSE @]
  BY DEF Translated
<1>4. /\ Extraction(Translated(z, included))
      /\ Translated(z, included).email = e /\ Translated(z, included).verified = v
  BY <1>2, <1>3 DEF Extraction, Fields
<1> QED BY <1>4 DEF z, e, v

LEMMA AddressOfCards ==
    ASSUME NEW seed, NEW included
    PROVE  CardsAlone(seed, included).email = seed.email
<1>1. PICK n, t, b : CardsAlone(seed, included) =
           [Translated(WithCards([Blank EXCEPT !.name = n, !.email = seed.email, !.title = t, !.normal = b],
                                 seed), included) EXCEPT !.official = seed.dir \in Official]
  BY DEF CardsAlone
<1> DEFINE x == [Blank EXCEPT !.name = n, !.email = seed.email, !.title = t, !.normal = b]
           y == Translated(WithCards(x, seed), included)
<1>2. Extraction(x) /\ x.email = seed.email
  BY BlankIsExtraction DEF Extraction, Fields, Blank
<1> HIDE DEF x
<1>3. Extraction(y) /\ y.email = seed.email
  BY <1>2, AddressWithCards DEF OrElse
<1> HIDE DEF y
<1>4. CardsAlone(seed, included) = [y EXCEPT !.official = seed.dir \in Official]
  BY <1>1 DEF x, y
<1> QED BY <1>3, <1>4 DEF Extraction, Fields

\* What is read without a model is on the page or on a card.
LEMMA AddressOfPage ==
    ASSUME NEW u \in Urls, NEW seed
    PROVE  LET x == LocalExtraction(PageAt[u], seed)
           IN /\ Extraction(x)
              /\ x.verified => x.email \in PageAt[u].emails \cup {seed.email}
<1> DEFINE p == PageAt[u]
           single == Cardinality(p.records) = 1
           record == IF single THEN CHOOSE r \in p.records : TRUE ELSE Show(NoName, "none", NoEmail)
           e == OrElse(record.email, seed.email, NoEmail)
           v == single /\ e # NoEmail
           n == OrElse(record.name, seed.name, NoName)
           known == OrElse(record.title, seed.title, "none")
           t == OrElse(known, IF p.titled THEN "allowed" ELSE "none", "none")
           b == NormalOf(t)
           w == (IF t = "none" THEN {} ELSE {Item("title", p.final, Show(NoName, t, NoEmail))})
                \cup (IF single THEN {Item("name", p.final, record)} ELSE {})
                \cup (IF single /\ e # NoEmail THEN {Item("email", p.final, record)} ELSE {})
<1>1. LocalExtraction(p, seed) =
           [Blank EXCEPT !.name = n, !.email = e, !.title = t, !.normal = b, !.home = p.final,
                         !.verified = v, !.evidence = w]
  BY DEF LocalExtraction
<1>2. ASSUME v PROVE e \in p.emails \cup {seed.email}
  <2>1. p.records # {}
    BY <1>2, FS_EmptySet
  <2>2. record \in p.records
    BY <1>2, <2>1
  <2>3. record.email \in p.emails \cup {NoEmail}
    BY <2>2, EvidenceAssumption
  <2> QED BY <1>2, <2>3 DEF OrElse
<1> HIDE DEF n, t, b, w, e, v, p
<1>3. /\ Extraction(LocalExtraction(p, seed))
      /\ LocalExtraction(p, seed).email = e /\ LocalExtraction(p, seed).verified = v
  BY <1>1, BlankIsExtraction DEF Extraction, Fields, Blank
<1> QED BY <1>2, <1>3 DEF p

\* Of what a model answers only an address of the page is verified.
LEMMA AddressOfAnswer ==
    ASSUME NEW p, NEW a
    PROVE  LET x == Grounded(p, a) IN Extraction(x) /\ (x.verified => x.email \in p.emails)
<1> DEFINE w == {Item(f, p.final, Show(NoName, "none", NoEmail)) : f \in a.shown}
           h == OrElse(a.home, p.final, NoUrl)
           v == Verified(p, a)
<1>1. Grounded(p, a) =
         [Blank EXCEPT !.name = a.name, !.email = a.email, !.title = a.title, !.normal = a.normal,
                       !.home = h, !.verified = v, !.evidence = w]
  BY DEF Grounded
<1>2. v => a.email \in p.emails
  BY DEF Verified
<1> HIDE DEF w, h, v
<1> QED BY <1>1, <1>2, BlankIsExtraction DEF Extraction, Fields, Blank

LEMMA AddressResolved ==
    ASSUME NEW x, Extraction(x), NEW e, NEW url
    PROVE  Extraction(Resolved(x, e, url)) /\ Resolved(x, e, url).email = e
<1>1. PICK w : Resolved(x, e, url) = [x EXCEPT !.email = e, !.verified = TRUE, !.evidence = w]
  BY DEF Resolved
<1> QED BY <1>1 DEF Extraction, Fields

LEMMA BestIsOnPage ==
    ASSUME NEW p, NEW name
    PROVE  Best(p, name) \subseteq p.emails
BY DEF Best

\* Pages an address is taken from have a URL.
LEMMA SourcesHaveUrls ==
    ASSUME NEW name, \E u \in Urls : page = PageAt[u].final
    PROVE  \A p \in Sources(name) : \E u \in Urls : p = PageAt[u]
<1>1. PICK u \in Urls : page = PageAt[u].final
  OBVIOUS
<1>2. PageOf(page) = PageAt[u]
  BY <1>1, PageOfFinal
<1>3. \A i \in DOMAIN PageAt[u].links : PageAt[u].links[i] \in Urls
  BY EvidenceAssumption DEF Pages
<1> QED BY <1>2, <1>3 DEF Sources

\* Steps that read no page for a person leave no person at hand.
LEMMA DraftInvStep ==
    ASSUME PrintedInv, [Next]_vars
    PROVE  DraftInv'
<1>1. ASSUME NEW u \in Urls, Open(PageAt[u]), at \in DOMAIN seeds, at' = at, seeds' = seeds
      PROVE  DraftInv'
  <2> DEFINE p == PageAt[u]
  <2>1. page' = p.final /\ page' \in read' /\ PageOf(page') = p
    BY <1>1, PageOfFinal DEF Open
  <2>2. Extraction(draft') /\ (draft'.verified => draft'.email \in p.emails \cup {Current.email})
    <3>1. CASE model
      <4>1. draft' = Blank
        BY <1>1, <3>1 DEF Open
      <4> QED BY <4>1, BlankIsExtraction DEF Blank
    <3>2. CASE ~model
      <4>1. draft' = LocalExtraction(p, Current)
        BY <1>1, <3>2 DEF Open
      <4> QED BY <4>1, AddressOfPage
    <3> QED BY <3>1, <3>2
  <2> HIDE DEF p
  <2>3. at' \in DOMAIN seeds' /\ Current'.email = Current.email
    BY <1>1 DEF Current
  <2>4. \E w \in Urls : page' = PageAt[w].final
    BY <1>1, <2>1 DEF p
  <2> QED BY <2>1, <2>2, <2>3, <2>4 DEF DraftInv
<1>2. CASE Discover
  <2>1. PICK hint \in Official : Open(PageAt[hint])
    BY <1>2 DEF Discover
  <2>2. at \in DOMAIN seeds /\ at' = at /\ seeds' = seeds /\ hint \in Urls
    BY <1>2, EvidenceAssumption DEF Discover, NeedsPage, Undecided, Person
  <2> QED BY <1>1, <2>1, <2>2
<1>3. CASE ReadPerson
  <2>1. Current \in Seeds /\ at \in DOMAIN seeds /\ Current.url # NoUrl
    BY <1>3 DEF ReadPerson, NeedsPage, Undecided, Person, PrintedInv, SeedsInv, Sound, Current
  <2>2. Current.url \in Urls /\ Open(PageAt[Current.url]) /\ at' = at /\ seeds' = seeds
    BY <1>3, <2>1 DEF ReadPerson, Seeds
  <2> QED BY <1>1, <2>1, <2>2 DEF Current
<1>4. CASE Ask
  <2>1. PICK a \in Answers : draft' = Grounded(PageOf(page), a)
    BY <1>4 DEF Ask
  <2>2. Extraction(draft') /\ (draft'.verified => draft'.email \in PageOf(page).emails)
    BY <2>1, AddressOfAnswer
  <2>3. UNCHANGED <<at, seeds, page, read>> /\ pc \in {"ask", "ask_again", "resolve"}
    BY <1>4 DEF Ask
  <2> QED BY <2>2, <2>3 DEF DraftInv, PrintedInv, Current
<1>5. CASE Collected \/ ProfilesEnd \/ PeopleEnd \/ AskFails
  BY <1>5 DEF Collected, ProfilesEnd, PeopleEnd, AskFails, DraftInv
<1>6. CASE Collect \/ SkipEarly \/ EarlyFails \/ SkipPerson
  BY <1>6 DEF Collect, SkipEarly, EarlyFails, ReadsEarly, SkipPerson, Person, DraftInv
<1>7. CASE EarlyRow \/ Exclude \/ AcceptCards \/ ReviewUnread \/ DecideCards
  <2>1. pc \in {"profiles", "people"} /\ pc' \in {pc, "failed"}
    BY <1>7 DEF EarlyRow, ReadsEarly, Exclude, AcceptCards, ReviewUnread, DecideCards, NeedsPage, Undecided,
                Person, Add
  <2> QED BY <2>1 DEF DraftInv
<1>8. CASE Resolve
  <2>1. pc' \in {"failed", "people"}
    BY <1>8 DEF Resolve, Save
  <2> QED BY <2>1 DEF DraftInv
<1>9. CASE UNCHANGED vars
  BY <1>9 DEF vars, DraftInv, PrintedInv, Current
<1> QED BY <1>2, <1>3, <1>4, <1>5, <1>6, <1>7, <1>8, <1>9 DEF Next

\* Once the cards are in the seeds stay, and what was read was read.
LEMMA ShownStays ==
    ASSUME [Next]_vars, ~Collect
    PROVE  seeds' = seeds /\ read \subseteq read'
BY DEF Next, vars, Collected, SkipEarly, EarlyFails, EarlyRow, ProfilesEnd, SkipPerson, Exclude, AcceptCards,
       ReviewUnread, DecideCards, Discover, ReadPerson, Open, Ask, AskFails, Resolve, PeopleEnd

\* A decision on the cards alone takes the address of a card.
LEMMA CardsArePrinted ==
    ASSUME PrintedInv, at \in DOMAIN seeds, UNCHANGED <<seeds, read>>,
           NEW included, NEW status, status = "accepted" => Decide(CardsAlone(Current, included), Kept) = "accepted",
           Add(RowOf(CardsAlone(Current, included), status), Kept)
    PROVE  AcceptedIsPrinted'
<1> DEFINE x == CardsAlone(Current, included)
<1>1. rows' \subseteq Kept \cup {RowOf(x, status)}
  BY DEF Add
<1>2. ASSUME status = "accepted" PROVE x.email \in ShownIn(seeds, read', at)
  <2>1. x.email \in Local
    BY <1>2 DEF Decide, Complete
  <2>2. x.email = Current.email /\ x.email # NoEmail
    BY <2>1, AddressOfCards, EvidenceAssumption
  <2> QED BY <2>2, SeedIsShown DEF PrintedInv, SeedsInv
<1> HIDE DEF x
<1> QED BY <1>1, <1>2, PrintedStep, KeptIsOfRows DEF PrintedInv, x

\* A person who is decided on from a page takes the address of a page or a card.
LEMMA ResolvedIsPrinted ==
    ASSUME PrintedInv, Resolve, seeds' = seeds, read \subseteq read'
    PROVE  AcceptedIsPrinted'
<1>0. /\ at \in DOMAIN seeds /\ page \in read /\ Extraction(draft)
      /\ draft.verified => draft.email \in PageOf(page).emails \cup {Current.email}
      /\ \E u \in Urls : page = PageAt[u].final
  BY DEF Resolve, PrintedInv, DraftInv
<1>1. seeds' = seeds
  BY DEF Resolve
<1>2. ASSUME NEW x, Extraction(x), Save(x),
             x.verified /\ x.email \in Local => x.email \in ShownIn(seeds, read', at)
      PROVE  AcceptedIsPrinted'
  <2> DEFINE y == [x EXCEPT !.official = {page, x.home} \subseteq Official]
  <2>1. y.email = x.email /\ y.verified = x.verified
    BY <1>2 DEF Extraction, Fields
  <2>2. rows' \subseteq rows \cup {RowOf(y, Decide(y, rows))}
    BY <1>2 DEF Save
  <2> HIDE DEF y
  <2>3. Decide(y, rows) = "accepted" => y.email \in Local /\ y.verified
    BY DEF Decide, Complete
  <2>4. Decide(y, rows) = "accepted" => y.email \in ShownIn(seeds, read', at)
    BY <1>2, <2>1, <2>3
  <2> QED BY <2>2, <2>4, PrintedStep DEF PrintedInv
<1>3. PICK included \in BOOLEAN :
         LET x == Translated(WithCards(draft, Current), included)
             name == OrElse(x.name, Current.name, NoName)
             Own == Best(PageOf(page), name)
         IN \/ Own = {} /\ Save(x) /\ UNCHANGED read
            \/ \E p \in Sources(name) : \E e \in Best(p, name) :
                  Save(Resolved(x, e, p.final)) /\ read' = read \cup {p.final}
  BY DEF Resolve
<1> DEFINE x == Translated(WithCards(draft, Current), included)
           name == OrElse(x.name, Current.name, NoName)
<1>4. /\ Extraction(x) /\ x.email = OrElse(draft.email, Current.email, NoEmail)
      /\ x.verified = (draft.verified \/ (Current.email # NoEmail /\ x.email = Current.email))
  BY <1>0, AddressWithCards
<1>5. \/ Save(x) /\ read' = read
      \/ \E p \in Sources(name) : \E e \in Best(p, name) :
            Save(Resolved(x, e, p.final)) /\ read' = read \cup {p.final}
  BY <1>3
<1> HIDE DEF x, name
<1>6. CASE Save(x) /\ read' = read
  <2> SUFFICES ASSUME x.verified, x.email \in Local
               PROVE  x.email \in ShownIn(seeds, read', at)
    BY <1>2, <1>4, <1>6
  <2>1. x.email # NoEmail
    BY EvidenceAssumption
  <2>2. CASE x.email = Current.email
    BY <1>0, <2>1, <2>2, SeedIsShown DEF PrintedInv, SeedsInv
  <2>3. CASE x.email # Current.email
    <3>1. draft.verified /\ x.email = draft.email
      BY <1>4, <2>3 DEF OrElse
    <3>2. x.email \in PageOf(page).emails
      BY <1>0, <2>3, <3>1
    <3> QED BY <1>0, <1>6, <3>2 DEF ShownIn
  <2> QED BY <2>2, <2>3
<1>7. ASSUME NEW p \in Sources(name), NEW e \in Best(p, name),
             Save(Resolved(x, e, p.final)), read' = read \cup {p.final}
      PROVE  AcceptedIsPrinted'
  <2>1. PICK u \in Urls : p = PageAt[u]
    BY <1>0, SourcesHaveUrls
  <2>2. e \in PageOf(p.final).emails
    BY <2>1, PageOfFinal, BestIsOnPage
  <2>3. e \in ShownIn(seeds, read', at)
    BY <1>7, <2>2 DEF ShownIn
  <2> DEFINE z == Resolved(x, e, p.final)
  <2>4. Extraction(z) /\ z.email = e
    BY <1>4, AddressResolved
  <2>5. Save(z)
    BY <1>7
  <2> HIDE DEF z
  <2> QED BY <1>2, <2>3, <2>4, <2>5
<1> QED BY <1>5, <1>6, <1>7

LEMMA PrintedInvStep ==
    ASSUME PrintedInv, [Next]_vars
    PROVE  PrintedInv'
<1>1. SeedsInv' /\ DraftInv'
  BY SeedsInvStep, DraftInvStep DEF PrintedInv
<1>2. ASSUME ~Collect PROVE AcceptedIsPrinted'
  <2>0. seeds' = seeds /\ read \subseteq read'
    BY <1>2, ShownStays
  <2>1. ASSUME rows' \subseteq rows PROVE AcceptedIsPrinted'
    <3>1. rows' \subseteq rows \cup {RowOf(Blank, "review")}
      BY <2>1
    <3> QED BY <2>0, <3>1, PrintedStep DEF PrintedInv
  <2>2. ASSUME NEW rs, rs \subseteq rows, NEW x, NEW status, status # "accepted",
               Add(RowOf(x, status), rs)
        PROVE  AcceptedIsPrinted'
    <3>1. rows' \subseteq rs \cup {RowOf(x, status)}
      BY <2>2 DEF Add
    <3> QED BY <2>0, <2>2, <3>1, PrintedStep DEF PrintedInv
  <2>3. CASE EarlyRow
    <3>1. \/ rows' = rows
          \/ Add(RowOf(WithCards(LocalExtraction(PageAt[Current.url], Current), Current), "candidate"), rows)
      BY <2>3 DEF EarlyRow
    <3> QED BY <2>1, <2>2, <3>1
  <2>4. CASE Exclude
    <3>1. PICK x : Add(RowOf(x, "rejected"), Kept)
      BY <2>4 DEF Exclude
    <3> QED BY <2>2, <3>1, KeptIsOfRows
  <2>5. CASE AcceptCards
    <3>1. PICK included \in BOOLEAN :
             /\ FastPath(Current, included, Kept)
             /\ Add(RowOf(CardsAlone(Current, included), "accepted"), Kept)
      BY <2>5 DEF AcceptCards
    <3>2. at \in DOMAIN seeds /\ UNCHANGED <<seeds, read>> /\ Decide(CardsAlone(Current, included), Kept) = "accepted"
      BY <2>5, <3>1 DEF AcceptCards, Undecided, Person, FastPath
    <3> QED BY <2>0, <3>1, <3>2, CardsArePrinted
  <2>6. CASE ReviewUnread
    <3>1. PICK x : Add(RowOf(x, "review"), Kept)
      BY <2>6 DEF ReviewUnread
    <3> QED BY <2>2, <3>1, KeptIsOfRows
  <2>7. CASE DecideCards
    <3>1. PICK included \in BOOLEAN :
             Add(RowOf(CardsAlone(Current, included), Decide(CardsAlone(Current, included), Kept)), Kept)
      BY <2>7 DEF DecideCards
    <3>2. at \in DOMAIN seeds /\ UNCHANGED <<seeds, read>>
      BY <2>7 DEF DecideCards, NeedsPage, Undecided, Person
    <3> DEFINE status == Decide(CardsAlone(Current, included), Kept)
    <3>3. Add(RowOf(CardsAlone(Current, included), status), Kept)
      BY <3>1
    <3>4. status = "accepted" => Decide(CardsAlone(Current, included), Kept) = "accepted"
      OBVIOUS
    <3> HIDE DEF status
    <3> QED BY <2>0, <3>2, <3>3, <3>4, CardsArePrinted
  <2>8. CASE Resolve
    BY <2>0, <2>8, ResolvedIsPrinted
  <2>9. CASE SkipPerson \/ Discover \/ ReadPerson
    BY <2>1, <2>9, KeptIsOfRows DEF SkipPerson, Discover, ReadPerson
  <2>10. ASSUME ~(EarlyRow \/ Exclude \/ AcceptCards \/ ReviewUnread \/ DecideCards \/ Resolve
                  \/ SkipPerson \/ Discover \/ ReadPerson)
         PROVE  rows' \subseteq rows
    BY <1>2, <2>10 DEF Next, vars, Collected, SkipEarly, EarlyFails, ProfilesEnd, Ask, AskFails, PeopleEnd
  <2> QED BY <2>1, <2>3, <2>4, <2>5, <2>6, <2>7, <2>8, <2>9, <2>10
<1>3. (pc \in {"collect", "profiles", "links"} => Accepted = {})'
  <2> SUFFICES ASSUME pc' \in {"collect", "profiles", "links"} PROVE Accepted' = {}
    OBVIOUS
  <2>1. CASE pc \in {"collect", "profiles", "links"}
    <3>1. Accepted = {}
      BY <2>1 DEF PrintedInv
    <3>2. CASE EarlyRow
      <4>1. \/ rows' = rows
            \/ rows' = rows \cup {RowOf(WithCards(LocalExtraction(PageAt[Current.url], Current), Current), "candidate")}
        BY <3>2 DEF EarlyRow, Add
      <4> QED BY <3>1, <4>1 DEF Accepted, RowOf
    <3>3. CASE ~EarlyRow
      <4>1. rows' = rows
        BY <2>1, <3>3 DEF Next, vars, Collect, Collected, SkipEarly, EarlyFails, ProfilesEnd, SkipPerson, Exclude,
                          AcceptCards, ReviewUnread, DecideCards, NeedsPage, Undecided, Person, Discover,
                          ReadPerson, Ask, AskFails, Resolve, PeopleEnd
      <4> QED BY <3>1, <4>1 DEF Accepted
    <3> QED BY <3>2, <3>3
  <2>2. CASE pc \notin {"collect", "profiles", "links"}
    <3>1. pc' = pc \/ pc' \in {"failed", "people", "ask", "ask_again", "resolve", "paused", "done"}
      BY <2>2 DEF Next, vars, Collect, Collected, SkipEarly, EarlyFails, ReadsEarly, EarlyRow, ProfilesEnd, SkipPerson,
                  Exclude, AcceptCards, ReviewUnread, DecideCards, Discover, ReadPerson, Open, Ask, AskFails,
                  Resolve, Save, PeopleEnd, Add
    <3> QED BY <2>2, <3>1
  <2> QED BY <2>1, <2>2
<1>4. AcceptedIsPrinted'
  <2>1. CASE Collect
    <3>1. Accepted' = {}
      BY <1>3, <2>1 DEF Collect
    <3> QED BY <3>1 DEF AcceptedIsPrinted
  <2> QED BY <1>2, <2>1
<1> QED BY <1>1, <1>3, <1>4 DEF PrintedInv

\* An accepted address is a personal one of the school, printed on a card of the person
\* or on a page that was read, whatever a model answers (_ground_extraction,
\* _merge_directory_card_evidence, _local_profile_extraction, _best_email).
THEOREM AcceptedIsPrintedHolds == Spec => []AcceptedIsPrinted
<1>1. Init => PrintedInv
  <2> SUFFICES ASSUME Init PROVE PrintedInv
    OBVIOUS
  <2>1. cards \in Seq(Cards) /\ linked \in Seq(Cards)
    BY EvidenceAssumption DEF Init
  <2> QED BY <2>1 DEF Init, PrintedInv, SeedsInv, Sound, Distinct, DraftInv, AcceptedIsPrinted, Accepted
<1> QED BY <1>1, PrintedInvStep, PTL DEF Spec, PrintedInv

-----------------------------------------------------------------------------
(* Whose an accepted address is.                                           *)

\* What ties an address to the row, when the pages rd were read.
Ties(r, rd, ss) ==
    \/ r.name \in Matches[r.email]
    \/ r.name \in Foreign /\ \E u \in rd : PageOf(u).emails \cap Local = {r.email}
    \/ \E i \in r.evidence : i.quote.email = r.email /\ i.quote.name = r.name
    \/ /\ r.name # ss[r.of].name \/ \E q \in ss[r.of].quotes : q[2].name # ss[r.of].name
       /\ \E q \in ss[r.of].quotes : q[2].email = r.email

\* Without a model a person at hand is decided on what the page prints.
LocalInv ==
    /\ pc \in {"ask", "ask_again"} => model
    /\ pc = "resolve" /\ ~model => draft = LocalExtraction(PageOf(page), Current)

\* Printed, tied to its person, and decided on the page: the invariant of AddressIsTheirs.
TheirsInv == PrintedInv /\ LocalInv /\ AddressIsTheirs

\* The address _best_email takes shows the name, or is the only one of a page whose
\* person has a name in another script.
LEMMA BestIsTied ==
    ASSUME NEW u \in Urls, NEW name, NEW e \in Best(PageAt[u], name)
    PROVE  name \in Matches[e] \/ (name \in Foreign /\ PageAt[u].emails \cap Local = {e})
<1> DEFINE ours == PageAt[u].emails \cap Local
           fitting == {f \in ours : name \in Matches[f]}
<1>1. CASE fitting # {}
  BY <1>1 DEF Best
<1>2. CASE fitting = {}
  <2>1. e \in ours /\ Cardinality(ours) = 1 /\ name \in Foreign
    BY <1>2 DEF Best
  <2>2. IsFiniteSet(ours)
    BY FS_Intersection, EvidenceAssumption
  <2>3. \E f : ours = {f}
    BY <2>1, <2>2, FS_Singleton
  <2> QED BY <2>1, <2>3
<1> QED BY <1>1, <1>2

\* An address read on the page itself comes with the name it is printed by.
LEMMA LocalIsTied ==
    ASSUME NEW u \in Urls, NEW seed
    PROVE  LET x == LocalExtraction(PageAt[u], seed)
           IN \/ x.email = seed.email
              \/ x.name # NoName /\ \E i \in x.evidence : i.quote.name = x.name /\ i.quote.email = x.email
<1> DEFINE p == PageAt[u]
           single == Cardinality(p.records) = 1
           record == IF single THEN CHOOSE r \in p.records : TRUE ELSE Show(NoName, "none", NoEmail)
           e == OrElse(record.email, seed.email, NoEmail)
           v == single /\ e # NoEmail
           n == OrElse(record.name, seed.name, NoName)
           known == OrElse(record.title, seed.title, "none")
           t == OrElse(known, IF p.titled THEN "allowed" ELSE "none", "none")
           b == NormalOf(t)
           w == (IF t = "none" THEN {} ELSE {Item("title", p.final, Show(NoName, t, NoEmail))})
                \cup (IF single THEN {Item("name", p.final, record)} ELSE {})
                \cup (IF single /\ e # NoEmail THEN {Item("email", p.final, record)} ELSE {})
<1>1. LocalExtraction(p, seed) =
           [Blank EXCEPT !.name = n, !.email = e, !.title = t, !.normal = b, !.home = p.final,
                         !.verified = v, !.evidence = w]
  BY DEF LocalExtraction
<1>2. CASE record.email = NoEmail
  <2>1. e = seed.email
    BY <1>2 DEF OrElse
  <2> HIDE DEF n, t, b, w, e, v
  <2> QED BY <1>1, <2>1 DEF Blank
<1>3. CASE record.email # NoEmail
  <2>1. single
    BY <1>3 DEF Show
  <2>2. p.records # {}
    BY <2>1, FS_EmptySet
  <2>3. record \in p.records
    BY <2>1, <2>2
  <2>4. record.name \in Names
    BY <2>3, EvidenceAssumption
  <2>5. n = record.name /\ n # NoName /\ e = record.email
    BY <1>3, <2>4, EvidenceAssumption DEF OrElse
  <2>6. Item("email", p.final, record) \in w
    BY <1>3, <2>1, <2>5
  <2>7. Item("email", p.final, record).quote = record
    BY DEF Item
  <2> HIDE DEF n, t, b, w, e, v, record
  <2>8. /\ LocalExtraction(p, seed).name = n /\ LocalExtraction(p, seed).email = e
        /\ LocalExtraction(p, seed).evidence = w
    BY <1>1 DEF Blank
  <2> QED BY <2>5, <2>6, <2>7, <2>8
<1> QED BY <1>2, <1>3

\* The cards add their evidence and their name if there is none.
LEMMA EvidenceWithCards ==
    ASSUME NEW x, Extraction(x), NEW seed, NEW included
    PROVE  LET y == Translated(WithCards(x, seed), included)
           IN /\ y.name = OrElse(x.name, seed.name, NoName)
              /\ x.evidence \subseteq y.evidence
              /\ \A q \in seed.quotes :
                    seed.email # NoEmail /\ q[2].email = seed.email => Item("email", q[1], q[2]) \in y.evidence
<1> DEFINE z == WithCards(x, seed)
           e == OrElse(x.email, seed.email, NoEmail)
           v == x.verified \/ (seed.email # NoEmail /\ e = seed.email)
           n == OrElse(x.name, seed.name, NoName)
           t == OrElse(seed.title, x.title, "none")
           Of(fields) == {Item(f, q[1], q[2]) : f \in fields, q \in seed.quotes}
           shown == {q \in seed.quotes : seed.email # NoEmail /\ q[2].email = seed.email}
           b == IF t = "allowed" THEN "allowed" ELSE x.normal
           w == x.evidence \cup Of({"name"} \cup IF t = "none" THEN {} ELSE {"title"})
                           \cup {Item("email", q[1], q[2]) : q \in shown}
<1>1. z = [x EXCEPT !.name = n, !.title = t, !.email = e, !.normal = b, !.verified = v, !.evidence = w]
  BY DEF WithCards
<1>2. /\ x.evidence \subseteq w
      /\ \A q \in seed.quotes :
            seed.email # NoEmail /\ q[2].email = seed.email => Item("email", q[1], q[2]) \in w
  OBVIOUS
<1> HIDE DEF t, e, v, b, w, z, n
<1>3. z.name = n /\ z.evidence = w /\ Extraction(z)
  BY <1>1 DEF Extraction, Fields
<1>4. Translated(z, included) =
        [z EXCEPT !.normal = IF @ = "none" /\ z.title = "foreign" /\ included THEN "allowed" ELSE @]
  BY DEF Translated
<1>5. Translated(z, included).name = n /\ Translated(z, included).evidence = w
  BY <1>3, <1>4 DEF Extraction, Fields
<1> QED BY <1>2, <1>5 DEF z, n

\* A seed's own address is on one of its cards, under the name of the row unless the cards
\* were merged unseen or the page was of somebody else.
LEMMA SeedIsTied ==
    ASSUME Sound(seeds), at \in DOMAIN seeds, NEW x, NEW status, NEW rd,
           x.email = Current.email, x.email # NoEmail,
           \A q \in Current.quotes :
               Current.email # NoEmail /\ q[2].email = Current.email => Item("email", q[1], q[2]) \in x.evidence
    PROVE  Ties(RowOf(x, status), rd, seeds)
<1>1. PICK q \in Current.quotes : q[2].email = Current.email
  BY DEF Sound, Quoting, Current
<1> DEFINE i == Item("email", q[1], q[2])
           row == RowOf(x, status)
<1>2. i \in x.evidence /\ i.quote = q[2]
  BY <1>1 DEF Item
<1>3. row.evidence = x.evidence /\ row.of = at /\ row.email = x.email
  BY DEF RowOf
<1> HIDE DEF i, row
<1>4. CASE q[2].name = row.name
  BY <1>1, <1>2, <1>3, <1>4 DEF Ties, row
<1>5. CASE q[2].name # row.name
  <2>1. row.name # Current.name \/ q[2].name # Current.name
    BY <1>5
  <2>2. Current = seeds[row.of]
    BY <1>3 DEF Current
  <2> QED BY <1>1, <1>3, <2>1, <2>2 DEF Ties, row
<1> QED BY <1>4, <1>5

\* Reading more unties nothing.
LEMMA TheirsStep ==
    ASSUME AddressIsTheirs, NEW rs, rs \subseteq rows, NEW x, NEW status,
           status = "accepted" => model \/ Ties(RowOf(x, status), read', seeds),
           rows' \subseteq rs \cup {RowOf(x, status)}, read \subseteq read', model' = model, seeds' = seeds
    PROVE  AddressIsTheirs'
<1> DEFINE row == RowOf(x, status)
<1>1. row.status = status
  BY DEF RowOf
<1>2. status = "accepted" => model \/ Ties(row, read', seeds)
  OBVIOUS
<1> HIDE DEF row
<1>3. \A r \in Accepted : model \/ Ties(r, read, seeds)
  BY DEF AddressIsTheirs, Ties, Relinked, Mixed
<1>4. \A r \in Accepted' : r \in Accepted \/ (r = row /\ status = "accepted")
  BY <1>1 DEF Accepted, row
<1>5. \A r : Ties(r, read, seeds) => Ties(r, read', seeds)
  BY DEF Ties
<1>6. \A r \in Accepted' : model \/ Ties(r, read', seeds)
  BY <1>2, <1>3, <1>4, <1>5
<1> QED BY <1>6 DEF AddressIsTheirs, Ties, Relinked, Mixed

LEMMA ReadGrows ==
    ASSUME [Next]_vars
    PROVE  read \subseteq read' /\ model' = model
BY DEF Next, vars, Collect, Collected, SkipEarly, EarlyFails, EarlyRow, ProfilesEnd, SkipPerson, Exclude,
       AcceptCards, ReviewUnread, DecideCards, Discover, ReadPerson, Open, Ask, AskFails, Resolve, PeopleEnd

LEMMA LocalInvStep ==
    ASSUME PrintedInv, LocalInv, [Next]_vars
    PROVE  LocalInv'
<1>1. ASSUME NEW u \in Urls, Open(PageAt[u]), UNCHANGED <<model, seeds, at>>
      PROVE  LocalInv'
  <2>1. page' = PageAt[u].final /\ PageOf(page') = PageAt[u]
    BY <1>1, PageOfFinal DEF Open
  <2>2. CASE model
    BY <1>1, <2>2 DEF Open, LocalInv
  <2>3. CASE ~model
    <3>1. pc' = "resolve" /\ draft' = LocalExtraction(PageAt[u], Current)
      BY <1>1, <2>3 DEF Open
    <3>2. Current' = Current
      BY <1>1 DEF Current
    <3> QED BY <2>1, <3>1, <3>2 DEF LocalInv
  <2> QED BY <2>2, <2>3
<1>2. CASE Discover
  <2>1. PICK hint \in Official : Open(PageAt[hint])
    BY <1>2 DEF Discover
  <2>2. UNCHANGED <<model, seeds, at>> /\ hint \in Urls
    BY <1>2, EvidenceAssumption DEF Discover
  <2> QED BY <1>1, <2>1, <2>2
<1>3. CASE ReadPerson
  <2>1. Current \in Seeds /\ Current.url # NoUrl
    BY <1>3 DEF ReadPerson, NeedsPage, Undecided, Person, PrintedInv, SeedsInv, Sound, Current
  <2>2. Current.url \in Urls /\ Open(PageAt[Current.url]) /\ UNCHANGED <<model, seeds, at>>
    BY <1>3, <2>1 DEF ReadPerson, Seeds
  <2> QED BY <1>1, <2>2
<1>4. CASE Ask
  <2>1. model /\ model' = model
    BY <1>4 DEF Ask, LocalInv
  <2> QED BY <2>1 DEF LocalInv
<1>5. CASE Collected \/ ProfilesEnd \/ PeopleEnd \/ AskFails
  BY <1>5 DEF Collected, ProfilesEnd, PeopleEnd, AskFails, LocalInv
<1>6. CASE Collect \/ SkipEarly \/ EarlyFails \/ SkipPerson
  BY <1>6 DEF Collect, SkipEarly, EarlyFails, ReadsEarly, SkipPerson, Person, LocalInv
<1>7. CASE EarlyRow \/ Exclude \/ AcceptCards \/ ReviewUnread \/ DecideCards
  <2>1. pc \in {"profiles", "people"} /\ pc' \in {pc, "failed"}
    BY <1>7 DEF EarlyRow, ReadsEarly, Exclude, AcceptCards, ReviewUnread, DecideCards, NeedsPage, Undecided,
                Person, Add
  <2> QED BY <2>1 DEF LocalInv
<1>8. CASE Resolve
  <2>1. pc' \in {"failed", "people"}
    BY <1>8 DEF Resolve, Save
  <2> QED BY <2>1 DEF LocalInv
<1>9. CASE UNCHANGED vars
  BY <1>9 DEF vars, LocalInv, Current
<1> QED BY <1>2, <1>3, <1>4, <1>5, <1>6, <1>7, <1>8, <1>9 DEF Next

\* The cards alone give a person the address they show.
LEMMA CardsAreTied ==
    ASSUME TheirsInv, at \in DOMAIN seeds, read \subseteq read', model' = model, seeds' = seeds,
           NEW included, NEW status, status = "accepted" => Decide(CardsAlone(Current, included), Kept) = "accepted",
           Add(RowOf(CardsAlone(Current, included), status), Kept)
    PROVE  AddressIsTheirs'
<1>1. PICK n, t, b : CardsAlone(Current, included) =
           [Translated(WithCards([Blank EXCEPT !.name = n, !.email = Current.email, !.title = t, !.normal = b],
                                 Current), included) EXCEPT !.official = Current.dir \in Official]
  BY DEF CardsAlone
<1> DEFINE x == [Blank EXCEPT !.name = n, !.email = Current.email, !.title = t, !.normal = b]
           y == Translated(WithCards(x, Current), included)
           c == CardsAlone(Current, included)
<1>2. Extraction(x)
  BY BlankIsExtraction DEF Extraction, Fields, Blank
<1> HIDE DEF x
<1>3. /\ Extraction(y)
      /\ \A q \in Current.quotes :
            Current.email # NoEmail /\ q[2].email = Current.email => Item("email", q[1], q[2]) \in y.evidence
  BY <1>2, AddressWithCards, EvidenceWithCards
<1> HIDE DEF y
<1>4. c = [y EXCEPT !.official = Current.dir \in Official]
  BY <1>1 DEF x, y
<1>5. c.evidence = y.evidence /\ c.email = Current.email
  BY <1>3, <1>4, AddressOfCards DEF Extraction, Fields
<1>6. status = "accepted" => c.email # NoEmail
  BY EvidenceAssumption DEF Decide, Complete
<1> HIDE DEF c
<1>7. status = "accepted" => Ties(RowOf(c, status), read', seeds)
  BY <1>3, <1>5, <1>6, SeedIsTied DEF TheirsInv, PrintedInv, SeedsInv
<1>8. rows' \subseteq Kept \cup {RowOf(c, status)}
  BY DEF Add, c
<1> QED BY <1>7, <1>8, TheirsStep, KeptIsOfRows DEF TheirsInv

\* A page and the pages it links give a person an address of that name.
LEMMA ResolvedIsTied ==
    ASSUME TheirsInv, Resolve, read \subseteq read', model' = model, seeds' = seeds
    PROVE  AddressIsTheirs'
<1>0. /\ at \in DOMAIN seeds /\ Extraction(draft)
      /\ \E u \in Urls : page = PageAt[u].final
      /\ ~model => draft = LocalExtraction(PageOf(page), Current)
  BY DEF Resolve, TheirsInv, PrintedInv, DraftInv, LocalInv
<1>1. ASSUME NEW x, Extraction(x), Save(x),
             ASSUME ~model, x.name # NoName, x.email \in Local, NEW status
             PROVE  Ties(RowOf(x, status), read', seeds)
      PROVE  AddressIsTheirs'
  <2> DEFINE y == [x EXCEPT !.official = {page, x.home} \subseteq Official]
             status == Decide(y, rows)
  <2>1. y.email = x.email /\ y.name = x.name /\ y.home = x.home /\ y.normal = x.normal /\ y.evidence = x.evidence
    BY <1>1 DEF Extraction, Fields
  <2>2. rows' \subseteq rows \cup {RowOf(y, status)}
    BY <1>1 DEF Save
  <2>3. status = "accepted" => y.email \in Local /\ y.name # NoName
    BY DEF Decide, Complete
  <2> HIDE DEF y, status
  <2>4. RowOf(y, status) = RowOf(x, status)
    BY <2>1 DEF RowOf
  <2>5. status = "accepted" => model \/ Ties(RowOf(y, status), read', seeds)
    BY <1>1, <2>1, <2>3, <2>4
  <2> QED BY <2>2, <2>5, TheirsStep DEF TheirsInv
<1>2. PICK included \in BOOLEAN :
         LET x == Translated(WithCards(draft, Current), included)
             name == OrElse(x.name, Current.name, NoName)
             Own == Best(PageOf(page), name)
         IN \/ Own = {} /\ Save(x) /\ UNCHANGED read
            \/ \E p \in Sources(name) : \E e \in Best(p, name) :
                  Save(Resolved(x, e, p.final)) /\ read' = read \cup {p.final}
  BY DEF Resolve
<1> DEFINE x == Translated(WithCards(draft, Current), included)
           name == OrElse(x.name, Current.name, NoName)
<1>3. /\ Extraction(x) /\ x.email = OrElse(draft.email, Current.email, NoEmail)
      /\ x.name = OrElse(draft.name, Current.name, NoName)
      /\ draft.evidence \subseteq x.evidence
      /\ \A q \in Current.quotes :
            Current.email # NoEmail /\ q[2].email = Current.email => Item("email", q[1], q[2]) \in x.evidence
  BY <1>0, AddressWithCards, EvidenceWithCards
<1>4. \/ Save(x)
      \/ \E p \in Sources(name) : \E e \in Best(p, name) :
            Save(Resolved(x, e, p.final)) /\ read' = read \cup {p.final}
  BY <1>2
<1>5. x.name # NoName => name = x.name
  BY DEF OrElse
<1> HIDE DEF x, name
<1>6. CASE Save(x)
  <2> SUFFICES ASSUME ~model, x.name # NoName, x.email \in Local, NEW status
               PROVE  Ties(RowOf(x, status), read', seeds)
    BY <1>1, <1>3, <1>6
  <2>1. x.email # NoEmail
    BY EvidenceAssumption
  <2>2. CASE x.email = Current.email
    BY <1>0, <1>3, <2>1, <2>2, SeedIsTied DEF TheirsInv, PrintedInv, SeedsInv
  <2>3. CASE x.email # Current.email
    <3>1. x.email = draft.email
      BY <1>3, <2>3 DEF OrElse
    <3>2. PICK u \in Urls : page = PageAt[u].final
      BY <1>0
    <3>3. draft = LocalExtraction(PageAt[u], Current)
      BY <1>0, <3>2, PageOfFinal
    <3>4. draft.name # NoName /\ \E i \in draft.evidence : i.quote.name = draft.name /\ i.quote.email = draft.email
      BY <2>3, <3>1, <3>3, LocalIsTied
    <3>5. PICK i \in draft.evidence : i.quote.name = draft.name /\ i.quote.email = x.email
      BY <3>1, <3>4
    <3>6. x.name = draft.name /\ i \in x.evidence
      BY <1>3, <3>4, <3>5 DEF OrElse
    <3> QED BY <3>5, <3>6 DEF Ties, RowOf
  <2> QED BY <2>2, <2>3
<1>7. ASSUME NEW p \in Sources(name), NEW e \in Best(p, name),
             Save(Resolved(x, e, p.final)), read' = read \cup {p.final}
      PROVE  AddressIsTheirs'
  <2> DEFINE z == Resolved(x, e, p.final)
  <2>1. PICK u \in Urls : p = PageAt[u]
    BY <1>0, SourcesHaveUrls
  <2>2. Extraction(z) /\ z.email = e
    BY <1>3, AddressResolved
  <2>3. z.name = x.name
    <3>1. PICK w : z = [x EXCEPT !.email = e, !.verified = TRUE, !.evidence = w]
      BY DEF Resolved
    <3> QED BY <1>3, <3>1 DEF Extraction, Fields
  <2>4. name \in Matches[e] \/ (name \in Foreign /\ PageOf(p.final).emails \cap Local = {e})
    BY <2>1, BestIsTied, PageOfFinal
  <2>5. Save(z)
    BY <1>7
  <2> HIDE DEF z
  <2>6. ASSUME ~model, z.name # NoName, z.email \in Local, NEW status
        PROVE  Ties(RowOf(z, status), read', seeds)
    <3> DEFINE row == RowOf(z, status)
    <3>1. row.name = z.name /\ row.email = z.email
      BY DEF RowOf
    <3>2. p.final \in read'
      BY <1>7
    <3> HIDE DEF row
    <3>3. Ties(row, read', seeds)
      BY <1>5, <2>2, <2>3, <2>4, <2>6, <3>1, <3>2 DEF Ties
    <3> QED BY <3>3 DEF row
  <2> QED BY <1>1, <2>2, <2>5, <2>6
<1> QED BY <1>4, <1>6, <1>7

LEMMA TheirsInvStep ==
    ASSUME TheirsInv, [Next]_vars
    PROVE  TheirsInv'
<1>1. PrintedInv' /\ LocalInv'
  BY PrintedInvStep, LocalInvStep DEF TheirsInv
<1>2. read \subseteq read' /\ model' = model
  BY ReadGrows
<1>19. CASE Collect
  <2>1. pc' \in {"collect", "links"}
    BY <1>19 DEF Collect
  <2>2. Accepted' = {}
    BY <1>1, <2>1 DEF PrintedInv
  <2> QED BY <1>1, <2>2 DEF TheirsInv, AddressIsTheirs
<1>20. SUFFICES ASSUME ~Collect PROVE TheirsInv'
  BY <1>19
<1>21. seeds' = seeds
  BY <1>20, ShownStays
<1>3. ASSUME NEW rs, rs \subseteq rows, NEW x, NEW status, status # "accepted",
             Add(RowOf(x, status), rs)
      PROVE  AddressIsTheirs'
  <2>1. rows' \subseteq rs \cup {RowOf(x, status)}
    BY <1>3 DEF Add
  <2> QED BY <1>2, <1>21, <1>3, <2>1, TheirsStep DEF TheirsInv
<1>4. ASSUME rows' \subseteq rows PROVE AddressIsTheirs'
  <2>1. rows' \subseteq rows \cup {RowOf(Blank, "review")}
    BY <1>4
  <2> QED BY <1>2, <1>21, <2>1, TheirsStep DEF TheirsInv
<1>5. AddressIsTheirs'
  <2>1. CASE EarlyRow
    <3>1. \/ rows' = rows
          \/ Add(RowOf(WithCards(LocalExtraction(PageAt[Current.url], Current), Current), "candidate"), rows)
      BY <2>1 DEF EarlyRow
    <3> QED BY <1>3, <1>4, <3>1
  <2>2. CASE Exclude
    <3>1. PICK x : Add(RowOf(x, "rejected"), Kept)
      BY <2>2 DEF Exclude
    <3> QED BY <1>3, <3>1, KeptIsOfRows
  <2>3. CASE AcceptCards
    <3>1. PICK included \in BOOLEAN :
             /\ FastPath(Current, included, Kept)
             /\ Add(RowOf(CardsAlone(Current, included), "accepted"), Kept)
      BY <2>3 DEF AcceptCards
    <3>2. at \in DOMAIN seeds /\ Decide(CardsAlone(Current, included), Kept) = "accepted"
      BY <2>3, <3>1 DEF AcceptCards, Undecided, Person, FastPath
    <3> QED BY <1>2, <1>21, <3>1, <3>2, CardsAreTied
  <2>4. CASE ReviewUnread
    <3>1. PICK x : Add(RowOf(x, "review"), Kept)
      BY <2>4 DEF ReviewUnread
    <3> QED BY <1>3, <3>1, KeptIsOfRows
  <2>5. CASE DecideCards
    <3>1. PICK included \in BOOLEAN :
             Add(RowOf(CardsAlone(Current, included), Decide(CardsAlone(Current, included), Kept)), Kept)
      BY <2>5 DEF DecideCards
    <3>2. at \in DOMAIN seeds
      BY <2>5 DEF DecideCards, NeedsPage, Undecided, Person
    <3> DEFINE status == Decide(CardsAlone(Current, included), Kept)
    <3>3. Add(RowOf(CardsAlone(Current, included), status), Kept)
      BY <3>1
    <3>4. status = "accepted" => Decide(CardsAlone(Current, included), Kept) = "accepted"
      OBVIOUS
    <3> HIDE DEF status
    <3> QED BY <1>2, <1>21, <3>2, <3>3, <3>4, CardsAreTied
  <2>6. CASE Resolve
    BY <1>2, <1>21, <2>6, ResolvedIsTied
  <2>7. CASE SkipPerson \/ Discover \/ ReadPerson
    BY <1>4, <2>7, KeptIsOfRows DEF SkipPerson, Discover, ReadPerson
  <2>8. ASSUME ~(EarlyRow \/ Exclude \/ AcceptCards \/ ReviewUnread \/ DecideCards \/ Resolve
                  \/ SkipPerson \/ Discover \/ ReadPerson)
         PROVE  rows' \subseteq rows
    BY <1>20, <2>8 DEF Next, vars, Collected, SkipEarly, EarlyFails, ProfilesEnd, Ask, AskFails, PeopleEnd
  <2> QED BY <1>4, <2>1, <2>2, <2>3, <2>4, <2>5, <2>6, <2>7, <2>8
<1> QED BY <1>1, <1>5 DEF TheirsInv

\* Without a model an accepted address is tied to the accepted name, for every page,
\* listing and translation, unless a card that shows it links somebody else's page or was
\* merged with one whose name cannot be compared.
THEOREM AddressIsTheirsHolds == Spec => []AddressIsTheirs
<1>1. Init => TheirsInv
  <2> SUFFICES ASSUME Init PROVE TheirsInv
    OBVIOUS
  <2>1. cards \in Seq(Cards) /\ linked \in Seq(Cards)
    BY EvidenceAssumption DEF Init
  <2> QED BY <2>1 DEF Init, TheirsInv, LocalInv, PrintedInv, SeedsInv, Sound, Distinct, DraftInv,
                      AcceptedIsPrinted, AddressIsTheirs, Accepted
<1> QED BY <1>1, TheirsInvStep, PTL DEF Spec, TheirsInv

-----------------------------------------------------------------------------
(* Nobody is passed over.                                                  *)

Accounted(i, seed, rs) ==
    \E r \in rs :
        /\ r.status # "candidate"
        /\ \/ r.of = i
           \/ r.status = "accepted" /\ SameName(r.name, seed.name)
           \/ seed.url # NoUrl /\ r.status # "rejected" /\ r.home = seed.url

\* The people before the one at hand are accounted for; only candidate rows go.
AccountedInv ==
    /\ seeds \in Seq(Seeds) /\ at \in Nat \ {0}
    /\ pc \in {"people", "ask", "ask_again", "resolve"} =>
           \A i \in DOMAIN seeds : i < at => Accounted(i, seeds[i], rows)
    /\ pc = "done" => \A i \in DOMAIN seeds : Accounted(i, seeds[i], rows)

LEMMA KeptAccounts ==
    ASSUME NEW i, NEW seed, NEW rs, Accounted(i, seed, rows), Kept \subseteq rs
    PROVE  Accounted(i, seed, rs)
BY DEF Accounted, Kept

\* The person at hand gets a row.
LEMMA RowAccounts ==
    ASSUME AccountedInv, pc \in {"people", "ask", "ask_again", "resolve"}, seeds' = seeds,
           at' = at + 1, Kept \subseteq rows', Accounted(at, Current, rows'), pc' = "people"
    PROVE  AccountedInv'
<1>1. seeds' \in Seq(Seeds) /\ at' \in Nat \ {0}
  BY DEF AccountedInv
<1>2. ASSUME NEW i \in DOMAIN seeds, i < at + 1 PROVE Accounted(i, seeds[i], rows')
  <2>1. i \in Nat /\ (i < at \/ i = at)
    BY <1>2 DEF AccountedInv
  <2>2. CASE i = at
    BY <2>2 DEF Current
  <2>3. CASE i < at
    BY <2>3, KeptAccounts DEF AccountedInv
  <2> QED BY <2>1, <2>2, <2>3
<1> QED BY <1>1, <1>2 DEF AccountedInv, Accounted

LEMMA AddAccounts ==
    ASSUME AccountedInv, pc = "people", seeds' = seeds, NEW x, NEW status, status # "candidate",
           Add(RowOf(x, status), Kept)
    PROVE  AccountedInv'
<1> DEFINE row == RowOf(x, status)
<1>1. row.status # "candidate" /\ row.of = at
  BY DEF RowOf
<1>2. \/ pc' = "failed" /\ at' = at
      \/ rows' = Kept \cup {row} /\ at' = at + 1 /\ pc' = pc
  BY DEF Add
<1> HIDE DEF row
<1>3. CASE pc' = "failed" /\ at' = at
  BY <1>3 DEF AccountedInv
<1>4. CASE rows' = Kept \cup {row} /\ at' = at + 1 /\ pc' = pc
  <2>1. Accounted(at, Current, rows') /\ Kept \subseteq rows'
    BY <1>1, <1>4 DEF Accounted
  <2> QED BY <1>4, <2>1, RowAccounts
<1> QED BY <1>2, <1>3, <1>4

\* While nobody is decided yet there is nothing to account for.
LEMMA EarlyAccounts ==
    ASSUME AccountedInv, seeds' \in Seq(Seeds), at' \in Nat \ {0},
           pc' \notin {"people", "ask", "ask_again", "resolve", "done"}
    PROVE  AccountedInv'
BY DEF AccountedInv

LEMMA AccountedInvStep ==
    ASSUME AccountedInv, SeedsInv, SeedsInv', [Next]_vars
    PROVE  AccountedInv'
<1>0. seeds' \in Seq(Seeds)
  BY DEF SeedsInv, Sound
<1>1. CASE Collect \/ SkipEarly \/ EarlyFails \/ EarlyRow \/ ProfilesEnd
  <2>1. pc \in {"collect", "links", "profiles"} /\ pc' \in {pc, "links", "failed"} /\ at' \in {at, at + 1}
    BY <1>1 DEF Collect, SkipEarly, EarlyFails, ReadsEarly, EarlyRow, ProfilesEnd, Add
  <2>2. at' \in Nat \ {0}
    BY <2>1 DEF AccountedInv
  <2> QED BY <1>0, <2>1, <2>2, EarlyAccounts
<1>2. CASE Collected
  <2>1. at' = 1 /\ seeds' = seeds /\ pc' \in {"profiles", "people"}
    BY <1>2 DEF Collected
  <2>2. \A i \in DOMAIN seeds' : ~(i < at')
    BY <2>1 DEF AccountedInv
  <2> QED BY <1>0, <2>1, <2>2 DEF AccountedInv
<1>3. CASE SkipPerson
  <2>1. /\ rows' = Kept /\ at' = at + 1 /\ seeds' = seeds /\ pc' = pc /\ pc = "people"
        /\ AcceptedName(Current, Kept) \/ Saved
    BY <1>3 DEF SkipPerson, Person
  <2>2. CASE AcceptedName(Current, Kept)
    <3>1. Accounted(at, Current, rows')
      BY <2>1, <2>2 DEF AcceptedName, Accounted, SameName
    <3> QED BY <2>1, <3>1, RowAccounts
  <2>3. CASE Saved
    <3>1. PICK r \in Kept : r.status # "rejected" /\ r.home = Current.url /\ Current.url # NoUrl
      BY <2>3 DEF Saved
    <3>2. r.status # "candidate"
      BY <3>1 DEF Kept
    <3>3. Accounted(at, Current, rows')
      BY <2>1, <3>1, <3>2 DEF Accounted
    <3> QED BY <2>1, <3>3, RowAccounts
  <2> QED BY <2>1, <2>2, <2>3
<1>4. CASE Exclude
  <2>1. \E x : Add(RowOf(x, "rejected"), Kept)
    BY <1>4 DEF Exclude
  <2> QED BY <1>4, <2>1, AddAccounts DEF Exclude, Undecided, Person
<1>5. CASE AcceptCards
  <2>1. \E x : Add(RowOf(x, "accepted"), Kept)
    BY <1>5 DEF AcceptCards
  <2> QED BY <1>5, <2>1, AddAccounts DEF AcceptCards, Undecided, Person
<1>6. CASE ReviewUnread
  <2>1. \E x : Add(RowOf(x, "review"), Kept)
    BY <1>6 DEF ReviewUnread
  <2> QED BY <1>6, <2>1, AddAccounts DEF ReviewUnread, NeedsPage, Undecided, Person
<1>7. CASE DecideCards
  <2>1. PICK x : Add(RowOf(x, Decide(x, Kept)), Kept)
    BY <1>7 DEF DecideCards
  <2>2. Decide(x, Kept) # "candidate"
    BY DEF Decide
  <2> QED BY <1>7, <2>1, <2>2, AddAccounts DEF DecideCards, NeedsPage, Undecided, Person
<1>8. CASE Discover \/ ReadPerson
  <2>1. /\ rows' = Kept /\ at' = at /\ pc' \in {"ask", "resolve"} /\ pc = "people" /\ seeds' = seeds
    BY <1>8 DEF Discover, ReadPerson, NeedsPage, Undecided, Person, Open
  <2>2. \A i \in DOMAIN seeds : i < at => Accounted(i, seeds[i], rows')
    BY <2>1, KeptAccounts DEF AccountedInv
  <2> QED BY <1>0, <2>1, <2>2 DEF AccountedInv, Accounted
<1>9. CASE Ask \/ AskFails
  <2>1. UNCHANGED <<seeds, at, rows>> /\ pc \in {"ask", "ask_again"}
        /\ pc' \in {"resolve", "ask_again", "failed", "paused"}
    BY <1>9 DEF Ask, AskFails
  <2> QED BY <2>1 DEF AccountedInv, Accounted
<1>10. CASE Resolve
  <2>1. PICK x : Save(x)
    BY <1>10 DEF Resolve
  <2>2. pc = "resolve" /\ seeds' = seeds
    BY <1>10 DEF Resolve
  <2> DEFINE y == [x EXCEPT !.official = {page, x.home} \subseteq Official]
             row == RowOf(y, Decide(y, rows))
  <2>3. row.status # "candidate" /\ row.of = at
    BY DEF RowOf, Decide
  <2>4. \/ pc' = "failed" /\ at' = at
        \/ rows' = rows \cup {row} /\ pc' = "people" /\ at' = at + 1
    BY <2>1 DEF Save
  <2> HIDE DEF row
  <2>5. CASE pc' = "failed" /\ at' = at
    BY <2>2, <2>5 DEF AccountedInv
  <2>6. CASE rows' = rows \cup {row} /\ pc' = "people" /\ at' = at + 1
    <3>1. Accounted(at, Current, rows') /\ Kept \subseteq rows'
      BY <2>3, <2>6, KeptIsOfRows DEF Accounted
    <3> QED BY <2>2, <2>6, <3>1, RowAccounts
  <2> QED BY <2>4, <2>5, <2>6
<1>11. CASE PeopleEnd
  <2>1. UNCHANGED <<seeds, rows, at>> /\ pc = "people" /\ pc' = "done" /\ at \notin DOMAIN seeds
    BY <1>11 DEF PeopleEnd
  <2>2. \A i \in DOMAIN seeds : i < at
    BY <2>1 DEF AccountedInv
  <2> QED BY <2>1, <2>2 DEF AccountedInv, Accounted
<1>12. CASE UNCHANGED vars
  BY <1>12 DEF vars, AccountedInv, Accounted
<1> QED BY <1>1, <1>2, <1>3, <1>4, <1>5, <1>6, <1>7, <1>8, <1>9, <1>10, <1>11, <1>12 DEF Next

\* A visit that ends has a row for everyone of the directory, whoever's rows the display
\* loop, the fast path and the page loop wrote, skipped or superseded.
THEOREM EveryoneIsAccountedHolds == Spec => []EveryoneIsAccounted
<1>1. Init => SeedsInv /\ AccountedInv
  <2> SUFFICES ASSUME Init PROVE SeedsInv /\ AccountedInv
    OBVIOUS
  <2>1. cards \in Seq(Cards) /\ linked \in Seq(Cards)
    BY EvidenceAssumption DEF Init
  <2> QED BY <2>1 DEF Init, SeedsInv, Sound, Distinct, AccountedInv
<1>2. AccountedInv => EveryoneIsAccounted
  BY DEF AccountedInv, EveryoneIsAccounted, Accounted
<1>3. SeedsInv /\ AccountedInv /\ [Next]_vars => (SeedsInv /\ AccountedInv)'
  BY SeedsInvStep, AccountedInvStep
<1> QED BY <1>1, <1>2, <1>3, PTL DEF Spec

===============================================================================
