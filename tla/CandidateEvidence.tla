--------------------------- MODULE CandidateEvidence ---------------------------
(***************************************************************************)
(* What a school's candidates are decided on (faculty_workflow/service.py, *)
(* quality.py, email_resolver.py): the cards of the directory pages are    *)
(* merged into one seed per person; each seed becomes one candidate row,   *)
(* from the card alone or from the person's page.  This is one visit of a  *)
(* school, from its first card to its last row; ReviewWorkflow has what    *)
(* happens to the rows later, SourceWalk which pages the cards come from.  *)
(*                                                                         *)
(* A quote is what a piece of evidence shows: a name, a title, an e-mail.  *)
(* Evidence that is downgraded to "ambiguous" is left out, as nothing here *)
(* reads it.  The file of historical people is empty.                      *)
(***************************************************************************)
EXTENDS Naturals, Sequences, FiniteSets

CONSTANTS
    Names,      \* names on cards and pages
    Unkeyed,    \* those normalize_key leaves nothing of: no Latin letter, no digit
    Labs,       \* those that end in "Lab"
    Emails,
    Local,      \* complete addresses on the school's domain that are not generic
    Matches,    \* the names an address' local part shows a token of
    Foreign,    \* names in another script than their addresses
    Urls,
    Official,   \* URLs on the school's domain
    PageAt,     \* the page behind a URL
    Visits,     \* whether the task uses a model, what the directory pages list, and what
                \* pages linked by a profile list
    Answers,    \* what a model answers of a page
    Budget, Estimate, MaxCost,  \* of the task, of a request to the model
    NoName, NoEmail, NoUrl

Titles  == {"none", "allowed", "foreign", "outside", "excluded"}
Normals == {"none", "allowed", "outside"}       \* normalized titles, by the policy
Quotes  == [name : Names \cup {NoName}, title : Titles, email : Emails \cup {NoEmail}]
Cards   == [name : Names, title : Titles, url : Urls \cup {NoUrl},
            email : Emails \cup {NoEmail}, dir : Urls]
\* records: what the directory adapter reads on the page, if its path is a profile's.
Pages   == [final : Urls, names : SUBSET Names, emails : SUBSET Emails,
            titled : BOOLEAN, records : SUBSET Quotes, links : Seq(Urls)]

\* shown: the fields an answer has a quote for.
Claims  == [name : Names \cup {NoName}, email : Emails \cup {NoEmail}, title : Titles,
            normal : Normals, verified : BOOLEAN, home : Urls \cup {NoUrl},
            shown : SUBSET {"name", "email", "title"}]

ASSUME EvidenceAssumption ==
    /\ Unkeyed \subseteq Names /\ Labs \subseteq Names /\ Foreign \subseteq Names
    /\ Answers \subseteq Claims
    /\ Local \subseteq Emails /\ Matches \in [Emails -> SUBSET Names]
    /\ Official \subseteq Urls /\ PageAt \in [Urls -> Pages]
    \* A final URL is of one page, and what the adapter reads is on the page.
    /\ \A u, v \in Urls : PageAt[u].final = PageAt[v].final => PageAt[u] = PageAt[v]
    /\ \A u \in Urls : \A r \in PageAt[u].records :
          r.name \in Names /\ r.email \in PageAt[u].emails \cup {NoEmail}
    /\ \A u \in Urls : IsFiniteSet(PageAt[u].emails)
    /\ \A v \in Visits : v.model \in BOOLEAN /\ v.first \in Seq(Cards) /\ v.linked \in Seq(Cards)
    /\ Budget \in Nat /\ Estimate \in Nat /\ MaxCost \in Nat
    /\ NoName \notin Names /\ NoEmail \notin Emails /\ NoUrl \notin Urls

VARIABLES
    model,      \* the task uses a model (else its routine model is "local-only")
    cards,      \* cards that are still to be stored
    linked,     \* cards of the pages the profiles link
    seeds,      \* the people, in the order of their first card
    at,         \* seed the loop is at
    failures,   \* profile_failures: profile URLs that could not be read
    rows,       \* candidate rows; `of' is the seed's place
    draft,      \* the extraction the person at hand is decided on
    page,       \* the person's page
    read,       \* pages that were read
    spent,
    pc

vars == <<model, cards, linked, seeds, at, failures, rows, draft, page, read, spent, pc>>

Indexed  == {"candidate", "accepted", "review"}

Show(name, title, email) == [name |-> name, title |-> title, email |-> email]
QuoteOf(card)            == Show(card.name, card.title, card.email)
Item(field, url, quote)  == [field |-> field, url |-> url, quote |-> quote]

NormalOf(title) == IF title = "allowed" THEN "allowed" ELSE "none"

\* An empty extraction.
Blank == [name |-> NoName, title |-> "none", normal |-> "none", email |-> NoEmail,
          verified |-> FALSE, official |-> FALSE, home |-> NoUrl, evidence |-> {}]

Init ==
    /\ \E v \in Visits : model = v.model /\ cards = v.first /\ linked = v.linked
    /\ seeds = <<>> /\ at = 1
    /\ failures = {} /\ rows = {} /\ read = {}
    /\ draft = Blank /\ page = NoUrl
    /\ spent = 0
    /\ pc = "collect"

-----------------------------------------------------------------------------
(* Seeds: _store_directory_seed.                                           *)

\* Names are compared by normalize_key, and not at all if that leaves nothing.
Keyed(name)    == name \notin Unkeyed \cup {NoName}
SameName(a, b) == Keyed(a) /\ a = b
Differ(a, b)   == Keyed(a) /\ Keyed(b) /\ a # b

KeyOf(card) ==
    IF card.url # NoUrl THEN <<card.url>>
    ELSE <<IF Keyed(card.name) THEN card.name ELSE NoName, card.email, card.dir>>
OrElse(a, b, none) == IF a = none THEN b ELSE a

SeedOf(card, key) ==
    [key |-> key, name |-> card.name, title |-> card.title, url |-> card.url,
     email |-> card.email, quotes |-> {<<card.dir, QuoteOf(card)>>}, dir |-> card.dir]

\* Two e-mails of a person conflict: neither is kept.
Agreed(a, b) ==
    IF {a, b} \ {NoEmail} = {} \/ (a # NoEmail /\ b # NoEmail /\ a # b) THEN NoEmail
    ELSE OrElse(a, b, NoEmail)

Merged(seed, card) ==
    [seed EXCEPT !.title = OrElse(@, card.title, "none"),
                 !.url = OrElse(@, card.url, NoUrl),
                 !.email = Agreed(@, card.email),
                 !.quotes = @ \cup {<<card.dir, QuoteOf(card)>>}]

Put(ss, seed) ==
    IF \E i \in DOMAIN ss : ss[i].key = seed.key
    THEN [i \in DOMAIN ss |-> IF ss[i].key = seed.key THEN seed ELSE ss[i]]
    ELSE Append(ss, seed)

Named(ss, name) == {i \in DOMAIN ss : ss[i].name = name}

\* Mutant of Home: the URL alone identifies a person.
HomeOfUrl(ss, card) ==
    LET same == {i \in DOMAIN ss : ss[i].key = KeyOf(card)}
    IN IF same # {} THEN same
       ELSE IF Cardinality(Named(ss, card.name)) = 1 THEN Named(ss, card.name) ELSE {}

\* The seed a card is merged into, if any: the one of its key, unless their names differ,
\* else the only one of its name.
Home(ss, card) ==
    LET same == {i \in DOMAIN ss : ss[i].key = KeyOf(card) /\ ~Differ(ss[i].name, card.name)}
    IN IF same # {} THEN same
       ELSE IF Keyed(card.name) /\ Cardinality(Named(ss, card.name)) = 1
       THEN Named(ss, card.name) ELSE {}

NewKey(ss, card) ==
    IF \E i \in DOMAIN ss : ss[i].key = KeyOf(card) /\ Differ(ss[i].name, card.name)
    THEN KeyOf(card) \o <<card.name>> ELSE KeyOf(card)

StoreSeed(ss, card) ==
    IF card.name \in Labs THEN ss
    ELSE IF Home(ss, card) = {} THEN Put(ss, SeedOf(card, NewKey(ss, card)))
    ELSE [i \in DOMAIN ss |-> IF i \in Home(ss, card) THEN Merged(ss[i], card) ELSE ss[i]]

Collect ==
    /\ pc \in {"collect", "links"} /\ cards # <<>>
    /\ seeds' = StoreSeed(seeds, Head(cards))
    /\ cards' = Tail(cards)
    /\ UNCHANGED <<model, linked, at, failures, rows, draft, page, read, spent, pc>>

\* After the directory pages the profiles are read, after the pages these link the people.
Collected ==
    /\ pc \in {"collect", "links"} /\ cards = <<>>
    /\ at' = 1
    /\ pc' = IF pc = "collect" THEN "profiles" ELSE "people"
    /\ UNCHANGED <<model, cards, linked, seeds, failures, rows, draft, page, read, spent>>

-----------------------------------------------------------------------------
(* Evidence of one person.                                                 *)

\* _merge_directory_card_evidence: the cards support the name, the title (whichever it
\* is) and, where they show it, the seed's e-mail.
WithCards(x, seed) ==
    LET name  == OrElse(x.name, seed.name, NoName)
        title == OrElse(seed.title, x.title, "none")
        email == OrElse(x.email, seed.email, NoEmail)
        Of(fields) == {Item(f, q[1], q[2]) : f \in fields, q \in seed.quotes}
        shown == {q \in seed.quotes : seed.email # NoEmail /\ q[2].email = seed.email}
    IN [x EXCEPT !.name = name, !.title = title, !.email = email,
                 !.normal = IF title = "allowed" THEN "allowed" ELSE @,
                 !.verified = @ \/ (seed.email # NoEmail /\ email = seed.email),
                 !.evidence = @ \cup Of({"name"} \cup IF title = "none" THEN {} ELSE {"title"})
                                \cup {Item("email", q[1], q[2]) : q \in shown}]

\* _apply_title_pipeline: a foreign title counts if its translation is one of the policy's.
Translated(x, included) ==
    [x EXCEPT !.normal = IF @ = "none" /\ x.title = "foreign" /\ included THEN "allowed" ELSE @]

\* _directory_only_extraction
CardsAlone(seed, included) ==
    LET x == WithCards([Blank EXCEPT !.name = seed.name, !.email = seed.email,
                                     !.title = seed.title,
                                     !.normal = NormalOf(seed.title)], seed)
    IN [Translated(x, included) EXCEPT !.official = seed.dir \in Official]

\* _local_profile_extraction: what the page prints, completed from the seed.
LocalExtraction(p, seed) ==
    LET single == Cardinality(p.records) = 1
        record == IF single THEN CHOOSE r \in p.records : TRUE
                  ELSE Show(NoName, "none", NoEmail)
        name   == OrElse(record.name, seed.name, NoName)
        email  == OrElse(record.email, seed.email, NoEmail)
        known  == OrElse(record.title, seed.title, "none")
        title  == OrElse(known, IF p.titled THEN "allowed" ELSE "none", "none")
    IN [Blank EXCEPT
          !.name = name, !.email = email, !.title = title, !.normal = NormalOf(title),
          !.home = p.final, !.verified = single /\ email # NoEmail,
          !.evidence =
             (IF title = "none" THEN {}
              ELSE {Item("title", p.final, Show(NoName, title, NoEmail))})
             \cup (IF single THEN {Item("name", p.final, record)} ELSE {})
             \cup (IF single /\ email # NoEmail THEN {Item("email", p.final, record)} ELSE {})]

\* Mutant of Verified: an address counts as verified because the model says so.
VerifiedByWord(p, a) == a.verified

\* _ground_extraction: the address of an answer is verified only if the page prints it.
Verified(p, a) == a.verified /\ a.email \in p.emails

\* The quotes of an answer are its own words: only those it calls the model's are looked
\* for on the page, and none for a name or an address next to it.
Grounded(p, a) ==
    [Blank EXCEPT
        !.name = a.name, !.email = a.email, !.title = a.title, !.normal = a.normal,
        !.home = OrElse(a.home, p.final, NoUrl), !.verified = Verified(p, a),
        !.evidence = {Item(f, p.final, Show(NoName, "none", NoEmail)) : f \in a.shown}]

\* _needs_escalation, before anything is looked up.
Disputed(a) ==
    a.verified /\ a.name # NoName /\ a.email # NoEmail /\ a.normal # "none" /\ a.home # NoUrl

\* Mutant of Best: any personal address of the school will do.
BestOfPage(p, name) == p.emails \cap Local

\* _best_email: of the school's personal addresses on the page one with a token of the
\* name; failing that the only one, of a person whose name has no such token.
Best(p, name) ==
    LET fitting == {e \in p.emails \cap Local : name \in Matches[e]}
    IN IF fitting # {} THEN fitting
       ELSE IF Cardinality(p.emails \cap Local) = 1 /\ name \in p.names \cap Foreign
       THEN p.emails \cap Local ELSE {}

\* _merge_official_email_resolution
Resolved(x, e, url) ==
    [x EXCEPT !.email = e, !.verified = TRUE,
              !.evidence = {i \in @ : i.field # "email" \/ i.quote.email = e}
                           \cup {Item("email", url, Show(NoName, "none", e))}]

-----------------------------------------------------------------------------
(* The decision: quality.evaluate_candidate and the rows of the database.  *)

Supported(x)  == {i.field : i \in x.evidence}
\* duplicate_reasons, against rows that are not rejected.
Duplicates(x, rs) ==
    {r \in rs : /\ r.status # "rejected"
                /\ \/ x.email # NoEmail /\ r.email = x.email
                   \/ SameName(x.name, r.name)
                   \/ x.home # NoUrl /\ r.home = x.home}
Complete(x) ==
    /\ x.name # NoName /\ x.email \in Local
    /\ x.verified /\ x.official /\ x.normal = "allowed"
    /\ {"name", "email", "title"} \subseteq Supported(x)
\* Mutant of Decide: duplicates go to review like everything else.
DecideDuplicates(x, rs) == IF Complete(x) THEN "accepted" ELSE "review"

Decide(x, rs) ==
    IF Duplicates(x, rs) # {} THEN "rejected"
    ELSE IF Complete(x) THEN "accepted" ELSE "review"

RowOf(x, status) ==
    [of |-> at, name |-> x.name, email |-> x.email, home |-> x.home,
     status |-> status, evidence |-> x.evidence]

\* The unique indexes: one active row per person and one per profile.
Clash(row, rs) ==
    /\ row.status \in Indexed
    /\ \E r \in rs : /\ r.status \in Indexed
                     /\ \/ SameName(row.name, r.name)
                        \/ row.home # NoUrl /\ r.home = row.home

\* add_candidate, after which the loop goes on; a clash fails the school.
Add(row, rs) ==
    IF Clash(row, rs) THEN rows' = rs /\ pc' = "failed" /\ UNCHANGED at
    ELSE rows' = rs \cup {row} /\ at' = at + 1 /\ UNCHANGED pc

\* has_accepted_candidate_name
AcceptedName(seed, rs) == \E r \in rs : r.status = "accepted" /\ SameName(seed.name, r.name)

\* _directory_fast_path_candidate: the cards alone are enough.
FastPath(seed, included, rs) ==
    seed.title # "excluded" /\ Decide(CardsAlone(seed, included), rs) = "accepted"

-----------------------------------------------------------------------------
(* Profiles: the early row of a person whose page was read.                *)

Current == seeds[at]

SkipEarly ==
    /\ pc = "profiles" /\ at \in DOMAIN seeds
    /\ \/ Current.url = NoUrl
       \/ AcceptedName(Current, rows)
       \/ \E included \in BOOLEAN : FastPath(Current, included, rows)
    /\ at' = at + 1
    /\ UNCHANGED <<model, cards, linked, seeds, failures, rows, draft, page, read, spent, pc>>

ReadsEarly ==
    /\ pc = "profiles" /\ at \in DOMAIN seeds
    /\ Current.url # NoUrl /\ ~AcceptedName(Current, rows)
    /\ \E included \in BOOLEAN : ~FastPath(Current, included, rows)

EarlyFails ==
    /\ ReadsEarly
    /\ failures' = failures \cup {Current.url}
    /\ at' = at + 1
    /\ UNCHANGED <<model, cards, linked, seeds, rows, draft, page, read, spent, pc>>

EarlyRow ==
    /\ ReadsEarly
    /\ LET p == PageAt[Current.url]
       IN IF p.final \in Official
          THEN /\ Add(RowOf(WithCards(LocalExtraction(p, Current), Current), "candidate"), rows)
               /\ read' = read \cup {p.final}
          ELSE at' = at + 1 /\ UNCHANGED <<rows, read, pc>>
    /\ UNCHANGED <<model, cards, linked, seeds, failures, draft, page, spent>>

ProfilesEnd ==
    /\ pc = "profiles" /\ at \notin DOMAIN seeds
    /\ cards' = linked
    /\ linked' = <<>>
    /\ pc' = "links"
    /\ UNCHANGED <<model, seeds, at, failures, rows, draft, page, read, spent>>

-----------------------------------------------------------------------------
(* People: every seed is decided.                                          *)

\* supersede_provisional_profile
Kept == IF Current.url = NoUrl THEN rows
        ELSE {r \in rows : ~(r.status = "candidate" /\ r.home = Current.url)}
\* Mutant of Saved: rejected rows count.
SavedOrRejected == Current.url # NoUrl /\ \E r \in Kept : r.home = Current.url
\* has_candidate_homepage
Saved    == Current.url # NoUrl /\ \E r \in Kept : r.status # "rejected" /\ r.home = Current.url
Person    == pc = "people" /\ at \in DOMAIN seeds
Undecided == Person /\ ~AcceptedName(Current, Kept) /\ ~Saved

SkipPerson ==
    /\ Person /\ (AcceptedName(Current, Kept) \/ Saved)
    /\ rows' = Kept /\ at' = at + 1
    /\ UNCHANGED <<model, cards, linked, seeds, failures, draft, page, read, spent, pc>>

Exclude ==
    /\ Undecided /\ Current.title = "excluded"
    /\ LET x == [Blank EXCEPT !.name = Current.name, !.title = Current.title,
                              !.home = Current.url]
       IN Add(RowOf(x, "rejected"), Kept)
    /\ UNCHANGED <<model, cards, linked, seeds, failures, draft, page, read, spent>>

AcceptCards ==
    /\ Undecided
    /\ \E included \in BOOLEAN :
          /\ FastPath(Current, included, Kept)
          /\ Add(RowOf(CardsAlone(Current, included), "accepted"), Kept)
    /\ UNCHANGED <<model, cards, linked, seeds, failures, draft, page, read, spent>>

NeedsPage ==
    /\ Undecided /\ Current.title # "excluded"
    /\ \E included \in BOOLEAN : ~FastPath(Current, included, Kept)

\* _save_profile_fetch_review: the early fetch failed, or the one made now does.
ReviewUnread ==
    /\ NeedsPage /\ Current.url # NoUrl
    /\ LET x == [Blank EXCEPT !.name = Current.name, !.email = Current.email,
                              !.title = Current.title, !.home = Current.url]
       IN Add(RowOf(x, "review"), Kept)
    /\ UNCHANGED <<model, cards, linked, seeds, failures, draft, page, read, spent>>

\* Nothing leads to a page of this person: the cards are decided on, with the title
\* translated once more.
DecideCards ==
    /\ NeedsPage /\ Current.url = NoUrl
    /\ \E included \in BOOLEAN :
          LET x == CardsAlone(Current, included)
          IN Add(RowOf(x, Decide(x, Kept)), Kept)
    /\ UNCHANGED <<model, cards, linked, seeds, failures, draft, page, read, spent>>

Open(p) ==
    /\ page' = p.final /\ read' = read \cup {p.final}
    /\ draft' = IF model THEN Blank ELSE LocalExtraction(p, Current)
    /\ pc' = IF model THEN "ask" ELSE "resolve"

\* _discover_official_profile_page: of the URLs a search hints at, an official page that
\* has the name, or any if normalize_key leaves nothing of the name.
Discover ==
    /\ NeedsPage /\ Current.url = NoUrl
    /\ \E hint \in Official :
          LET p == PageAt[hint]
          IN /\ p.final \in Official /\ Current.name \in p.names \cup Unkeyed
             /\ Open(p)
    /\ rows' = Kept
    /\ UNCHANGED <<model, cards, linked, seeds, at, failures, spent>>

ReadPerson ==
    /\ NeedsPage /\ Current.url # NoUrl /\ Current.url \notin failures
    /\ Open(PageAt[Current.url])
    /\ rows' = Kept
    /\ UNCHANGED <<model, cards, linked, seeds, at, failures, spent>>

\* Mutant of Affordable: what was spent is compared, not what the request will cost.
AffordableLate == spent <= Budget
Affordable == spent + Estimate <= Budget

PageOf(url) == CHOOSE p \in {PageAt[u] : u \in Urls} : p.final = url

\* _provider_call within the budget: the answer is grounded, or a second model is asked.
Ask ==
    /\ pc \in {"ask", "ask_again"} /\ Affordable
    /\ \E cost \in 0..MaxCost, a \in Answers :
          /\ spent' = spent + cost
          /\ draft' = Grounded(PageOf(page), a)
          /\ pc' \in {"resolve"} \cup (IF pc = "ask" /\ Disputed(a) THEN {"ask_again"} ELSE {})
    /\ UNCHANGED <<model, cards, linked, seeds, at, failures, rows, page, read>>

\* BudgetExceededError, or the request fails: the school is left.
AskFails ==
    /\ pc \in {"ask", "ask_again"}
    /\ pc' = IF Affordable THEN "failed" ELSE "paused"
    /\ UNCHANGED <<model, cards, linked, seeds, at, failures, rows, draft, page, read, spent>>

\* The pages an address may be taken from: the person's, then those it links that have
\* the name.  Following a link may fail; at most three are followed.
Sources(name) ==
    LET p == PageOf(page)
    IN IF Best(p, name) # {} THEN {p}
       ELSE {q \in {PageAt[u] : u \in {p.links[i] : i \in DOMAIN p.links}} :
                name \in q.names /\ Best(q, name) # {}}

Save(x) ==
    LET y == [x EXCEPT !.official = {page, x.home} \subseteq Official]
    IN IF Clash(RowOf(y, Decide(y, rows)), rows)
       THEN rows' = rows /\ pc' = "failed" /\ UNCHANGED at
       ELSE /\ rows' = rows \cup {RowOf(y, Decide(y, rows))}
            /\ pc' = "people" /\ at' = at + 1

\* The address is resolved and the candidate decided.
Resolve ==
    /\ pc = "resolve"
    /\ \E included \in BOOLEAN :
          LET x == Translated(WithCards(draft, Current), included)
              name == OrElse(x.name, Current.name, NoName)
              Own == Best(PageOf(page), name)
          IN \/ /\ Own = {}    \* no link leads to one, or following it fails
                /\ Save(x) /\ UNCHANGED read
             \/ \E p \in Sources(name) : \E e \in Best(p, name) :
                   Save(Resolved(x, e, p.final)) /\ read' = read \cup {p.final}
    /\ draft' = Blank /\ page' = NoUrl
    /\ UNCHANGED <<model, cards, linked, seeds, failures, spent>>

PeopleEnd ==
    /\ pc = "people" /\ at \notin DOMAIN seeds
    /\ pc' = "done"
    /\ UNCHANGED <<model, cards, linked, seeds, at, failures, rows, draft, page, read, spent>>

Next ==
    \/ Collect \/ Collected
    \/ SkipEarly \/ EarlyFails \/ EarlyRow \/ ProfilesEnd
    \/ SkipPerson \/ Exclude \/ AcceptCards \/ ReviewUnread \/ DecideCards
    \/ Discover \/ ReadPerson \/ Ask \/ AskFails \/ Resolve \/ PeopleEnd

Spec == Init /\ [][Next]_vars

-----------------------------------------------------------------------------
(* Properties.                                                             *)

Accepted == {r \in rows : r.status = "accepted"}

\* Whatever cards come in whatever order, a person has one seed, under a key of its own,
\* and its quotes are that person's (_store_directory_seed: people who share a profile
\* URL stay apart, cards of one person come together).  Cards whose names are not compared,
\* since normalize_key leaves nothing of one, may be of two people.
OneSeedPerPerson ==
    /\ \A i, j \in DOMAIN seeds :
          i # j => seeds[i].key # seeds[j].key /\ ~SameName(seeds[i].name, seeds[j].name)
    /\ \A i \in DOMAIN seeds : \A q \in seeds[i].quotes : ~Differ(q[2].name, seeds[i].name)

\* An accepted address is a personal one of the school, printed on a card of the seed or on
\* a page that was read: none is made up, by a model or by merging (_ground_extraction,
\* _merge_directory_card_evidence, _best_email).
AcceptedIsPrinted ==
    \A r \in Accepted :
        /\ r.email \in Local
        /\ r.email \in {q[2].email : q \in seeds[r.of].quotes}
                      \cup UNION {PageOf(u).emails : u \in read}

\* The page a card links is of somebody else, whose name was taken.
Relinked(r) == r.name # seeds[r.of].name
\* Cards under several names were merged, which normalize_key could not tell apart.
Mixed(r) == \E q \in seeds[r.of].quotes : q[2].name # seeds[r.of].name

\* Without a model, an accepted address is tied to the accepted name: it shows a token of
\* it, or a quote has it next to the name, or the page of a person with a foreign name has no
\* other (_best_email, _merge_directory_card_evidence, _local_profile_extraction).  Otherwise
\* a card shows it, which links somebody else's page or was merged unseen.
AddressIsTheirs ==
    \A r \in Accepted :
        \/ model
        \/ r.name \in Matches[r.email]
        \/ r.name \in Foreign /\ \E u \in read : PageOf(u).emails \cap Local = {r.email}
        \/ \E i \in r.evidence : i.quote.email = r.email /\ i.quote.name = r.name
        \/ /\ Relinked(r) \/ Mixed(r)
           /\ \E q \in seeds[r.of].quotes : q[2].email = r.email

\* Two accepted people share neither name nor address nor homepage, although only names
\* and homepages have an index (duplicate_reasons against rows of any loop); names of which
\* normalize_key leaves nothing are in neither.
AcceptedAreDistinct ==
    \A r, s \in Accepted :
        r # s => /\ ~SameName(r.name, s.name) /\ r.email # s.email
                 /\ r.home # NoUrl => r.home # s.home

\* A visited school has a row for every seed of its directory, unless the person is
\* accepted already or another row has the person's profile URL.
EveryoneIsAccounted ==
    pc = "done" => \A i \in DOMAIN seeds : \E r \in rows :
        /\ r.status # "candidate"
        /\ \/ r.of = i
           \/ r.status = "accepted" /\ SameName(r.name, seeds[i].name)
           \/ seeds[i].url # NoUrl /\ r.status # "rejected" /\ r.home = seeds[i].url

\* The budget is passed by no more than a request may cost over its estimate: it is
\* asked for before each of the two requests of a person.
SpendIsBounded == spent <= Budget + (IF MaxCost > Estimate THEN MaxCost - Estimate ELSE 0)

\* What the design says (official-pdf-evidence-design.md:37, :43): people who share a
\* document are all retained.  A visit without a model leaves a row for each of them.
EveryoneIsKept ==
    ~model /\ pc \in {"done", "failed"} =>
        \A i, j \in DOMAIN seeds :
            i # j /\ seeds[i].url # NoUrl /\ seeds[i].url = seeds[j].url =>
                \E r, s \in rows : r.of = i /\ s.of = j

=============================================================================
