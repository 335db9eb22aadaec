------------------------------ MODULE CrawlPages ------------------------------
(***************************************************************************)
(* crawler/faculty_crawler.py: _crawl_pages, the loop that loads the pages *)
(* of a directory with retries and render polls, gives each to the dynamic *)
(* loader, parses everything that was rendered, goes on to the next page,  *)
(* and sorts the people it found into four lists; and _outcome_from_records*)
(* which gives the crawl its status.                                       *)
(***************************************************************************)
EXTENDS DynamicLoader, FiniteSets

CONSTANTS
    Pages,          \* the pagination keys of the site
    MaxPages,       \* pages of one crawl, and dynamic pages of one page
    MaxRetries,     \* the limit of retry_decision
    MaxPolls,       \* render polls of one attempt
    NoLink          \* the empty profile address

ASSUME CrawlAssumption ==
    /\ MaxPages \in Nat \ {0}
    /\ MaxRetries \in Nat /\ MaxPolls \in Nat
    /\ NoLink \notin People

VARIABLES
    pc,             \* where _crawl_pages is
    url,            \* current_url
    visited,        \* the pages taken up
    tries,          \* retry_attempt, render_polls and the loads of this page
    page,           \* status below 400, live_html, final_live_html, live_rounds
    lists,          \* records, pending, review and excluded people
    terminal,       \* _terminal_status
    stage,          \* last_diagnostics["Failure stage"]
    outcome,        \* the status of the outcome
    met             \* history: the rows parsed, and whether a challenge was met

pageVars == <<url, visited, tries, page>>
resultVars == <<lists, terminal, stage, outcome, met>>
crawlVars == <<pc, pageVars, resultVars, loaderVars>>

NoTries == [attempt |-> 0, polls |-> 0, loads |-> 0]

NoView == [size |-> "empty", rows |-> [p \in {} |-> "include"]]

NoLive == [ok |-> FALSE, live |-> NoView, final |-> NoView, rounds |-> 0]

NoLists == [records |-> {}, pending |-> {}, review |-> {}, excluded |-> {}]

CrawlInit ==
    /\ pc = "load" /\ url \in Pages /\ visited = {url}
    /\ tries = NoTries /\ page = NoLive
    /\ lists = NoLists /\ terminal = "none" /\ stage = "none" /\ outcome = "none"
    /\ met = [rows |-> {}, challenged |-> FALSE]
    /\ LoaderInit

Goto(place) == pc' = place

\* Leaves the loops, with the variables of the page: the people are sorted next.
Stops ==
    /\ Goto("sort")
    /\ tries' = NoTries /\ page' = NoLive
    /\ LoaderIsOver
    /\ UNCHANGED <<url, visited>>

\* The crawl raises: its lists are lost.
Raise ==
    /\ Goto("raised")
    /\ lists' = NoLists /\ terminal' = "none" /\ stage' = "none"
    /\ met' = [rows |-> {}, challenged |-> FALSE]
    /\ tries' = NoTries /\ page' = NoLive
    /\ LoaderIsOver
    /\ UNCHANGED <<url, visited, outcome>>

Challenged ==
    /\ terminal' = "verification_required"
    /\ met' = [met EXCEPT !.challenged = TRUE]

\* The answers classify_page may give to a view: rows are candidates, and win.
Answers(v) ==
    IF DOMAIN v.rows # {} THEN {"parse"}
    ELSE {"retry", "challenge", "stop"} \cup (IF v.size \in {"blank", "short"} THEN {"wait"} ELSE {})

-----------------------------------------------------------------------------
(* One page: retries and render polls.                                     *)

Again(attempt, polls) ==
    /\ tries' = [attempt |-> attempt, polls |-> polls, loads |-> tries.loads + 1]
    /\ UNCHANGED <<pc, url, visited, page, loaderVars>>

\* Mutant of Retry: polls give their attempt back.
RetryAfresh == Again(IF tries.polls > 0 THEN 0 ELSE tries.attempt + 1, 0)

Retry == Again(tries.attempt + 1, 0)

MayRetry == tries.attempt < MaxRetries

MayPoll == tries.polls < MaxPolls

\* A transient error: a retry, or the end of the crawl.
LoadFails ==
    /\ pc = "load"
    /\ \/ MayRetry /\ Retry /\ UNCHANGED <<stage, met>>
       \/ ~MayRetry /\ Stops /\ stage' = "fetch" /\ UNCHANGED met
    /\ UNCHANGED <<lists, terminal, outcome>>

LoadReturns(v, answer, ok) ==
    /\ pc = "load" /\ answer \in Answers(v)
    /\ \/ /\ answer = "challenge"
          /\ Stops /\ Challenged /\ stage' = "fetch"
          /\ UNCHANGED <<lists, outcome>>
       \/ /\ answer = "wait" /\ MayPoll
          /\ Again(tries.attempt, tries.polls + 1)
          /\ UNCHANGED resultVars
       \/ /\ answer = "retry" /\ MayRetry
          /\ Retry
          /\ UNCHANGED resultVars
       \/ /\ \/ answer \in {"parse", "stop"}
             \/ answer = "wait" /\ ~MayPoll
             \/ answer = "retry" /\ ~MayRetry
          /\ page' = [ok |-> ok, live |-> v, final |-> v, rounds |-> 0]
          /\ tries' = NoTries
          /\ Goto("live")
          /\ UNCHANGED <<url, visited, resultVars, loaderVars>>

-----------------------------------------------------------------------------
(* What is rendered on the page: expansion, the loader, the dynamic next.  *)

MayAct == page.ok /\ page.live.size = "full"

\* The page-size control was set, or there is none.
Expand(v) ==
    /\ pc = "live" /\ page.live.size # "empty" /\ page.rounds < MaxPages
    /\ v = page.live \/ (MayAct /\ v.size # "empty")
    /\ page' = [page EXCEPT !.live = v, !.final = v]
    /\ Goto("collect")
    /\ loader' = LoaderOff /\ seen' = Links(v) /\ snapshots' = <<>>
    /\ UNCHANGED <<url, visited, tries, resultVars>>

NothingLive ==
    /\ pc = "live" /\ (page.live.size = "empty" \/ page.rounds >= MaxPages)
    /\ Stops
    /\ UNCHANGED resultVars

StartLoader ==
    /\ pc = "collect" /\ MayAct /\ loader.phase = "off"
    /\ LoaderStarts(page.live)
    /\ UNCHANGED <<pc, pageVars, resultVars>>

LoaderRuns ==
    /\ pc = "collect"
    /\ LoaderStep
    /\ UNCHANGED <<pc, pageVars, resultVars>>

\* The loader is done: final_html is what the page shows now.
CollectEnds(v) ==
    /\ pc = "collect"
    /\ \/ loader.phase = "done" /\ v.size # "empty"
       \/ loader.phase = "off" /\ ~MayAct /\ v = page.live
    /\ page' = [page EXCEPT !.final = v]
    /\ Goto("parse")
    /\ UNCHANGED <<url, visited, tries, resultVars, loaderVars>>

\* rendered_pages: the live page, the snapshots, and the page at the end.
Rendered ==
    LET rounds == <<page.live>> \o snapshots IN
    IF loader.challenged \/ Contains(rounds, page.final) THEN rounds ELSE Append(rounds, page.final)

\* The rows _parse_fetched_html gets from the rendered pages.
Rows == UNION {{<<p, v.rows[p]>> : p \in DOMAIN v.rows} : v \in ToSet(Rendered)}

Parsed(class) == {p \in People : <<p, class>> \in Rows}

\* The failure stage of the page parsed last.
StageOf(v) ==
    IF ~page.ok \/ v.size # "full" THEN {"fetch"}
    ELSE IF \E p \in DOMAIN v.rows : v.rows[p] # "pending" THEN {"none", "low_coverage_warning"}
    ELSE {"detection", "extraction"}

\* An empty text among the rendered ones raises and loses the crawl.
ParseRaises ==
    /\ pc = "parse" /\ page.ok
    /\ \E v \in ToSet(Rendered) : v.size = "blank"
    /\ Raise

ParsePages ==
    /\ pc = "parse"
    /\ page.ok => \A v \in ToSet(Rendered) : v.size # "blank"
    /\ stage' \in StageOf(Last(Rendered))
    /\ IF page.ok
       THEN /\ lists' = [records |-> lists.records \cup Parsed("include"),
                         pending |-> lists.pending \cup Parsed("pending"),
                         review |-> lists.review \cup Parsed("review"),
                         excluded |-> lists.excluded \cup Parsed("exclude")]
            /\ met' = [met EXCEPT !.rows = @ \cup Rows, !.challenged = @ \/ loader.challenged]
       ELSE UNCHANGED <<lists, met>>
    /\ terminal' = IF loader.challenged THEN "verification_required" ELSE terminal
    /\ IF loader.challenged \/ ~page.ok
       THEN Stops
       ELSE /\ Goto("next")
            /\ page' = [page EXCEPT !.live = NoView]
            /\ LoaderIsOver
            /\ UNCHANGED <<url, visited, tries>>
    /\ UNCHANGED outcome

\* Mutant of NextPage: any link is followed.
NextPageAgain(q) ==
    /\ pc = "next"
    /\ url' = q /\ visited' = visited \cup {q}
    /\ page' = NoLive /\ Goto("load")
    /\ UNCHANGED <<tries, loaderVars, resultVars>>

\* find_next_directory_page_url: a link to another page.
NextPage(q) ==
    /\ pc = "next"
    /\ IF q \in visited \/ Cardinality(visited) >= MaxPages
       THEN Stops
       ELSE /\ url' = q /\ visited' = visited \cup {q}
            /\ page' = NoLive
            /\ Goto("load")
            /\ UNCHANGED <<tries, loaderVars>>
    /\ UNCHANGED resultVars

\* No link, and no control to click either.
NoNext == pc = "next" /\ Stops /\ UNCHANGED resultVars

\* The "next" control was clicked.
DynamicNext(v, answer) ==
    /\ pc = "next" /\ v.size # "empty" /\ answer \in Answers(v)
    /\ \/ /\ answer = "challenge"
          /\ Stops /\ Challenged /\ stage' = "dynamic_next"
          /\ UNCHANGED <<lists, outcome>>
       \/ /\ answer \notin {"challenge", "parse"}
          /\ Stops /\ stage' = "dynamic_next"
          /\ terminal' = IF lists.records = {} THEN "failed" ELSE "review_recommended"
          /\ UNCHANGED <<lists, outcome, met>>
       \/ /\ answer = "parse" /\ Links(v) \subseteq Links(page.final)
          /\ Stops
          /\ UNCHANGED resultVars
       \/ /\ answer = "parse" /\ ~(Links(v) \subseteq Links(page.final))
          /\ page' = [page EXCEPT !.live = v, !.final = v, !.rounds = @ + 1]
          /\ Goto("live")
          /\ UNCHANGED <<url, visited, tries, resultVars, loaderVars>>

\* Another error of the browser.
Raises ==
    /\ pc \in {"load", "live", "collect", "next"}
    /\ Raise

-----------------------------------------------------------------------------
(* The result.                                                             *)

\* _normalize_record_profile_url: the empty address is the key of everyone without one.
Key(p) == IF p \in Linked THEN p ELSE NoLink

Keys(people) == {Key(p) : p \in people}

\* Mutant of Unless: a list is left as it was parsed.
UnlessNever(people, keys) == people

Unless(people, keys) == {p \in people : Key(p) \notin keys}

\* _outcome_from_records.
OutcomeOf(records) ==
    IF terminal # "none" THEN terminal
    ELSE IF records = {} THEN "failed"
    ELSE IF stage = "low_coverage_warning" THEN "review_recommended" ELSE "succeeded"

Sort ==
    /\ pc = "sort"
    /\ LET keys == Keys(lists.records) IN
       lists' = [lists EXCEPT !.pending = Unless(@, Keys(lists.records \cap Linked)),
                              !.review = Unless(@, keys), !.excluded = Unless(@, keys)]
    /\ outcome' = OutcomeOf(lists.records)
    /\ Goto("end")
    /\ UNCHANGED <<pageVars, terminal, stage, met, loaderVars>>

CrawlStep ==
    \/ LoadFails
    \/ \E v \in Views, answer \in {"parse", "retry", "challenge", "stop", "wait"}, ok \in BOOLEAN :
           LoadReturns(v, answer, ok)
    \/ NothingLive \/ StartLoader \/ LoaderRuns
    \/ \E v \in Views : Expand(v) \/ CollectEnds(v)
    \/ ParseRaises \/ ParsePages
    \/ \E q \in Pages : NextPage(q)
    \/ NoNext
    \/ \E v \in Views, answer \in {"parse", "retry", "challenge", "stop", "wait"} : DynamicNext(v, answer)
    \/ Sort

CrawlNext == CrawlStep \/ Raises

\* The loop takes its next step until it ends.
CrawlSpec == CrawlInit /\ [][CrawlNext]_crawlVars /\ WF_crawlVars(CrawlStep)

-----------------------------------------------------------------------------
(* Properties.                                                             *)

\* The types, and the limits of every counter of the loops.
CrawlTypeOK ==
    /\ pc \in {"load", "live", "collect", "parse", "next", "sort", "end", "raised"}
    /\ url \in visited /\ visited \subseteq Pages /\ Cardinality(visited) <= MaxPages
    /\ tries \in [attempt : 0 .. MaxRetries, polls : 0 .. MaxPolls, loads : Nat]
    /\ page \in [ok : BOOLEAN, live : Views \cup {NoView}, final : Views \cup {NoView}, rounds : 0 .. MaxPages]
    /\ lists \in [records : SUBSET People, pending : SUBSET People,
                  review : SUBSET People, excluded : SUBSET People]
    /\ terminal \in {"none", "verification_required", "review_recommended", "failed"}
    /\ outcome \in {"none", "succeeded", "verification_required", "review_recommended", "failed"}
    /\ met.rows \subseteq People \X Classes /\ met.challenged \in BOOLEAN
    /\ LoaderTypeOK

\* A page is loaded again at most MaxRetries times, each with at most MaxPolls polls,
\* however failures, retries and unfinished renderings alternate.
LoadsBounded == tries.loads <= MaxRetries + (MaxRetries + 1) * MaxPolls

\* A challenge met anywhere, on loading, in the loader or behind "next", and nothing
\* else, makes the outcome a verification, whatever was found before.
ChallengeIsReported ==
    pc = "end" => (met.challenged <=> outcome = "verification_required")

\* Every profile link the loader has counted as seen is in a page that is parsed, also
\* when the list took it out again before the end.
SeenIsParsed == pc = "parse" => seen \subseteq UNION {Links(v) : v \in ToSet(Rendered)}

\* Nobody with a profile link is lost between the pages and the lists, nobody who is
\* a record is in another list, and a record is one because some page said so.
LinkedAreSorted ==
    pc = "end" =>
        /\ \A p \in Linked, class \in Classes : <<p, class>> \in met.rows =>
               p \in lists.records \cup lists.pending \cup lists.review \cup lists.excluded
        /\ lists.records \cap Linked \cap (lists.pending \cup lists.review \cup lists.excluded) = {}
        /\ \A p \in People : <<p, "include">> \in met.rows => p \in lists.records

\* A crawl ends, whatever the site shows: rounds, polls, retries and pages run out.
CrawlEnds == <>(pc \in {"end", "raised"})

=============================================================================
