------------------------------ MODULE SourceWalk ------------------------------
(***************************************************************************)
(* How the evidence workflow reads the official pages of one school: what  *)
(* _run_school (faculty_workflow/service.py) makes of the queue of         *)
(* discovery.py, the rows of the sources table and the snapshot files of   *)
(* fetcher.py.  A run walks from the directory over pagination and links,  *)
(* then over the profiles of the people found, then over what those link   *)
(* to, and goes through the people once more; rows and snapshots survive   *)
(* it and are read again by the next run.                                  *)
(***************************************************************************)
EXTENDS Naturals, FiniteSets, SequencesExt

CONSTANTS
    Pages,       \* the URLs; the content of a page is known by its URL
    Root,        \* the directory of the school
    Official,    \* the pages of the institution
    People,
    Sites,       \* what the pages may show
    MaxDepth, MaxPages,   \* DiscoveryLimits
    MaxTurns,    \* pages of one pagination (100 in the code)
    NoPage

\* The types a run starts from (a research portal is treated as a unit is).
RootTypes == {"faculty_directory", "research_unit"}

\* What a site shows: who is on a page, where its "next" leads, its links to other
\* directories in their order, where a URL is redirected, who has a profile page, what a
\* search for the others finds, and the links of a profile that may hold an address.
Site ==
    [listed : [Pages -> SUBSET People], next : [Pages -> Pages \cup {NoPage}],
     links : [Pages -> Seq(Pages \X RootTypes)], final : [Pages -> Pages],
     profile : [People -> Pages \cup {NoPage}],
     hints : [People -> SUBSET Official], mails : [Pages -> SUBSET Official]]

\* A browser follows redirects to their end.
ASSUME WalkAssumption ==
    /\ Root \in Official /\ Official \subseteq Pages /\ IsFiniteSet(Pages)
    /\ Sites \subseteq Site /\ NoPage \notin Pages
    /\ \A s \in Sites : \A p \in Pages : s.final[s.final[p]] = s.final[p]
    /\ MaxDepth \in Nat /\ MaxPages \in Nat \ {0} /\ MaxTurns \in Nat \ {0}

VARIABLES
    site,
    ids,         \* the pages with a row, in the order of the ids
    row,         \* the rows of the sources table
    file,        \* the snapshot files, by the page whose content names them
    pc, phase,   \* where the run is, and in which of its three parts
    graph,       \* OfficialSourceGraph
    node,        \* the node in hand, or the profile whose links are followed
    url,         \* next_url, or the page a search found
    visited,     \* of the pagination; later the hints to try, and email_pages
    found,       \* discovered_sources; before the walk, the rows it may start from
    seeds,       \* the people found
    todo         \* the seeds still to be looked at

table == <<ids, row, file>>
walkVars == <<site, ids, row, file, pc, phase, graph, node, url, visited, found, seeds, todo>>

NoRow == [type |-> "faculty_directory", state |-> "queued", snap |-> NoPage, depth |-> 0, stop |-> FALSE]

NoGraph == [queue |-> <<>>, seen |-> {}, stop |-> "", last |-> NoPage, capped |-> FALSE]

NoNode == [page |-> NoPage, type |-> "faculty_directory", depth |-> 0]

WalkInit ==
    /\ site \in Sites
    /\ ids = <<>> /\ row = [p \in Pages |-> NoRow] /\ file = [p \in Pages |-> "none"]
    /\ pc = "idle" /\ phase = "first" /\ graph = NoGraph /\ node = NoNode /\ url = NoPage
    /\ visited = {} /\ found = <<>> /\ seeds = {} /\ todo = {}

-----------------------------------------------------------------------------
(* The rows and the queue.                                                 *)

Smaller(m, n) == IF m < n THEN m ELSE n

\* Mutant of AddSource: the row of a known page is queued again.
AddSourceAfresh(p, type, depth) ==
    /\ ids' = IF p \in ToSet(ids) THEN ids ELSE Append(ids, p)
    /\ row' = [row EXCEPT ![p] = [NoRow EXCEPT !.type = type, !.depth = depth]]

\* add_source: a known page takes the new type and the smaller depth, and keeps the rest.
AddSource(p, type, depth) ==
    IF p \in ToSet(ids)
    THEN /\ row' = [row EXCEPT ![p].type = type, ![p].depth = Smaller(@, depth)]
         /\ UNCHANGED ids
    ELSE /\ row' = [row EXCEPT ![p] = [NoRow EXCEPT !.type = type, !.depth = depth]]
         /\ ids' = Append(ids, p)

\* add_source, and what update_source then makes of the row.
RecordSource(p, type, depth, state, snap) ==
    /\ row' = [row EXCEPT ![p] = [type |-> type, state |-> state, snap |-> snap, stop |-> @.stop,
                depth |-> IF p \in ToSet(ids) THEN Smaller(@.depth, depth) ELSE depth]]
    /\ ids' = IF p \in ToSet(ids) THEN ids ELSE Append(ids, p)

\* enqueue answers TRUE for these.
Accepts(g, p, depth) ==
    /\ p \in Official /\ depth <= MaxDepth
    /\ p \notin g.seen /\ Cardinality(g.seen) < MaxPages

\* The reason to stop: the first one at a depth is kept, the page budget replaces it.
StopReason(g, p, depth) ==
    IF p \notin Official \/ (depth <= MaxDepth /\ p \in g.seen) THEN g.stop
    ELSE IF depth <= MaxDepth THEN "page_budget_reached"
    ELSE IF g.stop = "" THEN "depth_limit_reached" ELSE g.stop

Enqueue(g, p, type, depth) ==
    IF Accepts(g, p, depth)
    THEN [g EXCEPT !.seen = @ \cup {p}, !.queue = Append(@, [page |-> p, type |-> type, depth |-> depth])]
    ELSE [g EXCEPT !.stop = StopReason(g, p, depth)]

\* list_sources, in the order of the ids.
ListSources == [i \in DOMAIN ids |-> <<ids[i], row[ids[i]].type>>]

\* The directory is added first, whatever the last run made of it.
StartRun ==
    /\ pc = "idle" /\ AddSource(Root, "faculty_directory", 0)
    /\ pc' = "roots" /\ found' = ListSources'
    /\ phase' = "first" /\ seeds' = {} /\ todo' = {}
    /\ graph' = NoGraph /\ node' = NoNode /\ url' = NoPage /\ visited' = {}
    /\ UNCHANGED <<site, file>>

\* Pages of a pagination and profiles are no roots.
EnqueueRoot ==
    /\ pc = "roots" /\ found # <<>> /\ found' = Tail(found)
    /\ LET p == Head(found)[1] IN
       graph' = IF Head(found)[2] \in RootTypes THEN Enqueue(graph, p, row[p].type, row[p].depth) ELSE graph
    /\ UNCHANGED <<site, table, pc, phase, node, url, visited, seeds, todo>>

RootsEnqueued ==
    /\ pc = "roots" /\ found = <<>> /\ pc' = "pop"
    /\ UNCHANGED <<site, table, phase, graph, node, url, visited, found, seeds, todo>>

\* Mutant of Pop: the node stays in the queue.
PopStays ==
    /\ pc = "pop" /\ graph.queue # <<>>
    /\ LET n == Head(graph.queue) IN
       /\ AddSource(n.page, n.type, n.depth)
       /\ graph' = [graph EXCEPT !.last = IF phase = "first" THEN n.page ELSE @]
       /\ node' = n /\ url' = n.page
    /\ visited' = {} /\ found' = <<>> /\ pc' = "turn"
    /\ UNCHANGED <<site, file, phase, seeds, todo>>

\* pop, and the start of _collect_directory_seeds.
Pop ==
    /\ pc = "pop" /\ graph.queue # <<>>
    /\ LET n == Head(graph.queue) IN
       /\ AddSource(n.page, n.type, n.depth)
       /\ graph' = [graph EXCEPT !.queue = Tail(@), !.last = IF phase = "first" THEN n.page ELSE @]
       /\ node' = n /\ url' = n.page
    /\ visited' = {} /\ found' = <<>> /\ pc' = "turn"
    /\ UNCHANGED <<site, file, phase, seeds, todo>>

\* What was discovered is enqueued one by one, with a row for each that is taken.
EnqueueFound ==
    /\ pc = "enqueue" /\ found # <<>>
    /\ LET p == Head(found)[1]
           type == Head(found)[2] IN
       /\ graph' = Enqueue(graph, p, type, node.depth + 1)
       /\ IF Accepts(graph, p, node.depth + 1)
          THEN AddSource(p, type, node.depth + 1)
          ELSE UNCHANGED <<ids, row>>
    /\ found' = Tail(found)
    /\ UNCHANGED <<site, file, pc, phase, node, url, visited, seeds, todo>>

Enqueued ==
    /\ pc = "enqueue" /\ found = <<>>
    /\ pc' = IF phase = "profiles" THEN "profile" ELSE "pop"
    /\ UNCHANGED <<site, table, phase, graph, node, url, visited, found, seeds, todo>>

\* The queue is empty: the reason to stop goes to the row read last, but after the first
\* part only; without people the school is left to the user.
WalkedOut ==
    /\ pc = "pop" /\ graph.queue = <<>>
    /\ row' = IF phase = "first" /\ graph.last # NoPage /\ graph.stop # ""
              THEN [row EXCEPT ![graph.last].stop = TRUE] ELSE row
    /\ pc' = CASE phase = "second" -> "extract"
               [] phase = "first" /\ seeds = {} -> "idle"
               [] OTHER -> "profile"
    /\ phase' = IF phase = "first" THEN "profiles" ELSE phase
    /\ todo' = IF phase = "first" THEN seeds ELSE todo
    /\ UNCHANGED <<site, ids, file, graph, node, url, visited, found, seeds>>

-----------------------------------------------------------------------------
(* One directory with its pagination: _collect_directory_seeds.            *)

\* _load_cached_source_page has a file to open for this row.
IsCached(p) ==
    row[p].state = "fetched" /\ row[p].snap # NoPage /\ file[row[p].snap] # "none"

\* The next turn of the loop: a page seen before, or one too many, ends it.
Turn ==
    /\ pc = "turn"
    /\ IF url \in visited \/ Cardinality(visited) = MaxTurns
       THEN /\ pc' = "enqueue" /\ UNCHANGED visited
            /\ graph' = [graph EXCEPT !.capped = @ \/ url \notin visited]
       ELSE /\ pc' = "load" /\ visited' = visited \cup {url} /\ UNCHANGED graph
    /\ UNCHANGED <<site, table, phase, node, url, found, seeds, todo>>

\* The row is marked, and the exception ends the school.
Fails(p) ==
    /\ row' = [row EXCEPT ![p].state = "failed"]
    /\ pc' = "raised"
    /\ UNCHANGED <<site, ids, file, phase, graph, node, url, visited, found, seeds, todo>>

\* Mutant of Keeps: a later page that fails leaves no trace in its row.
KeepsSilently(p) ==
    /\ pc' = "enqueue"
    /\ UNCHANGED <<site, table, phase, graph, node, url, visited, found, seeds, todo>>

\* FetchError: the row is marked, and what the earlier pages gave is kept.
Keeps(p) ==
    /\ row' = [row EXCEPT ![p].state = "failed"]
    /\ pc' = "enqueue"
    /\ UNCHANGED <<site, ids, file, phase, graph, node, url, visited, found, seeds, todo>>

\* A page whose snapshot is read again: one cut off in the middle raises EOFError, an
\* empty one reads as a page that shows nothing.
LoadCached ==
    /\ pc = "load" /\ IsCached(url)
    /\ \/ file[row[url].snap] = "part" /\ Fails(url)
       \/ /\ file[row[url].snap] # "part"
          /\ pc' = IF file[row[url].snap] = "empty" THEN "enqueue" ELSE "parse"
          /\ UNCHANGED <<site, table, phase, graph, node, url, visited, found, seeds, todo>>

\* The page is downloaded: fetch gives up, is blocked, or has the page.
Download ==
    /\ pc = "load" /\ ~IsCached(url)
    /\ \/ Keeps(url)
       \/ Fails(url)
       \/ LET p == site.final[url] IN
          /\ pc' = IF file[p] = "none" THEN "write" ELSE "record"
          /\ file' = IF file[p] = "none" THEN [file EXCEPT ![p] = "empty"] ELSE file
          /\ UNCHANGED <<site, ids, row, phase, graph, node, url, visited, found, seeds, todo>>

\* gzip writes the new file piece by piece; the disk may be full.
WriteSnapshot ==
    /\ pc = "write"
    /\ LET p == site.final[url] IN
       \/ /\ file[p] = "empty" /\ file' = [file EXCEPT ![p] = "part"]
          /\ UNCHANGED <<site, ids, row, pc, phase, graph, node, url, visited, found, seeds, todo>>
       \/ /\ file[p] = "part" /\ file' = [file EXCEPT ![p] = "whole"] /\ pc' = "record"
          /\ UNCHANGED <<site, ids, row, phase, graph, node, url, visited, found, seeds, todo>>
       \/ Fails(url)

\* _record_fetched_source of a download.
Record ==
    /\ pc = "record" /\ pc' = "parse"
    /\ row' = [row EXCEPT ![url].state = "fetched", ![url].snap = site.final[url]]
    /\ UNCHANGED <<site, ids, file, phase, graph, node, url, visited, found, seeds, todo>>

\* The people of the page, its links, and its next page, for which a row is added.  That
\* discovered_sources drops the second of two links to a page makes no difference to the
\* queue, which knows the page by then.
Parse ==
    /\ pc = "parse"
    /\ LET p == site.final[url]
           next == site.next[p] IN
       /\ seeds' = seeds \cup site.listed[p]
       /\ found' = found \o site.links[p]
       /\ IF next \in Official
          THEN /\ AddSource(next, "directory_page", 0)
               /\ url' = next /\ pc' = "turn"
          ELSE /\ pc' = "enqueue" /\ UNCHANGED <<ids, row, url>>
    /\ UNCHANGED <<site, file, phase, graph, node, visited, todo>>

-----------------------------------------------------------------------------
(* The profiles.                                                           *)

\* Nothing to look at: no profile, a complete directory card, an accepted person, or a
\* profile that cannot be fetched.
PassProfile ==
    /\ pc = "profile" /\ \E q \in todo : todo' = todo \ {q}
    /\ UNCHANGED <<site, table, pc, phase, graph, node, url, visited, found, seeds>>

\* The snapshot that a page read as a profile has: a download leaves none.
SnapOf(p) == IF IsCached(p) THEN row[p].snap ELSE NoPage

\* The page of a profile, under the URL it was served from: its row takes the type of a
\* profile; its links are followed at depth one.
ReadProfile(q) ==
    /\ pc = "profile" /\ q \in todo /\ site.profile[q] # NoPage
    /\ todo' = todo \ {q}
    /\ LET asked == site.profile[q]
           p == site.final[asked] IN
       IF IsCached(asked) /\ file[row[asked].snap] = "part"
       THEN pc' = "raised" /\ UNCHANGED <<ids, row, node, found>>
       ELSE /\ RecordSource(p, "person_profile", 1, "fetched", SnapOf(asked))
            /\ IF p \in Official
               THEN /\ node' = [NoNode EXCEPT !.page = p] /\ pc' = "enqueue"
                    /\ found' = IF IsCached(asked) /\ file[row[asked].snap] = "empty" THEN <<>> ELSE site.links[p]
               ELSE UNCHANGED <<node, pc, found>>
    /\ UNCHANGED <<site, file, phase, graph, url, visited, seeds>>

ProfilesEnd ==
    /\ pc = "profile" /\ todo = {}
    /\ pc' = "pop" /\ phase' = "second"
    /\ UNCHANGED <<site, table, graph, node, url, visited, found, seeds, todo>>

-----------------------------------------------------------------------------
(* The people once more: what their candidates are made from.              *)

Extract ==
    /\ pc = "extract" /\ pc' = "people" /\ todo' = seeds
    /\ UNCHANGED <<site, table, phase, graph, node, url, visited, found, seeds>>

\* No page is read for somebody who is accepted, excluded or complete on a directory card,
\* or whose profile cannot be fetched.
PassPerson ==
    /\ pc = "people" /\ \E q \in todo : todo' = todo \ {q}
    /\ UNCHANGED <<site, table, pc, phase, graph, node, url, visited, found, seeds>>

\* The profile is read, from its snapshot if it has one; an empty one has no links.
ReadPerson(q) ==
    /\ pc = "people" /\ q \in todo /\ site.profile[q] # NoPage
    /\ todo' = todo \ {q}
    /\ LET asked == site.profile[q] IN
       IF IsCached(asked) /\ file[row[asked].snap] = "part"
       THEN pc' = "raised" /\ UNCHANGED <<ids, row, node>>
       ELSE /\ RecordSource(site.final[asked], "person_profile", 0, "fetched", SnapOf(asked))
            /\ node' = [NoNode EXCEPT !.page = site.final[asked]]
            /\ pc' = IF IsCached(asked) /\ file[row[asked].snap] = "empty" THEN "people" ELSE "mails"
    /\ UNCHANGED <<site, file, phase, graph, url, visited, found, seeds>>

\* _discover_official_profile_page: somebody without a profile is searched for.
Search(q) ==
    /\ pc = "people" /\ q \in todo /\ site.profile[q] = NoPage
    /\ todo' = todo \ {q} /\ visited' = site.hints[q] /\ pc' = "hints"
    /\ UNCHANGED <<site, table, phase, graph, node, url, found, seeds>>

\* A hint is downloaded, with or without a snapshot of before.  Nobody is found when the fetch
\* fails, leaves the official pages, or gives a page without the name.
MissHint(h) ==
    /\ pc = "hints" /\ h \in visited /\ visited' = visited \ {h}
    /\ \/ RecordSource(h, "person_profile", 1, "failed", row[h].snap)
       \/ RecordSource(h, "person_profile", 1, "rejected",
                       IF site.final[h] \in Official THEN NoPage ELSE row[h].snap)
    /\ UNCHANGED <<site, file, pc, phase, graph, node, url, found, seeds, todo>>

FindHint(h) ==
    /\ pc = "hints" /\ h \in visited /\ visited' = {}
    /\ site.final[h] \in Official /\ RecordSource(h, "person_profile", 1, "fetched", NoPage)
    /\ url' = site.final[h] /\ pc' = "found"
    /\ UNCHANGED <<site, file, phase, graph, node, found, seeds, todo>>

\* The page that was found is recorded a second time, under the URL it was served from.
ReadFound ==
    /\ pc = "found" /\ RecordSource(url, "person_profile", 0, "fetched", NoPage)
    /\ node' = [NoNode EXCEPT !.page = url] /\ pc' = "mails"
    /\ UNCHANGED <<site, file, phase, graph, url, visited, found, seeds, todo>>

\* fetch_email_source: an address may be looked for on linked pages; those that are not
\* cached are downloaded, and a fetch may fail.
FetchMails ==
    /\ pc = "mails" /\ pc' = "emails"
    /\ \E S \in SUBSET {u \in site.mails[node.page] : ~IsCached(u)} : visited' = {site.final[u] : u \in S}
    /\ UNCHANGED <<site, table, phase, graph, node, url, found, seeds, todo>>

RecordMail(p) ==
    /\ pc = "emails" /\ p \in visited /\ visited' = visited \ {p}
    /\ RecordSource(p, "official_email_source", 0, "fetched", NoPage)
    /\ UNCHANGED <<site, file, pc, phase, graph, node, url, found, seeds, todo>>

\* No hint, or no page with an address, is left.
NextPerson ==
    /\ pc \in {"hints", "emails"} /\ visited = {} /\ pc' = "people"
    /\ UNCHANGED <<site, table, phase, graph, node, url, visited, found, seeds, todo>>

-----------------------------------------------------------------------------
WalkStep ==
    \/ EnqueueRoot \/ RootsEnqueued \/ Pop \/ EnqueueFound \/ Enqueued \/ WalkedOut
    \/ Turn \/ LoadCached \/ Download \/ WriteSnapshot \/ Record \/ Parse
    \/ PassProfile \/ (\E q \in People : ReadProfile(q)) \/ ProfilesEnd
    \/ Extract \/ PassPerson \/ (\E q \in People : ReadPerson(q) \/ Search(q))
    \/ (\E h \in Pages : MissHint(h) \/ FindHint(h)) \/ ReadFound
    \/ FetchMails \/ (\E p \in Pages : RecordMail(p)) \/ NextPerson

\* The memory of a run is gone; rows and files stay.
Forget ==
    /\ pc' = "idle" /\ phase' = "first" /\ graph' = NoGraph /\ node' = NoNode /\ url' = NoPage
    /\ visited' = {} /\ found' = <<>> /\ seeds' = {} /\ todo' = {}
    /\ UNCHANGED <<site, table>>

\* The school is completed or left to the user, or recorded as failed or blocked.
EndRun == (pc = "raised" \/ (pc = "people" /\ todo = {})) /\ Forget

\* A cancellation is looked at before every node, every profile and every person.
CancelRun == pc \in {"pop", "profile", "people"} /\ Forget

\* The process ends, also in the middle of a snapshot.
CrashRun == pc # "idle" /\ Forget

WalkNext == StartRun \/ WalkStep \/ EndRun \/ CancelRun \/ CrashRun

\* The worker goes on: every fetch has a timeout.
WalkSpec == WalkInit /\ [][WalkNext]_walkVars /\ WF_walkVars(WalkStep \/ EndRun)

-----------------------------------------------------------------------------
(* Properties.                                                             *)

\* Where a page leads, by pagination and by links.
LeadsFrom(p) == {site.next[p]} \cup {site.links[p][i][1] : i \in DOMAIN site.links[p]}

Leads(pages) == Official \cap UNION {LeadsFrom(site.final[p]) : p \in pages}

\* A page says that it may not have been read as a directory: it failed, its snapshot is
\* one that a crash left empty, or it was last read as the profile of somebody.
Missed(p) ==
    \/ row[p].state = "failed" \/ row[p].type = "person_profile"
    \/ file[site.final[p]] = "empty"

\* Every page that the queue, or a page that was read, leads to.
Reach ==
    {p \in Pages : \A S \in SUBSET Pages :
        graph.seen \cup Leads({q \in S : ~Missed(q)}) \subseteq S => p \in S}

\* A walk that comes to its end without meeting a limit has everyone on every page that
\* the directories lead to, but for the pages that say themselves why not.  Whatever was
\* fetched, failed, cached or lost in this run and in the ones before.
IncompleteIsExplained ==
    pc = "extract" /\ graph.stop = "" /\ ~graph.capped =>
        \A p \in Reach : Missed(p) \/ site.listed[site.final[p]] \subseteq seeds

\* The people still to be looked at whose profile is served from this page under another URL.
ServedFrom(p) == {q \in todo : site.profile[q] \in Pages \ {p} /\ site.final[site.profile[q]] = p}

\* Another URL of those is served from this page.
Redirected(p, urls) == \E u \in urls \ {p} : site.final[u] = p

\* The page answers for somebody's profile, for a hint, or for a page with an address, that
\* is redirected to it; or it is a hint itself.
Overwritten(p) ==
    \/ pc \in {"profile", "people"} /\ row'[p].state = "fetched" /\ ServedFrom(p) # {}
    \/ pc = "hints" /\ p \in visited \ visited'
    \/ pc = "found" /\ p = url /\ row'[p].state = "fetched" /\ Redirected(p, Pages)
    \/ pc = "emails" /\ p \in visited \ visited' /\ Redirected(p, site.mails[node.page])

\* What was fetched with a snapshot stays so for the runs to come, unless the snapshot is
\* cut off, or the page is read once more for a person in one of those ways.
SuccessIsKept ==
    [][\A p \in Pages : row[p].state = "fetched" /\ row[p].snap # NoPage =>
          \/ row'[p].snap = row[p].snap /\ (row'[p].state = "fetched" \/ file[row[p].snap] = "part")
          \/ Overwritten(p)]_walkVars

\* Every run ends, however pages, links and paginations lead back to each other.
WalkEnds == pc # "idle" ~> pc = "idle"

=============================================================================
