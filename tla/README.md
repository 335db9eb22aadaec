# Faculty crawler: a TLA+ model of its workflows

The program collects faculty directories from university sites. It has two stacks
that share little code:

* the **batch and verification stack** (`crawler/`, `ui/`, `desktop_app.py`): a list of
  URLs is crawled one after the other by a worker thread; a page that challenges the
  crawler is put in a *verification queue*, the user solves the challenge in a visible
  browser, and the task is resumed. This window is opt-in since the Qt window became
  the default (`FACULTY_CRAWLER_LEGACY_UI=1`), the crawler below it is not;
* the **evidence workflow stack** (`faculty_workflow/`, `desktop_ui/`, `workflow.py`,
  `workflow_desktop.py`): schools, sources and candidates in an SQLite database, run by
  a service with a budget for AI calls, review generations and access reviews.

Fourteen modules model what the two stacks do, eight hold proofs about them, nine `MC`
modules give them instances, and `PROJECT.json` maps every definition to its lines.

## 1. Inventory

| Component | State | Operations | What makes it correct | Module |
|---|---|---|---|---|
| Task store (`crawler/task_store.py`) | one JSON file per run, status of each task; a named lock per directory | `save`, `update_task`, `load`, `list_runs`, `recover_interrupted` | a finished task stays finished; nothing is lost by a crash | `VerificationWorkflow` |
| Verification queue (`crawler/verification.py`) | one JSON file, at most one item per task: status, attempts | `enqueue`, `pending`, `mark_ready`, `defer`, `mark_failed`, `begin_resume`, `retry_failed`, `complete_resume`, `remove_terminal`, `remove_run`, `recover_interrupted_resumes` | an item per waiting task; attempts bounded; one claim at a time | `VerificationItems`, `VerificationWorkflow` |
| Verification service (same file) | none of its own | `verify`: browser, session, then store, then queue; `_defer` | store and queue agree after every outcome | `VerificationWorkflow` |
| Batch runner (`crawler/batch.py`) | the `CrawlTask` objects it shares with the window | `run_tasks` | every task settled; one task's failure is its own | `VerificationWorkflow` |
| Desktop workflow, controller (`desktop_app.py`, `ui/controller.py`) | rows, busy flags, event queue, two worker threads | start-up recovery, launch, resume, retry, verification, event pump, close | the window becomes free again and shows what is on disk; at most one worker per role | `VerificationWorkflow` |
| Retention (`crawler/retention.py`) | none | `purge_due`, `clear_temporary`, `clear_internal_data` | removes only what is due, items before files | `VerificationWorkflow` (`purge_due`) |
| Session store (`crawler/session_store.py`) | per site a payload file of each generation and a manifest | `save`, `load`, `clear_site`, `clear_all`, `list_sessions`, `purge_expired` | a crash leaves the old session or the new one, and no rest | `SessionStore`, `AtomicSession` |
| Page loop (`crawler/faculty_crawler.py`) | visited pages, retries, polls, four lists | `_crawl_pages`, `_outcome_from_records` | it ends; nobody seen is lost; the outcome tells what happened | `CrawlPages` |
| Dynamic loader (`crawler/dynamic_loader.py`) | rounds, links seen, snapshots | `collect_dynamic_snapshots` | it stops, and no earlier than the list is known | `DynamicLoader` |
| Page parsers (`crawler/parsers.py`, `faculty_workflow/adapters.py`) | the records of one page | `parse_faculty_page`, `UniversalDirectoryAdapter.parse` | everybody readable is read once, with the own link and address | `DirectoryPage` |
| Title rules and translation (`crawler/title_classifier.py`, `title_pipeline.py`, `translation.py`) | cache, capabilities of one client | `classify`, `process`, `translate` | nobody is dropped on the word of another title | `TitleTranslation` |
| Local translation service (`crawler/local_translation_service.py`) | the child process, the endpoint | `start`, `stop`, health checks | no child is left behind; the window is not held up | `TranslationService` |
| Source discovery, fetcher (`faculty_workflow/discovery.py`, `fetcher.py`) | page queue of one walk, rows of `sources`, snapshot files | `enqueue`, `pop`, `mark_visited`, `fetch`, `add_source`, `update_source` | a walk ends, and an incomplete one says why | `SourceWalk` |
| Candidate quality, e-mail, providers (`faculty_workflow/quality.py`, `email_resolver.py`, `providers.py`) | the seeds and rows of one school, the amounts spent | `_store_directory_seed`, `evaluate_candidate`, `_provider_call`, `duplicate_reasons` | evidence is of the person it is used for; nobody is dropped or accepted twice | `CandidateEvidence` |
| Workflow database and service (`faculty_workflow/database.py`, `service.py`) | tasks, schools, candidates, access reviews, generations; cancelled task ids | `run_task`, `cancel_task`, `run_review_generation`, `reopen_unresolved`, `decide_candidate`, ... | a candidate is decided once; generations are counted and closed | `ReviewWorkflow` |
| Qt workers and window (`desktop_ui/`) | serial pool, stop flag, executor, browser, dialogs | `submit`, `request_stop_after_current`, `shutdown`, `request_close`, `begin`/`finish`/`defer` | no command is lost; closing ends and leaves nothing | `DesktopWindow`, `SavedSession` |
| Import, export, reports; widgets; command lines, scripts | none beyond files | | | not modelled |

**Interactions.** In the first stack three threads meet in the two files of queue and
store, in the rows (shared `CrawlTask` objects) and in one event queue: the GUI thread, the
batch worker (`run_batch_worker` around `run_tasks`) and the verification worker. Each file
write is atomic under a lock; nothing covers both files. A named mutex
(`DesktopWorkflowOwner`) keeps a second process away. The batch worker runs the crawler,
which runs the loader on each page and the title pipeline on each person; the sessions it
loads are those a verification saved. In the second stack the threads are the Qt thread, a
serial pool and the executor that owns the visible browser; the shared state is the
database, and the files of the session and of the snapshots.

**What is hard.** Commits that span two files, or a file and a directory, and the crash
between them; late writes of one worker after another's; a claim written before a launch
that may be refused; the start-up that repairs each file from the other and may itself be
killed; counters across all of that. Loops bounded by several limits at once. In the second
stack: cancellation against completion, generations closed after an interrupted run, rows
written by three loops under unique indexes that do not see each other's keys, evidence
merged from cards in any order, and a window whose modal questions let the work go on.
`PROJECT.json` lists each hazard at its line.

## 2. What is modelled

### `VerificationItems`

The statuses (`crawler/models.py`), an item of the queue (status and attempts; the URL,
the reason and the times are left out), and for each operation of `VerificationQueue` its
guard (`CanDefer`, `CanBeginResume`, ...: where the code raises) and its result
(`Deferred`, `Claimed`, ...). `MaxAttempts` is `MAX_VERIFICATION_ATTEMPTS`.

### `VerificationWorkflow`

| Variable | In the code |
|---|---|
| `store`, `item` | the two kinds of files: what survives a crash |
| `phase`, `purging` | where `DesktopApp.__init__` is: purge, `recover_interrupted`, claims, items, save, up |
| `view`, `ui` | `self.tasks` and `CrawlTask.status` (written by the GUI *and* by the batch worker) |
| `running`, `stop` | `controller.state.running`, the stop event |
| `verifying`, `retrying` | `verification_in_progress`; the task between the two writes of a retry |
| `batch` | program counter and locals of the batch worker |
| `ver` | the same for the verification worker |
| `events` | the `UiEvent`s not yet handled; "log" and "task" events only redraw and are left out |

One action stands for the code between two points at which another thread, a crash or
a failing write can be observed: in practice between two file writes.

* **Start-up** (`Launch` ... `RecoveryEnds`): the retention purge of failed runs (items,
  then file), `recover_interrupted` run by run, `recover_interrupted_resumes` in one
  write, the queue writes of `_recover_desktop_tasks` item by item, then one save per
  changed run. `RecoveryAborts` is an error the code does not swallow: the window opens
  without rows. The age of 90 days is left open, so a purge may or may not be due.
* **Commands**: `Prepare`, `NewBatch`, `StartPending`, `Resume`, `RetryFailed` (two
  steps), `StopAfterCurrent`, `StartVerification`. "Process all" is a sequence of
  `StartVerification`. A launch is refused when the old thread is still alive
  (`launch_worker`), and can fail because the log file cannot be opened.
* **Pump**: `HandleEvent` handles the oldest event.
* **Batch worker**: `BatchCancels`/`BatchTakes` per task, `BatchCrawls` with its
  outcome chosen freely, `BatchEnqueues`/`BatchEnqueueFails`, `BatchPersists`,
  `BatchFinishes` (the `finally` block: settle the claim, post "finished"), `BatchExits`.
  Tasks are taken in any order. `BatchFinishes` reads the store and writes the queue in
  one step: no other thread writes that task's status in between.
* **Verification worker**: `verify` with every outcome: store first, queue second, the
  first write taken back when the second fails, then `_defer`.
* **Crash** kills all three threads at any point; `_on_close` is one too, because the
  workers are daemon threads.

Observed while modelling: the window only offers to start prepared rows and to continue
ready ones, while `_start_prepared_batch` also handles a selected pending or failed row
(`StartPending`, `RetryFailed`), as `tests/test_desktop_app.py` calls it; both are modelled.
A verification can be started while a batch runs, although the design says the
queue is entered after the batch
(`docs/superpowers/specs/2026-07-22-anti-crawler-resilience-design.md:285`): the start
button is not disabled, and the model allows it.

### `ReviewWorkflow`

One task of the evidence workflow: what `run_task`, `run_review_generation` and
`reopen_unresolved` do to its schools, its candidate rows and its review generations,
step by step, while the window's thread decides rows, cancels and sets the budget.

| Variable | In the code |
|---|---|
| `task`, `school` | `tasks.status`, `schools.status`; discovering, crawling and extracting are one status `"active"`, because every query treats them alike |
| `rows` | per person, the statuses of the rows that are not rejected |
| `finger` | of the person's latest review row, what `close_unchanged_reviews` compares (reason, evidence, source) |
| `retired` | rows whose `decision_note` names the generation that superseded them |
| `attempts`, `active` | completed generations that requeued schools; the schools of the running one. A generation's id is `attempts + 1`: at most one runs |
| `access` | pending rows of `access_reviews` |
| `cancelled` | the task is in `_cancelled_task_ids` (memory, lost in a crash) |
| `gui` | the window's thread between the two steps of `cancel_task` or `set_budget` |
| `run` | program counter and locals of the worker |

* **A transaction has two parts.** Python's `sqlite3` opens a transaction at the first
  write, so the SELECTs of `begin_review_generation`, `reopen_unresolved` and
  `close_unchanged_reviews` read outside it: each is a reading action (`StartReview`,
  `StartReopen`, `CloseReads`) and a writing one. Between them the window may decide. So it is
  with `supersede_provisional_profile`: `ExtractPerson` finds the display row (`found`),
  `RetireProfile` deletes it by its id, whatever it has become; `Followed` is its status when
  the user decides in between.
* **run_task**: `Discard`, `Recover`, `Check`, `LaunchRun`, then per school `SkipSchool`
  or `CrawlSchool`, `LoopEnds`, `Complete`; `RunFails` is an error outside a school.
  `Returns` is where it goes back to: a review run goes on to `CloseReads`,
  `CloseWrites`, `CompleteGeneration`.
* **_run_school**: `PagesRead` (the people of the directory, any subset), one `SaveProfile`,
  `SkipProfile` or `ProfileClashes` per person (the display row), `LinksRead`, then per person
  `ExtractPerson` and `RetireProfile` (the display row goes) and `NoNewRow`, `SaveCandidate` or
  `BudgetPauses`, and `SchoolEnds`. `SchoolCancelled`, `SchoolFails`, `SchoolBlocked` with
  `ListAccess` leave it early.
* **The user**: `CancelFlags`/`CancelWrites`, `BudgetReads`/`BudgetWrites`, `Decide`,
  `DecideRetired` (a list that still shows a superseded row), `ReprocessCandidate`,
  `ResolveAccess`. `UserActs` chooses among them.
* **Crash** loses the memory and keeps the tables; `OpenWindow` is the recovery of the
  Qt window.

What a page or a provider yields is chosen freely; so is whether a school was processed
before. `Linked` are the people the directory gives a profile URL for, `Redirected`
those whose URL leads to another page of the same site. Left out: the confirmation of
the policy (it is confirmed), the fields `decide_candidate` may edit besides the status,
generations begun without a review row (they change nothing), and two commands at once,
which the Qt pool excludes and the Tk window does not. Where the people of a school come
from is `SourceWalk`'s, what becomes of them and what it costs `CandidateEvidence`'s.

### `AtomicSession` and `SessionStore`

`AtomicSession` is what a session store promises: per site a session or none, and
operations that take effect at once or not at all (`Asks`, `Saves`, `Removes`, `Ends`,
`GivesUp`; `Spoils` is damage from outside). `SessionStore` is the directory: `manifest`,
`payload` (a file per generation, named by its metadata), `litter` (`.tmp` files of dead
writers), the `clock`, the operation `op` under the lock, and its `answer`. `BeginSave`,
`Publish`, `Commit`, `Finish` are a save; a load reads (`ReadSession`), then publishes a new
generation with the time of use and commits it; removals take the manifest
(`RemoveManifest`) before payloads and temporary files; a sweep `Visit`s each manifest
before the orphans (`SweepEnds`, or `SweepEndsEarly` when it meets what it cannot decode).
`Fail` and `Crash` end an operation between any two file operations; `Spoil` damages a
file. The refinement mapping is `Stored`: the data of the generation the manifest names, or
nothing. Left out: a manifest of another site (a collision of its hash) and the encryption.

### `DynamicLoader` and `CrawlPages`

One crawl. A *view* is what one HTML text shows: how much, and people with the class the
title pipeline puts them in. `LoaderRound` is one click or scroll, which shows any view;
two rounds of clicks or three of scrolling without a new link end a phase. `CrawlPages` has
the loop: `LoadFails`, `LoadReturns` (with retries and the polls of an unfinished
rendering), `Expand`, `StartLoader`, `LoaderRuns`, `CollectEnds`, `ParsePages`, `NextPage`,
`DynamicNext`, `Raises`, `Sort`; `lists` are its four lists, `terminal` and `outcome` what
it reports, `met` a history of what the site has shown. Left out: the consent click, the
delays, the texts of diagnostics.

### `SavedSession` and `DesktopWindow`

`SavedSession` has the two files of `faculty_workflow/session_store.py`, written one after
the other. `DesktopWindow` has three threads: `PoolStep` runs the commands of `queue` in
order and posts events; `ExecutorStep` does the browser's work the pool waits for; `GuiStep`
takes events, refreshes, and `UserStep` submits commands, stops, closes, answers the dialog
and the tray. `window` holds the flags of `MainWindow`, `browser` whether
`PageFetcher._interactive` is set, and `leaked` whether a browser was opened that nothing
refers to (a context that cannot be made, a first page that does not load). A refresh lists
the session files one after the other (`ListStep`); it unlinks a file it finds half written,
which fails while the executor writes it, as reading fails of one just removed. The error
(`RefreshFails`) leaves the handler of the event, before the run of a created task is
submitted. Left out: the expiry of a session after 30 days and its use by later crawls, and
other errors of a refresh (a locked database).

### `TranslationService` and `TitleTranslation`

`TranslationService` has the child process, which comes up, hangs and dies as it likes, the
start (`Launch`, `CheckHealth` up to the deadline), `stop` (`StopBegins`, `Terminate`,
`Kill`, each of which the system may refuse) and the address in the settings.
`TitleTranslation` adds the crawls of that window: of each person `OwnRules`,
`AskCapabilities`, `Capable`, `LookUp`, `Request` with its retries, `Store`, `Translated`.
A title is a value with the rule tables it matches; the rules are tried in the order of the
code. The cache outlives the crawls, the client does not.
Left out: the language the service detects, empty titles, and a crash of the window itself,
which leaves its child.

### `SourceWalk`

The sources of one school over several runs. A `site` says which page each page is served
as once redirects have been followed, what it links and lists, and its next page.
`ListSources` and `EnqueueRoot` fill the queue from the rows; `Pop`, `LoadCached` or
`Download` and `WriteSnapshot`, `Record`, `Parse` are one turn of the loop of `_run_school`
over `OfficialSourceGraph`, first over the directories and later over the units that
`ReadProfile` found links to on the profiles; `row` is the row of each source, `file` its
snapshot, which a crash can leave empty or in part, `graph` the queue with its limits,
`seeds` the people found. Then comes the loop over the people (`Extract`): `ReadPerson` reads
the profile once more, `Search` asks for pages about a person without one, `MissHint` and
`FindHint` go through the hints until `ReadFound`, `FetchMails` and `RecordMail` read up to
three links that may have an address. All of these write rows and no snapshots. `EndRun` is the
end of a run, after the last person or by an exception; `CancelRun` and `CrashRun` end it at
any point, and the next one starts from the rows. Some sites redirect a profile, a link or a
hint to a page of the walk, or search it out: `Overwritten` names the ways in which its row is
then taken over.

### `CandidateEvidence`

One visit of a school: the cards of its directory become `seeds` (`Collect`:
`_store_directory_seed` with its keys and its merging), display rows are written
(`ReadsEarly`, `EarlyRow`), and each person goes through the loop of `_run_school`:
`SkipPerson`, `Exclude`, `AcceptCards`, `ReviewUnread`, `Open` and `ReadPerson` of its
pages, `Ask` of a model within the budget, `Resolve` of the address, `Save` under the two
unique indexes and `duplicate_reasons`. Names, titles, addresses and pages are classes: which
names an address shows tokens of, which script a name is in, what a page prints. `Unkeyed` are
the names that `normalize_key` leaves nothing of, as those in another script: they are
equal to none and different from none (`SameName`, `Differ`), so keys, merging, indexes and
duplicates pass them over as the code does. A model gives any of `Answers`, with its own
address, homepage and quotes; `Grounded` drops what was quoted from elsewhere, `Verified` is
what becomes of its address, and `Disputed` whether the dearer model may be asked next. The file of
historical people is empty. Left out: the cap of three follow-up requests, the wording of the
exclusion rules.

### `DirectoryPage`

One page: headings and entries in a row; an entry's marks say which markup it stands in and
which predicates over its text hold. One action per stage of the cascade of
`parse_faculty_page`, each with its condition on what the earlier ones found, its way of
putting its people with theirs (before, after, instead) and `remove_duplicates` where the code
calls it. The first stage has the branches of `_parse_container`: `tr` rows, business cards,
cards with a title of another language; containers are those with a known title (`Signalled`),
or if there are none, list items of profile links (`Linked`). A reader that looks around a name
takes what it finds first: `Wrapper` are the people of one element, `EmailAround`,
`TitleAround` and `UrlAround` what the reader gets from there or from the next element. Then
`PassOn`, the layouts of `UniversalDirectoryAdapter` and what the service lets through. Left
out: deeper nesting (but for wrappers the page is flat), counts and stages for diagnostics,
titles taken from the context of a job table, a single unlinked e-mail card.

## 3. Properties and runs

`CHECK_DEADLOCK FALSE` where a closed program, an idle window or a finished crawl may stay
so.

| Run | Module, instance | Checks | States |
|---|---|---|---|
| `faults` | `MCVerificationWorkflow`: 2 tasks in 1 run, 3 attempts (the code's value), writes and log may fail, crashes | `AwaitingHasItem`, `AttemptsBelowLimit`, `OneWorkerPerTask`, `FinishedIsFinal`, `OpensReconciled` | 2.8 M |
| `clean` | the same with 2 attempts and no failing write, fairness | `OutcomesAgree`, `BatchSettlesAll`, `VerificationEnds` | 85 k |
| `decisions` | `MCReviewWorkflow`: 2 schools, 1 person with a profile URL, limit 1, every act of the user, crashes | `ReviewRunStaysInScope`, `DecidedIsKept` | 2.3 M |
| `generations` | the same with a URL that redirects, 2 fingerprints, limit 2 (the code's value), cancellation, crashes, fairness | `RetryLimit`, `CompletedIsSettled`, `UnchangedIsClosed`, `CommandEnds` | 2.2 M |
| `sessions` | `MCSessionStore`: 2 sites, one of them saved at time 0 only, 2 data (symmetric), times 0 to 2, lifetime 2, failures, crashes, damage | `SessionsAreAtomic`, `SweepLeavesNoRest` | 1.3 M |
| `crawl` | `MCCrawlPages`: 2 pages that lead to each other, 4 people, 2 with a link, 7 views, 3 rounds, 1 retry, 1 poll, fairness | `LoadsBounded`, `SeenIsParsed`, `LinkedAreSorted`, `CrawlEnds` | 276 k |
| `desktop` | `MCDesktopWindow`: 3 commands in any order, fairness | `ClosedLeavesNothing`, `CommandsComeBack`, `ExitFollowsWork`, `CreatedIsRun` | 396 k |
| `titles` | `MCTitleTranslation`: 3 titles, 5 languages, 2 crawls, 2 health checks, 1 retry, fairness | `NoChildIsLeft`, `SortedRightly`, `WindowIsNotHeld` | 706 k |
| `walk` | `MCSourceWalk`: 6 URLs, 7 sites, depth 2, 3 pages, 2 turns, several runs, crashes, fairness | `IncompleteIsExplained`, `SuccessIsKept`, `WalkEnds` | 1.4 M |
| `evidence` | `MCCandidateEvidence`: every pair of 15 cards and a card of a linked page, every pair with any of 20 answers of a model, budget 2, estimate 1, cost up to 2 | `OneSeedPerPerson`, `AcceptedIsPrinted`, `AddressIsTheirs`, `AcceptedAreDistinct`, `EveryoneIsAccounted`, `SpendIsBounded` | 1.5 M |
| `page` | `MCDirectoryPage`: every page of two nodes, every heading with two entries, three people under a heading whose names are headings, every row of five links | `RecordsAreOwn`, `ExcludedStayOut`, `ReadableIsRead`, `NobodyIsLost` | 974 k |
| `shared` | as `evidence`, people whose cards link one document | `EveryoneIsKept`, violated | |

What they show:

* **Queue and store.** Whatever fails and wherever the process dies, a task that waits on
  disk has its item (`AwaitingHasItem`), no item is retried past the limit
  (`AttemptsBelowLimit`), the visible browser and the crawl never share a task
  (`OneWorkerPerTask`), and a finished task is never reopened (`FinishedIsFinal`). A
  recovery that reaches its end leaves the two files and the rows telling one story, also
  when it was itself killed half-way (`OpensReconciled`). Without failing writes rows at
  rest show what is on disk, every task of a batch is settled, and a verification gives the
  window back.
* **Reviews.** Whatever the user does between two steps of the worker, no step of a run or
  of a generation takes back an accepted or given-up row, but for two writes that do not
  look at the status again (`DecidedIsKept`): that of `reopen_unresolved`, and the removal of a
  display row that was found before it was decided (`database.py:709`); and a review
  run crawls only the schools of its generation. Interrupted anywhere and taken up again,
  generations requeue schools at most `AttemptLimit` times, each ends with its unchanged
  reviews closed, a completed task has no school half-way, and every command ends.
  `CompletedIsSettled` and `UnchangedIsClosed` are checked with cancellation as the only act
  of the user: a stale `completed` written back by `set_budget`, or a row the user puts back
  to review while the generation closes, is outside what they claim.
* **Sessions.** Save, load, clear and sweep are atomic for whoever reads afterwards, with a
  crash or a failing write between any two changes of the directory, and a sweep that ends
  leaves nothing of the crashes before it.
* **Crawl.** Retries and polls together bound the loads of a page; every link the loader
  counted is in a page that is parsed, also if the list dropped it later; everyone with a
  link is in a list, the records are those some page called for, and nobody is a record and
  something else; the crawl ends, on pages that lead to each other too.
* **Window.** It closes only when nothing runs, nothing waits to be taken and no browser is
  open; every command comes back, a created task is run unless a stop was asked for or the
  refresh before it fails on a session file, and "exit after the current task", chosen while
  there is work, closes the window.
* **Titles.** No child is left behind that can be ended, the window is not held up by it,
  and everybody is sorted by the own title or its own translation, whatever an earlier
  crawl of another language left in the cache.
* **Sources.** A walk that reaches its end without meeting a limit has everyone its
  directories lead to, but for the pages that say why not: a row that failed, a page without
  anything, a page last read as a profile. Downloads are not undone by later runs, unless the
  snapshot is cut off or the page is read once more for a person: as a profile, a hint or a
  page with an address that is redirected to it, or as a hint itself. Every run ends.
* **People.** One seed per person whose name can be compared, under its own key, with no quotes
  of anybody else whose name can; an accepted address was printed on a card of the seed or on a
  page that was read, whatever a model says, and without a model is tied to the accepted name,
  unless the card that shows it links somebody else's page or was merged with others unseen; no
  two accepted people share an address, a homepage, or a name that can be compared; a visited
  school has a row for every seed, unless one of the same name or URL stands for it; the budget
  is passed by at most the error of one estimate.
* **Pages.** The readers do not mix people, but for two cases: a name that is no link may get
  the link next to it, and people who share an element may get the address of one of them. They
  keep to the sections, but for those that do not ask (business cards, headings of roles and of
  names, lists of their own), lose nobody except by taking the place of less, and a page with a
  readable container and no accordion never comes to nothing. With an accordion it can: the
  segments may take the card's place, and the accordion then drops those of its people it does
  not take for academics.

**The bounds.** Two tasks are the fewest for which a batch has a current task and one still to
do and for which the two workers can differ; `faults` uses the code's three attempts, and with
the two of `clean` one is still not the last. Crashes and restarts are not bounded, nor is the
event queue: the protocol keeps it short. In `ReviewWorkflow` rows of different people meet
only in their school, so one person with all its rows and a second school, which a generation
must leave alone, are enough; two fingerprints tell a changed review from an unchanged one.
Three times let a session be saved, used and expire, and the second site is there to be left
alone, so it is saved at time 0 only and otherwise swept (`Rare`). The two pages of `crawl`
return to each other; four people are one of each class, with and without a link; three rounds
exceed the patience of clicks and meet that of scrolling. Three commands of the window are one
running, one waiting and one asked for while a question is open. Two crawls are the fewest in
which a cache is used that another filled. The seven sites of `walk` place a person behind a
chain of units, on a profile's unit, behind a redirect, behind each limit and on the page a
profile is redirected to, and have search hints and pages with an address that are pages of the
walk, lead to one, or leave the institution; `MaxTurns` is 2 where the code has 100, `MaxDepth`
and `MaxPages` are parameters there too. Two people with a surname in common, two whose names
normalize to nothing, a laboratory, a document several are linked to, a page of a group, one
off the domain and four addresses are what the rules of seeds and rows tell apart, and
`evidence` takes every order of them. The answers of a model name one of two people with any
address, with and without quotes, in doubt, with a title outside the policy, in another
language, or with somebody else's homepage. `page` has every combination of two entries of any
markup; the counts that the code compares with 10 (`Few`, `Many`) are 2, so that both sides of
each comparison occur; three people of one wrapper are the fewest of whom one is in the middle.

**Fairness.** `VerificationWorkflow`: weak fairness of the start-up once begun, of the pump
(Tk's `after` reschedules it, and nothing but the process's end stops it), and of each
worker's steps: every fetch has a timeout and every loop a limit, and the verification
browser a deadline (`_max_duration`). `ReviewWorkflow`: weak fairness of the worker.
`CrawlPages` and `SourceWalk`: weak fairness of the one thread there is, as its requests have
timeouts. `DesktopWindow`: weak fairness of pool, executor and the GUI thread's own steps,
and strong fairness of taking an event, because the user's acts and the refreshes come in
between and Qt delivers posted events in order. `TitleTranslation`: weak fairness of the
start and stop of the service and of the crawl; none of the child. Nowhere of the user, who
may never stop, close or verify anything, and none of crashes.

### Disagreements

`PROJECT.json` lists 35 places where the code does what a document, a message or a test of the
repository does not say. One has a run that shows the disagreement: two people whose cards link
the same document are two seeds, and only one of them gets a row (`shared`; the unique index on
profile URLs fails the second insert and the school, `service.py:547`, or the second person is
skipped as already done, `service.py:632`), although
`docs/superpowers/specs/2026-07-30-official-pdf-evidence-design.md` has "every real name"
retained (lines 37, 43). The others were met while the definitions were translated; most are
behaviours of the models, which were shaped so that the properties above say nothing false
about them:

* *queue and store*: a store write that raises ends the whole batch (`batch.py:194`); a
  claim written before a launch that is refused stays until the next start-up
  (`desktop_app.py:1400`);
* *reviews*: a school interrupted after a display row fails on every rerun
  (`service.py:548`); a display row saved after a redirect is not found by its URL
  (`service.py:612`); a display row the user accepted after it was found is deleted
  (`database.py:709`); a cancelled run stops inside a school (`service.py:430`); a paused or
  cancelled run completes its generation (`service.py:332`);
* *crawl*: a later page given up leaves the outcome a plain success
  (`faculty_crawler.py:268`); one record without a link removes every reviewed person without
  one (`faculty_crawler.py:587`), which is why `LinkedAreSorted` is about those with a link;
* *window*: a close chosen after the work has ended waits for ever (`main_window.py:456`),
  which `ExitFollowsWork` excludes by its premise; an earlier command's success is taken for
  the verification's (`main_window.py:311`); the session's two files are written and listed
  without a lock (`faculty_workflow/session_store.py:90`); a created task is not run if the
  refresh before it fails on such a file (`main_window.py:339`);
* *titles*: a locked cache fails the crawl (`translation.py:252`); one slow answer is
  remembered for the client's life (`translation.py:246`); saving the settings loses the
  managed endpoint (`desktop_app.py:1163`);
* *sources*: an empty snapshot left by a crash is read as a page without people
  (`fetcher.py:206`); a redirected profile takes over the row of a directory page, which loses
  its snapshot, or the failure of a unit, which is then nowhere on record (`service.py:541`);
  the loop over the people overwrites snapshots in the same way (`service.py:796`);
* *names*: people whose names normalize to nothing become one seed (`service.py:1762`), one of
  them can be accepted twice (`database.py:246`), and their name is "found" on any page
  (`service.py:884`);
* *people and pages*: what a model quotes by a method of its own is not checked
  (`service.py:1661`); name and address of a card are merged apart, so that an address may join
  the name on another page (`service.py:1268`); conflicting addresses are resolved by a third card
  (`service.py:1783`); the first layout with two addresses stands for the page
  (`service.py:990`); a staff section below a kept title is recorded (`parsers.py:2547`);
  a person gets the neighbour's link (`parsers.py:3347`) or the first address of the element
  (`parsers.py:4777`); business cards of excluded sections are recorded (`parsers.py:1030`), and
  people with titles of another language next to a known one are not (`parsers.py:1004`);
  records with one URL are one (`parsers.py:749`); the review row of an unreadable profile
  may fail its school (`service.py:1169`).

## 4. Proofs

Every safety property of the passing runs, invariant or action property, is a theorem. The
proofs are of the specifications above without fairness, for every value of the constants
that the modules' assumptions admit. Three of the theorems have a further hypothesis, which
is part of their statement: `OutcomesAgreeHolds` that no write fails, `CompletedIsSettledHolds`
that the budget is not changed, `UnchangedIsClosedHolds` that no row is decided; the runs of
these properties are instances of it.

| Module | Proves of every behaviour | Obligations |
|---|---|---|
| `VerificationWorkflow_proofs` | `TypeOK`, `AwaitingHasItem`, `AttemptsBelowLimit`, `OneWorkerPerTask`, `FinishedIsFinal`, `OpensReconciled`, `OutcomesAgree` | 2956 |
| `ReviewWorkflow_proofs` | `TypeOK`, `RetryLimit`, `ReviewRunStaysInScope`, `DecidedIsKept`, `CompletedIsSettled`, `UnchangedIsClosed` | 1087 |
| `SessionStore_proofs` | `SessionTypeOK`, `LoadFindsNoConflict`, `SweepLeavesNoRest`, `SessionsAreAtomic` | 843 |
| `CrawlPages_proofs` | `CrawlTypeOK`, `LoadsBounded`, `ChallengeIsReported`, `SeenIsParsed`, `LinkedAreSorted` | 731 |
| `SourceWalk_proofs` | `IncompleteIsExplained`, `SuccessIsKept`; that rows and snapshot files fit (`RowsStaySound`) | 1882 |
| `CandidateEvidence_proofs` | `OneSeedPerPerson`, `AcceptedIsPrinted`, `AddressIsTheirs`, `AcceptedAreDistinct`, `EveryoneIsAccounted`, `SpendIsBounded` | 1358 |
| `PageAndTitles_proofs` | `RecordsAreOwn`, `ExcludedStayOut`, `ReadableIsRead`, `NobodyIsLost`; what `remove_duplicates` returns (`DuplicatesAreMerged`); `NoChildIsLeft`, `SortedRightly` | 1810 |
| `DesktopWindow_proofs` | `ClosedLeavesNothing` | 505 |

**`VerificationWorkflow_proofs`** (`MaxAttemptsAssumption`, `TasksAssumption`).
`AwaitingHasItem` is not inductive. `VerifyConfirmed` makes a task ready because of an
item it saw when the verification began; `BatchPersists` makes it wait because of an
`enqueue` some steps ago. In between, the item must not be removed or claimed by the
other threads, and what prevents it is the protocol of the window:

* `StartsAlone`: nothing runs before the window is open;
* `BusyInside`, `OneFinished`, `OneEnd`: a busy flag is up from the launch until the one
  event the worker posts as its last act has been handled;
* `RetryAlone`: a retry between its writes excludes both workers;
* `BatchHolds`, `BatchCrawlable`: the task in hand is not one still to do, has its item
  by the time it is recorded as waiting, and is either new or claimed while it is crawled;
* `VerHolds`: the item under verification is neither gone nor claimed;
* `PendingIsNew`, `ItemsSound`: a pending row has no item; an item at the limit has failed.

`IInv` is `TypeOK`, these parts (`Protocol`) and `AwaitingHasItem`. One lemma per group of
actions (`StartUpKeepsIInv` ... `CrashKeepsIInv`) shows that each action keeps it, with one
step per action and under it one per part the action can disturb.

`FinishedIsFinal` needs to know that no
thread holds a finished task: not the batch worker in its list or in hand, not a
verification, a retry, a row that offers a start, nor an event on its way to make one. Each
of them looked at the task some steps ago, so each is a part of `Open`, which is inductive
relative to `IInv`: `CompletedItems`, `VerWaits`, `RetryWaits`, `TodoOpen`, `InHandOpen`,
`ResultFits`, `RowsOpen`, `ReadyFits`. The last part, `HalfWayGone`, says that what the
start-up has put right stays right until it ends; with `AwaitingHasItem` it gives
`OpensReconciled`.

`OutcomesAgree` relates two things no step changes together: the row a window shows and the
file. A row and its file may differ while an event about it is on its way or the batch worker
holds its task. `Told` says which: an event on its way is about a task that waits
(`EventsWait`), a batch's events come before its end (`ToldFirst`), what the worker is about
to record is already shown (`HandWaits`, `HandShows`), and every other row agrees
(`RowsAgree`). A failing write breaks it at once, hence the hypothesis.

**`ReviewWorkflow_proofs`** (`ReviewAssumption`). `RetryLimit` is not inductive: a
generation counts when it completes, and the run that completes it may have been interrupted
and begun again. The strengthening says what the worker knows: `BeginHolds` (between its read
and its write no generation runs), `GenerationHolds` (a review run has a running generation
until it has completed it), `BusyHolds` (a crawl has its school) and `InScope` (its list lies
within the generation). Four lemmas (`IdleKeeps`, `ReturnsKeeps`, `GotoKeeps`, `LeaveKeeps`)
cover the ways on of the worker; one lemma per group of actions uses them.

`CompletedIsSettled` needs `Settled`: only a cancelled run leaves a school half-way, it does
not complete the task, and the next run recovers the school before it launches. `set_budget`
is the exception: it writes back a status it read earlier, "completed" too, after a new run
may have begun. `UnchangedIsClosed` needs `ClosingHolds`: the open rows that the running
generation has retired are among those `close_unchanged_reviews` has read, and none is left
when it has written. A decision may reopen such a row in between; nothing else does
(`ElsewhereStays`).

**`SessionStore_proofs`** (`SessionAssumption`; the invariant is `SessionIInv`). The refinement
is proved as two implications: initial states map to initial states, and every step of the
directory is an `Abs` step or a stutter under `Stored`. The invariant has what makes the second
true: `TimesHold` (no file names a time to come), `Uniform` (all generations of one session
hold the same data, so that a load can publish a further one) and `OpHolds` (what a save, a
load, a removal or a sweep knows at each of its stages).

**`CrawlPages_proofs`** (`LoaderAssumption` and that of the page loop). `CrawlInv` has
`Counted` (loads against attempts and polls, which bounds them when an attempt starts over
with fresh polls), `Reported` (terminal status against the challenges met), `LoaderOnPage`,
`SeenIsKept` (every link counted is in the live page or in a snapshot) and `Listed` (the lists
against the rows parsed).

**`CandidateEvidence_proofs`** (`EvidenceAssumption`: a URL is served as one page, and what
the adapter reads is on the page). Which names are compared is a parameter (`Unkeyed`), and the
theorems hold of any such set: without it `OneSeedPerPerson` and `AcceptedAreDistinct` would
say of those people what the code does not do. That people have one seed each rests on the shape of the
keys (`Shaped`): a key lengthened because of somebody else's ends in the name, so a new seed
never takes another's place, however often that happened (`KeysTold`). `AcceptedIsPrinted` needs
the same of what is under way: a seed's address is on one of its cards (`Quoting`) and a
draft's on what was read (`DraftInv`); no row is accepted before the loop over the people.

`AddressIsTheirs` adds what a draft made without a model is (`LocalInv`: what the page gives
for the person at hand) and two lemmas: the address `_best_email` takes shows a token of the
name or is the only one of the page (`BestIsTied`), and merging a card keeps its quote as
evidence; where the accepted name is not that of the card, the row is `Relinked` or `Mixed`.
`EveryoneIsAccounted` is shown person by person (`AccountedInv`): those before the one at hand
have a row that is not a display row, a step removes display rows only, and each way of leaving
a person writes a row, or skips because of one.

**`SourceWalk_proofs`** (`WalkAssumption`: finitely many pages, redirects followed to their
end). `RowsStaySound`: a row has an id, and its snapshot is a file of the page it was served
from. `SuccessIsKept` follows step by step, through the loop over the people too: each of its
writes is one of those `Overwritten` names. `IncompleteIsExplained` speaks of the least set of
pages closed under what pages lead to, and no variable holds the pages a walk has read:
`visited` begins anew with every directory and the rows are those of all runs. The invariant
says that such a set exists (`WalkCovered`): it has all that was queued, and each of its pages
is still to be read, or says why it was missed, or has given its people and leads only into
the set and the queue (`Pending`, `Excused`, `Followed`). When the queue is empty and no limit
was met, the set is closed, so it has every page of `Reach`.

**`DesktopWindow_proofs`** (`DesktopAssumption`). The pool's count is raised when a command is
submitted and lowered when the window takes its "finished" (`Counted`: the count is what is
queued, running, or finished and not yet taken), and the last event posted is always such a
one (`EndsFinished`). So when the count is zero nothing is left, and a close on the last
"finished" finds no other event.

**`PageAndTitles_proofs`**, the page (`PageAssumption`: pages are sequences of headings and
entries; any number of them). What a sequence is made of, position by position, is shown by the
least position at which it could fail, which the library's well-founded induction has
(`LeastNatural`): so `Gather` has everything it is given and nothing else (`GatherIsComplete`),
and `remove_duplicates` leaves one record of each key, makes none up and leaves none without an
address while one of its key has one (`DuplicatesAreMerged`). Each reader is sound: what it
finds is an entry's own or from around it as the reader looks, and that entry is in no excluded
section, or the reader does not ask (`Sound`, one lemma per reader). Joining and merging keep
that and a record of each key (`JoinedAreKept`). Hence `Advances`, what each stage does with
the records it is given, from which `PageInv` and the four properties follow.

The same module, the titles (`TitleAssumption`: a translation is never the empty answer).
`Ending`: a child that lives while the service has forgotten it is being ended, or cannot be.
`CacheSound`: every row is a title's own translation from its language, because the key has
both; `CrawlHolds` carries the same along the steps of a crawl and says that only titles the
rules leave open get there.

TLC finds no state of the runs' instances that violates any of these strengthenings.

Only model-checked: the liveness properties (`BatchSettlesAll`, `VerificationEnds`,
`CommandEnds`, `CrawlEnds`, `CommandsComeBack`, `ExitFollowsWork`, `CreatedIsRun`,
`WindowIsNotHeld`, `WalkEnds`), which need fairness and so `ENABLED`, beyond the prover. The
violated property is false, and its run shows why.

## 5. Not modelled

* What text and markup are: the predicates of the parsers, of the title rules and of the
  resolver over strings are marks and classes here; the state machines around them are
  modelled.
* `clear_temporary` and `clear_internal_data`, which delete files under the stores' feet;
  nothing in the repository says what they owe to work in progress. `Orphaned` is in the
  recovery because the code tests it.
* Two processes: the mutex admits one. Two commands of one task at once, as the Tk window of
  the second stack allows.
* Typing into the URL box during a batch (`ui/start_page.py:73`): whether the disabled widget
  still reports keys depends on the window system.
* Of the second stack: the clients of the providers and of the search, `robots.txt` and the
  rate limit, `reprocess_school`, import and export, the queries of the window's pages.
* Import, export and reports, widgets, command lines, packaging and scripts: input, output and
  presentation around the modelled parts.

Five hazards have no property; each says why in `PROJECT.json`. Four are behaviours the
models have and that are listed as disagreements or that no document promises anything about;
one is `clear_internal_data`.

## 6. What is left

1. An abstract task and an abstract review (pending, decided, given up after the limit) that
   `ReviewWorkflow` implements under a refinement mapping; two runs of one task.
2. The composition of `SourceWalk` and `CandidateEvidence` in one visit of a school, on a
   database that `ReviewWorkflow` shares.
3. Proofs of the abstract specifications of item 1 when they are written; a reference
   definition of the cascade (who of a page should be recorded) that the readers are compared
   with; of the liveness properties, the safety half: measures that no step of a worker raises.
