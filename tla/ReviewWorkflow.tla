---------------------------- MODULE ReviewWorkflow ----------------------------
(***************************************************************************)
(* One task of the evidence workflow (faculty_workflow/service.py and      *)
(* database.py): its schools, the candidate rows of their people, the      *)
(* review generations, and the run that crawls.  Every write is one SQLite *)
(* transaction; a transaction opens at its first write, so what an         *)
(* operation SELECTs before is read outside it, and reading and writing    *)
(* are two steps.  Two threads act: the worker (one command at a time) and *)
(* the window, which decides rows, cancels and sets the budget meanwhile.  *)
(* The policy of the task is confirmed.                                    *)
(***************************************************************************)
EXTENDS Naturals, FiniteSets

CONSTANTS
    Schools,
    People,         \* identities of people, normalized
    SchoolOf,       \* the school whose directory may list a person
    Linked,         \* people the directory gives a profile URL for
    Redirected,     \* those whose profile URL redirects to another official page
    Fingerprints,   \* what close_unchanged_reviews compares of a review row
    AttemptLimit,   \* completed generations after which reviews are given up
    UserActs,       \* which of the window's operations the user performs
    NoSchool, NoPerson

ASSUME ReviewAssumption ==
    /\ SchoolOf \in [People -> Schools]
    /\ Linked \subseteq People /\ Redirected \subseteq Linked
    /\ AttemptLimit \in Nat
    /\ NoSchool \notin Schools /\ NoPerson \notin People

VARIABLES
    task,       \* tasks.status
    school,     \* schools.status; "active": discovering, crawling or extracting
    rows,       \* statuses of a person's rows that are not rejected
    finger,     \* fingerprint of the person's latest review row
    retired,    \* rejected review rows and the generation that superseded them
    attempts,   \* completed generations that requeued schools
    active,     \* schools of the running generation, {} if none runs
    access,     \* schools with a pending access review
    cancelled,  \* the task is in _cancelled_task_ids
    found,      \* what the display row the worker has found and is to delete is by now
    gui,        \* what the window's thread is in the middle of
    run         \* the worker

tables == <<task, school, rows, finger, retired, attempts, active, access>>
vars   == <<tables, found, cancelled, gui, run>>

TaskStatus   == {"ready", "running", "paused_budget", "cancelled", "completed", "failed"}
SchoolStatus == {"pending", "active", "review", "completed", "failed",
                 "skipped_processed", "blocked_robots", "blocked_access"}
Indexed      == {"candidate", "accepted", "review"}  \* idx_active_candidate_person
RowStatus    == Indexed \cup {"unresolved"}

Generation    == attempts + 1     \* of the running generation
PeopleOf(s)   == {p \in People : SchoolOf[p] = s}
SchoolsOf(ps) == {SchoolOf[p] : p \in ps}
Rowed(status) == {p \in People : status \in rows[p]}

Clashes(p)    == rows[p] \cap Indexed # {}

Idle == [pc |-> "idle", review |-> FALSE, only |-> {}, todo |-> {}, school |-> NoSchool,
         seeds |-> {}, left |-> {}, person |-> NoPerson, read |-> {}]
IdleGui == [pc |-> "idle", status |-> "ready"]

RunState ==
    [pc : {"idle", "begin", "reopen", "discard", "recover", "check", "launch", "schools",
           "pages", "profiles", "links", "extract", "supersede", "enrich", "access", "complete",
           "close", "closing", "end"},
     review : BOOLEAN, only : SUBSET Schools, todo : SUBSET Schools,
     school : Schools \cup {NoSchool}, seeds : SUBSET People, left : SUBSET People,
     person : People \cup {NoPerson}, read : SUBSET People]

\* No row clashes with another one of its person: the unique indexes.
TypeOK ==
    /\ task \in TaskStatus
    /\ school \in [Schools -> SchoolStatus]
    /\ rows \in [People -> SUBSET RowStatus]
    /\ finger \in [People -> Fingerprints]
    /\ retired \in SUBSET (Nat \X People \X Fingerprints)
    /\ attempts \in Nat
    /\ active \in SUBSET Schools
    /\ access \in SUBSET Schools
    /\ found \in Indexed \cup {"none"}
    /\ cancelled \in BOOLEAN
    /\ gui \in [pc : {"idle", "cancelling", "budget"}, status : TaskStatus]
    /\ run \in RunState
    /\ \A p \in People : \A a, b \in rows[p] \cap Indexed : a = b

Init ==
    /\ task = "ready"
    /\ school = [s \in Schools |-> "pending"]
    /\ rows = [p \in People |-> {}]
    /\ finger \in [People -> Fingerprints]
    /\ retired = {}
    /\ attempts = 0
    /\ active = {}
    /\ access = {}
    /\ found = "none"
    /\ cancelled = FALSE
    /\ gui = IdleGui
    /\ run = Idle

Goto(pc)    == run' = [run EXCEPT !.pc = pc]
Requeued(S) == [s \in Schools |-> IF s \in S THEN "pending" ELSE school[s]]
\* The rows of ps with status `from' get status `to' (or become rejected).
Changed(ps, from, to) ==
    [p \in People |-> IF p \in ps /\ from \in rows[p]
                      THEN (rows[p] \ {from}) \cup to ELSE rows[p]]

-----------------------------------------------------------------------------
(* Commands of the worker.                                                 *)

StartTask ==
    /\ run.pc = "idle"
    /\ run' = [Idle EXCEPT !.pc = "discard", !.only = Schools]
    /\ UNCHANGED <<tables, found, cancelled, gui>>

\* run_review_generation: begin_review_generation up to its first write.
\* A running generation is taken up again; without review rows nothing is begun.
StartReview ==
    /\ run.pc = "idle"
    /\ \/ /\ active # {}
          /\ run' = [Idle EXCEPT !.pc = "discard", !.review = TRUE, !.only = active]
       \/ /\ active = {} /\ Rowed("review") # {}
          /\ run' = [Idle EXCEPT !.pc = "begin", !.read = Rowed("review")]
    /\ UNCHANGED <<tables, found, cancelled, gui>>

\* The UPDATEs repeat the status: a row decided since the read keeps its decision.
\* The schools are those of all rows read.
BeginGivesUp ==
    /\ run.pc = "begin"
    /\ attempts >= AttemptLimit
    /\ rows' = Changed(run.read, "review", {"unresolved"})
    /\ run' = Idle
    /\ UNCHANGED <<task, school, finger, retired, attempts, active, access, found, cancelled, gui>>

\* Mutants of BeginSupersedes: the UPDATE forgets the status, or the limit is
\* off by one.
SupersedesDecided ==
    /\ run.pc = "begin"
    /\ attempts < AttemptLimit
    /\ rows' = [p \in People |-> IF p \in run.read THEN {} ELSE rows[p]]
    /\ retired' = retired \cup {<<Generation, p, finger[p]>> : p \in run.read}
    /\ school' = Requeued(SchoolsOf(run.read))
    /\ active' = SchoolsOf(run.read)
    /\ run' = [Idle EXCEPT !.pc = "discard", !.review = TRUE, !.only = SchoolsOf(run.read)]
    /\ UNCHANGED <<task, finger, attempts, access, found, cancelled, gui>>
SupersedesOnceMore ==
    /\ run.pc = "begin"
    /\ attempts <= AttemptLimit
    /\ rows' = Changed(run.read, "review", {})
    /\ retired' = retired \cup {<<Generation, p, finger[p]>> : p \in run.read}
    /\ school' = Requeued(SchoolsOf(run.read))
    /\ active' = SchoolsOf(run.read)
    /\ run' = [Idle EXCEPT !.pc = "discard", !.review = TRUE, !.only = SchoolsOf(run.read)]
    /\ UNCHANGED <<task, finger, attempts, access, found, cancelled, gui>>

BeginSupersedes ==
    /\ run.pc = "begin"
    /\ attempts < AttemptLimit
    /\ rows' = Changed(run.read, "review", {})
    /\ retired' = retired \cup
           {<<Generation, p, finger[p]>> : p \in run.read \cap Rowed("review")}
    /\ school' = Requeued(SchoolsOf(run.read))
    /\ active' = SchoolsOf(run.read)
    /\ run' = [Idle EXCEPT !.pc = "discard", !.review = TRUE, !.only = SchoolsOf(run.read)]
    /\ UNCHANGED <<task, finger, attempts, access, found, cancelled, gui>>

StartReopen(ps) ==
    /\ run.pc = "idle"
    /\ ps # {} /\ ps \subseteq Rowed("unresolved")
    /\ run' = [Idle EXCEPT !.pc = "reopen", !.read = ps]
    /\ UNCHANGED <<tables, found, cancelled, gui>>

\* The UPDATE finds the row by its id whatever has been decided since the read.
ReopenWrites ==
    /\ run.pc = "reopen"
    /\ rows' = [p \in People |->
           IF p \notin run.read THEN rows[p]
           ELSE IF "unresolved" \in rows[p] THEN rows[p] \ {"unresolved"}
           ELSE rows[p] \ {"accepted", "review"}]
    /\ school' = Requeued(SchoolsOf(run.read))
    /\ run' = [Idle EXCEPT !.pc = "discard", !.only = SchoolsOf(run.read)]
    /\ UNCHANGED <<task, finger, retired, attempts, active, access, found, cancelled, gui>>

-----------------------------------------------------------------------------
(* run_task                                                                *)

Discard ==
    /\ run.pc = "discard"
    /\ cancelled' = FALSE
    /\ Goto("recover")
    /\ UNCHANGED <<tables, found, gui>>

Recovered == [s \in Schools |-> IF school[s] = "active" THEN "failed" ELSE school[s]]

Recover ==
    /\ run.pc = "recover"
    /\ school' = Recovered
    /\ task' = IF task = "running" THEN "ready" ELSE task
    /\ Goto("check")
    /\ UNCHANGED <<rows, finger, retired, attempts, active, access, found, cancelled, gui>>

\* Where run_task goes when it returns: a review run goes on to close its generation.
\* Mutant: the unchanged reviews are not closed.
ReturnsUnclosed == IF run.review THEN run' = [Idle EXCEPT !.pc = "end", !.review = TRUE]
                   ELSE run' = Idle

Returns == IF run.review THEN run' = [Idle EXCEPT !.pc = "close", !.review = TRUE]
           ELSE run' = Idle

\* A cancelled task is left alone; without an API key the run ends in an error.
Check ==
    /\ run.pc = "check"
    /\ \/ task = "cancelled" /\ Returns
       \/ task # "cancelled" /\ Goto("launch")
       \/ task # "cancelled" /\ run' = Idle
    /\ UNCHANGED <<tables, found, cancelled, gui>>

\* Mutant of LaunchRun: school_ids is not looked at.
LaunchWholeTask ==
    /\ run.pc = "launch"
    /\ task' = "running"
    /\ run' = [run EXCEPT !.pc = "schools",
                          !.todo = {s \in Schools : school[s] \in {"pending", "failed"}}]
    /\ UNCHANGED <<school, rows, finger, retired, attempts, active, access, found, cancelled, gui>>

LaunchRun ==
    /\ run.pc = "launch"
    /\ task' = "running"
    /\ run' = [run EXCEPT !.pc = "schools",
                          !.todo = {s \in run.only : school[s] \in {"pending", "failed"}}]
    /\ UNCHANGED <<school, rows, finger, retired, attempts, active, access, found, cancelled, gui>>

\* The head of the loop, and what follows the loop: cancelled or done.
\* Mutant of LoopEnds: the check after the loop is missing.
LoopEndsUnchecked ==
    /\ run.pc = "schools"
    /\ \/ cancelled /\ run.todo # {} /\ Returns
       \/ run.todo = {} /\ Goto("complete")
    /\ UNCHANGED <<tables, found, cancelled, gui>>

LoopEnds ==
    /\ run.pc = "schools"
    /\ \/ cancelled /\ Returns
       \/ ~cancelled /\ run.todo = {} /\ Goto("complete")
    /\ UNCHANGED <<tables, found, cancelled, gui>>

Complete ==
    /\ run.pc = "complete"
    /\ task' = "completed"
    /\ Returns
    /\ UNCHANGED <<school, rows, finger, retired, attempts, active, access, found, cancelled, gui>>

\* An error outside the school's own try or in its handlers (a locked database)
\* ends the command.
RunFails ==
    /\ run.pc \in {"schools", "pages", "profiles", "links", "extract", "supersede", "enrich", "access"}
    /\ task' = "failed"
    /\ run' = Idle
    /\ found' = "none"
    /\ UNCHANGED <<school, rows, finger, retired, attempts, active, access, cancelled, gui>>

\* Schools of the list are taken in any order.
NextSchool(s) ==
    /\ run.pc = "schools"
    /\ ~cancelled
    /\ s \in run.todo

\* A school processed before, or (s settles in review) one without directory URL.
SkipSchool(s) ==
    /\ NextSchool(s)
    /\ \E st \in {"skipped_processed", "review"} : school' = [school EXCEPT ![s] = st]
    /\ run' = [run EXCEPT !.todo = @ \ {s}]
    /\ UNCHANGED <<task, rows, finger, retired, attempts, active, access, found, cancelled, gui>>

CrawlSchool(s) ==
    /\ NextSchool(s)
    /\ school' = [school EXCEPT ![s] = "active"]
    /\ run' = [run EXCEPT !.pc = "pages", !.todo = @ \ {s}, !.school = s]
    /\ UNCHANGED <<task, rows, finger, retired, attempts, active, access, found, cancelled, gui>>

-----------------------------------------------------------------------------
(* _run_school                                                             *)

Leave(pc) == run' = [run EXCEPT !.pc = pc, !.school = NoSchool, !.seeds = {},
                                !.left = {}, !.person = NoPerson]
Settle(status) == /\ school' = [school EXCEPT ![run.school] = status]
                  /\ Leave("schools")

\* The loops look before every page and every person whether to stop: the
\* school keeps its status.
SchoolCancelled ==
    /\ \/ run.pc \in {"pages", "links"}
       \/ run.pc \in {"profiles", "extract"} /\ run.left # {}
    /\ cancelled
    /\ Leave("schools")
    /\ UNCHANGED <<tables, found, cancelled, gui>>

\* What a page or a provider can raise, and the handlers of run_task.
SchoolFails ==
    /\ run.pc \in {"pages", "profiles", "links", "extract", "supersede", "enrich"}
    /\ run.pc \notin {"supersede", "enrich"} => ~cancelled
    /\ Settle("failed")
    /\ found' = "none"
    /\ UNCHANGED <<task, rows, finger, retired, attempts, active, access, cancelled, gui>>

SchoolBlocked ==
    /\ run.pc \in {"pages", "links"}
    /\ ~cancelled
    /\ \/ Settle("blocked_robots")
       \/ /\ school' = [school EXCEPT ![run.school] = "blocked_access"]
          /\ Goto("access")
    /\ UNCHANGED <<task, rows, finger, retired, attempts, active, access, found, cancelled, gui>>

ListAccess ==
    /\ run.pc = "access"
    /\ access' = access \cup {run.school}
    /\ Leave("schools")
    /\ UNCHANGED <<task, school, rows, finger, retired, attempts, active, found, cancelled, gui>>

\* The directory pages are read: the people found, if any.
PagesRead ==
    /\ run.pc = "pages"
    /\ ~cancelled
    /\ \E ps \in SUBSET PeopleOf(run.school) :
         IF ps = {} THEN Settle("review")
         ELSE /\ run' = [run EXCEPT !.pc = "profiles", !.seeds = ps, !.left = ps]
              /\ UNCHANGED school
    /\ UNCHANGED <<task, rows, finger, retired, attempts, active, access, found, cancelled, gui>>

NextProfile(p) ==
    /\ run.pc = "profiles"
    /\ ~cancelled
    /\ p \in run.left

\* No profile URL, a complete directory entry, a person already accepted, a
\* page that cannot be fetched or is not official.
SkipProfile(p) ==
    /\ NextProfile(p)
    /\ run' = [run EXCEPT !.left = @ \ {p}]
    /\ UNCHANGED <<tables, found, cancelled, gui>>

\* add_candidate of the display row "profile_pending_enrichment".
SaveProfile(p) ==
    /\ NextProfile(p)
    /\ p \in Linked
    /\ ~Clashes(p)
    /\ rows' = [rows EXCEPT ![p] = @ \cup {"candidate"}]
    /\ run' = [run EXCEPT !.left = @ \ {p}]
    /\ UNCHANGED <<task, school, finger, retired, attempts, active, access, found, cancelled, gui>>

\* The same, when the unique index refuses the row: the school fails.
ProfileClashes(p) ==
    /\ NextProfile(p)
    /\ p \in Linked
    /\ Clashes(p) /\ "accepted" \notin rows[p]
    /\ Settle("failed")
    /\ UNCHANGED <<task, rows, finger, retired, attempts, active, access, found, cancelled, gui>>

ProfilesEnd ==
    /\ run.pc = "profiles"
    /\ run.left = {}
    /\ Goto("links")
    /\ UNCHANGED <<tables, found, cancelled, gui>>

\* The linked units are read: more people may be found, and all are extracted.
LinksRead ==
    /\ run.pc = "links"
    /\ ~cancelled
    /\ \E ps \in SUBSET PeopleOf(run.school) :
         run' = [run EXCEPT !.pc = "extract", !.seeds = @ \cup ps, !.left = run.seeds \cup ps]
    /\ UNCHANGED <<tables, found, cancelled, gui>>

\* supersede_provisional_profile looks for the display row by the URL of the directory
\* (the row has the URL the page was finally served from), outside its transaction.
ExtractPerson(p) ==
    /\ run.pc = "extract"
    /\ ~cancelled
    /\ p \in run.left
    /\ found' = IF p \in Linked \ Redirected /\ "candidate" \in rows[p] THEN "candidate" ELSE "none"
    /\ run' = [run EXCEPT !.pc = IF found' = "none" THEN "enrich" ELSE "supersede",
                          !.left = @ \ {p}, !.person = p]
    /\ UNCHANGED <<tables, cancelled, gui>>

\* Its DELETE takes the row by the id, whatever has been decided since.
RetireProfile ==
    /\ run.pc = "supersede"
    /\ rows' = [rows EXCEPT ![run.person] = @ \ {found}]
    /\ found' = "none"
    /\ Goto("enrich")
    /\ UNCHANGED <<task, school, finger, retired, attempts, active, access, cancelled, gui>>

\* What becomes of the row found when the window gives a row of p another status.
Followed(p, from, to) ==
    found' = IF p = run.person /\ from = found
             THEN IF to = "rejected" THEN "none" ELSE to
             ELSE found

\* Mutant: the person is looked at again.
PersonAgain == run' = [run EXCEPT !.pc = "extract", !.left = @ \cup {run.person},
                                  !.person = NoPerson]

PersonDone == run' = [run EXCEPT !.pc = "extract", !.person = NoPerson]

\* The person has a row that is not rejected (has_accepted_candidate_name,
\* has_candidate_homepage, or duplicate_reasons, which rejects the new row), or
\* the page is rejected for itself: no row is added that counts.
NoNewRow ==
    /\ run.pc = "enrich"
    /\ PersonDone
    /\ UNCHANGED <<tables, found, cancelled, gui>>

\* _save_profile_fetch_review adds its row without looking for others.
SaveCandidate ==
    /\ run.pc = "enrich"
    /\ \/ /\ rows[run.person] = {}
          /\ rows' = [rows EXCEPT ![run.person] = {"accepted"}]
          /\ UNCHANGED finger
       \/ /\ rows[run.person] = {} \/ (run.person \in Redirected /\ ~Clashes(run.person))
          /\ rows' = [rows EXCEPT ![run.person] = @ \cup {"review"}]
          /\ \E f \in Fingerprints : finger' = [finger EXCEPT ![run.person] = f]
    /\ PersonDone
    /\ UNCHANGED <<task, school, retired, attempts, active, access, found, cancelled, gui>>

\* _provider_call: the reserve exceeds what is left of the budget.
BudgetPauses ==
    /\ run.pc = "enrich"
    /\ task' = "paused_budget"
    /\ Returns
    /\ UNCHANGED <<school, rows, finger, retired, attempts, active, access, found, cancelled, gui>>

SchoolEnds ==
    /\ run.pc = "extract"
    /\ run.left = {}
    /\ Settle(IF \E p \in PeopleOf(run.school) : "review" \in rows[p]
              THEN "review" ELSE "completed")
    /\ UNCHANGED <<task, rows, finger, retired, attempts, active, access, found, cancelled, gui>>

-----------------------------------------------------------------------------
(* The end of a review generation.                                         *)

Unchanged == {p \in Rowed("review") : <<Generation, p, finger[p]>> \in retired}

CloseReads ==
    /\ run.pc = "close"
    /\ run' = [run EXCEPT !.pc = "closing", !.read = Unchanged]
    /\ UNCHANGED <<tables, found, cancelled, gui>>

CloseWrites ==
    /\ run.pc = "closing"
    /\ rows' = Changed(run.read, "review", {"unresolved"})
    /\ run' = [run EXCEPT !.pc = "end", !.read = {}]
    /\ UNCHANGED <<task, school, finger, retired, attempts, active, access, found, cancelled, gui>>

CompleteGeneration ==
    /\ run.pc = "end"
    /\ attempts' = attempts + 1
    /\ active' = {}
    /\ run' = Idle
    /\ UNCHANGED <<task, school, rows, finger, retired, access, found, cancelled, gui>>

-----------------------------------------------------------------------------
(* The window and the command line, meanwhile.                             *)

\* The button looks at the status of the last refresh, cancel_task at none.
CancelFlags ==
    /\ "cancel" \in UserActs
    /\ gui.pc = "idle"
    /\ cancelled' = TRUE
    /\ gui' = [gui EXCEPT !.pc = "cancelling"]
    /\ UNCHANGED <<tables, found, run>>

CancelWrites ==
    /\ gui.pc = "cancelling"
    /\ task' = "cancelled"
    /\ gui' = IdleGui
    /\ UNCHANGED <<school, rows, finger, retired, attempts, active, access, found, cancelled, run>>

BudgetReads ==
    /\ "budget" \in UserActs
    /\ gui.pc = "idle"
    /\ gui' = [pc |-> "budget", status |-> task]
    /\ UNCHANGED <<tables, found, cancelled, run>>

\* set_budget writes back the status it read.
BudgetWrites ==
    /\ gui.pc = "budget"
    /\ task' = IF gui.status = "paused_budget" THEN "ready" ELSE gui.status
    /\ gui' = IdleGui
    /\ UNCHANGED <<school, rows, finger, retired, attempts, active, access, found, cancelled, run>>

\* decide_candidate, on a row of any status; the unique index may refuse.
Decide(p, from, to) ==
    /\ "decide" \in UserActs
    /\ gui.pc = "idle"
    /\ from \in rows[p]
    /\ to # "rejected" => (rows[p] \ {from}) \cap Indexed = {}
    /\ rows' = Changed({p}, from, {to} \ {"rejected"})
    /\ Followed(p, from, to)
    /\ UNCHANGED <<task, school, finger, retired, attempts, active, access, cancelled, gui, run>>

\* The same on a row of a list that still shows what a generation superseded.
DecideRetired(g, p, f, to) ==
    /\ "decide" \in UserActs
    /\ gui.pc = "idle"
    /\ <<g, p, f>> \in retired
    /\ to # "rejected" => ~Clashes(p)
    /\ rows' = [rows EXCEPT ![p] = @ \cup ({to} \ {"rejected"})]
    /\ finger' = IF to = "rejected" THEN finger ELSE [finger EXCEPT ![p] = f]
    /\ retired' = retired \ {<<g, p, f>>}
    /\ UNCHANGED <<task, school, attempts, active, access, found, cancelled, gui, run>>

ReprocessCandidate(p, from) ==
    /\ "reprocess" \in UserActs
    /\ gui.pc = "idle"
    /\ from \in rows[p]
    /\ rows' = Changed({p}, from, {})
    /\ school' = Requeued({SchoolOf[p]})
    /\ Followed(p, from, "rejected")
    /\ UNCHANGED <<task, finger, retired, attempts, active, access, cancelled, gui, run>>

ResolveAccess(s, retry) ==
    /\ "access" \in UserActs
    /\ gui.pc = "idle"
    /\ s \in access
    /\ access' = access \ {s}
    /\ school' = IF retry THEN Requeued({s}) ELSE school
    /\ UNCHANGED <<task, rows, finger, retired, attempts, active, found, cancelled, gui, run>>

\* The process ends, at any point; the tables and nothing else survive.
Crash ==
    /\ run # Idle \/ gui # IdleGui \/ cancelled
    /\ run' = Idle
    /\ found' = "none"
    /\ gui' = IdleGui
    /\ cancelled' = FALSE
    /\ UNCHANGED tables

\* recover_interrupted_tasks when the Qt window opens.
OpenWindow ==
    /\ run = Idle /\ gui = IdleGui
    /\ task = "running"
    /\ task' = "ready"
    /\ school' = Recovered
    /\ UNCHANGED <<rows, finger, retired, attempts, active, access, found, cancelled, gui, run>>

-----------------------------------------------------------------------------
Crawl ==
    \/ \E s \in Schools : SkipSchool(s) \/ CrawlSchool(s)
    \/ SchoolCancelled \/ SchoolFails \/ SchoolBlocked \/ ListAccess
    \/ PagesRead \/ ProfilesEnd \/ LinksRead
    \/ \E p \in People : SkipProfile(p) \/ SaveProfile(p) \/ ProfileClashes(p) \/ ExtractPerson(p)
    \/ RetireProfile \/ NoNewRow \/ SaveCandidate \/ BudgetPauses \/ SchoolEnds

RunStep ==
    \/ BeginGivesUp \/ BeginSupersedes \/ ReopenWrites
    \/ Discard \/ Recover \/ Check \/ LaunchRun \/ LoopEnds \/ Complete \/ RunFails
    \/ Crawl
    \/ CloseReads \/ CloseWrites \/ CompleteGeneration

Command == StartTask \/ StartReview \/ \E ps \in SUBSET People : StartReopen(ps)

UserStep ==
    \/ CancelFlags \/ CancelWrites \/ BudgetReads \/ BudgetWrites
    \/ \E p \in People, from \in RowStatus : ReprocessCandidate(p, from)
    \/ \E p \in People, from \in RowStatus, to \in {"accepted", "review", "rejected"} :
           Decide(p, from, to)
    \/ \E r \in retired, to \in {"accepted", "review", "rejected"} :
           DecideRetired(r[1], r[2], r[3], to)
    \/ \E s \in Schools, retry \in BOOLEAN : ResolveAccess(s, retry)

Next == RunStep \/ Command \/ UserStep \/ Crash \/ OpenWindow

Spec == Init /\ [][Next]_vars

\* Every fetch and every provider call has a timeout, every loop a limit.
FairSpec == Spec /\ WF_vars(RunStep)
-----------------------------------------------------------------------------
(* Properties.                                                              *)

\* No run and no review generation takes back what is accepted or given up,
\* although the rows it works on were read before the user decided on them.  Two
\* operations do, and are left out: reopen_unresolved does not look at the status again,
\* and supersede_provisional_profile deletes the very row it found, accepted or not.
DecidedIsKept ==
    [][run' # run /\ run.pc # "reopen" =>
          \A p \in People :
              rows[p] \cap {"accepted", "unresolved"}
                  \subseteq rows'[p] \cup (IF run.pc = "supersede" /\ p = run.person THEN {found} ELSE {})]_vars

\* A review generation, begun or taken up again after a crash, crawls only the
\* schools it recorded, whatever else is pending or failed by then.
ReviewRunStaysInScope ==
    run.review /\ run.school # NoSchool => run.school \in active

\* No more generations requeue schools than the limit allows, also when they
\* are interrupted and taken up again (begin_review_generation).
RetryLimit == attempts + (IF active # {} THEN 1 ELSE 0) <= AttemptLimit

\* A generation ends with no review row whose evidence is what it was when the
\* generation superseded it, wherever it was interrupted (close_unchanged_reviews).
UnchangedIsClosed ==
    [][attempts' # attempts =>
          \A p \in People : "review" \in rows[p] =>
                            <<attempts', p, finger[p]>> \notin retired]_vars

\* A completed task has no school half-way: each crawl of a finished run ended or
\* is put back by recover_interrupted_task first.
CompletedIsSettled == task = "completed" => \A s \in Schools : school[s] # "active"

\* Every command of the worker ends.
CommandEnds == run.pc # "idle" ~> run.pc = "idle"

=============================================================================
