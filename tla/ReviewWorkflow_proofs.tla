------------------------ MODULE ReviewWorkflow_proofs ------------------------
(***************************************************************************)
(* Safety of ReviewWorkflow for every set of schools, people and evidence, *)
(* every limit of generations and whatever the user does.                  *)
(*                                                                         *)
(* RetryLimit is not inductive: a generation is counted when it completes, *)
(* by a run that may have been interrupted and begun again in between, so  *)
(* the worker must know that the generation it completes is the running    *)
(* one (GenerationHolds), and that none runs when it begins one            *)
(* (BeginHolds).  ReviewRunStaysInScope rests on the list of schools the   *)
(* run was given (InScope).                                                *)
(*                                                                         *)
(* Two properties hold for some users only.  set_budget writes back the    *)
(* status it read, "completed" too, after a new run may have begun; without *)
(* it, only a cancelled run leaves a school half-way, it does not complete, *)
(* and the next one recovers the school first (Settled).                   *)
(* A decision can give an open row back to a person whose evidence was     *)
(* retired: without decisions, what is open between the two steps of       *)
(* close_unchanged_reviews was read by the first (ClosingHolds).           *)
(***************************************************************************)
EXTENDS ReviewWorkflow, TLAPS

\* Between its read and its write, begin_review_generation has rows and no
\* generation runs.
BeginHolds == run.pc = "begin" => active = {} /\ run.read # {}

\* A review run has a running generation until it has completed it.
GenerationHolds ==
    /\ run.review => active # {}
    /\ run.pc \in {"close", "closing", "end"} => run.review

\* From its first page to its end a crawl has its school.
BusyHolds ==
    run.pc \in {"pages", "profiles", "links", "extract", "supersede", "enrich", "access"} =>
        run.school # NoSchool

\* The run crawls schools of its list, a review run those of its generation.
InScope ==
    /\ run.todo \subseteq run.only
    /\ run.school # NoSchool => run.school \in run.only
    /\ run.review => run.only \subseteq active

Protocol == RetryLimit /\ BeginHolds /\ GenerationHolds /\ BusyHolds /\ InScope
IInv == TypeOK /\ Protocol

USE DEF TaskStatus, SchoolStatus, RowStatus, Indexed

-----------------------------------------------------------------------------
LEMMA InitIInv == Init => IInv
<1> SUFFICES ASSUME Init PROVE IInv
  OBVIOUS
<1>1. TypeOK
  BY ReviewAssumption DEF Init, TypeOK, RunState, Idle, IdleGui
<1>2. Protocol
  BY ReviewAssumption DEF Init, Protocol, RetryLimit, BeginHolds, GenerationHolds, BusyHolds, InScope, Idle
<1> QED
  BY <1>1, <1>2 DEF IInv

-----------------------------------------------------------------------------
(* What the ways on of the worker do to its state.                         *)

LEMMA IdleKeeps == IInv /\ run' = Idle /\ UNCHANGED <<attempts, active>> => run' \in RunState /\ Protocol'
BY DEF IInv, Idle, RunState, Protocol, RetryLimit, BeginHolds, GenerationHolds, BusyHolds, InScope

LEMMA ReturnsKeeps == IInv /\ Returns /\ UNCHANGED <<attempts, active>> => run' \in RunState /\ Protocol'
<1> SUFFICES ASSUME IInv, Returns, UNCHANGED <<attempts, active>> PROVE run' \in RunState /\ Protocol'
  OBVIOUS
<1>1. CASE ~run.review
  BY <1>1, IdleKeeps DEF Returns
<1>2. CASE run.review
  <2>1. run' = [Idle EXCEPT !.pc = "close", !.review = TRUE]
    BY <1>2 DEF Returns
  <2>2. /\ run' \in RunState
        /\ run'.pc = "close" /\ run'.review /\ run'.school = NoSchool
        /\ run'.todo = {} /\ run'.only = {}
    BY <2>1 DEF Idle, RunState
  <2>3. active # {}
    BY <1>2 DEF IInv, Protocol, GenerationHolds
  <2> QED
    BY <2>2, <2>3 DEF IInv, Protocol, RetryLimit, BeginHolds, GenerationHolds, BusyHolds, InScope
<1> QED
  BY <1>1, <1>2

LEMMA GotoKeeps ==
    ASSUME IInv, UNCHANGED <<attempts, active>>,
           NEW pc \in {"recover", "check", "launch", "links", "access", "complete"}, Goto(pc),
           pc \in {"links", "access"} => run.school # NoSchool
    PROVE  run' \in RunState /\ Protocol'
<1>1. /\ run' \in RunState
      /\ run'.pc = pc /\ run'.review = run.review /\ run'.school = run.school
      /\ run'.todo = run.todo /\ run'.only = run.only
  BY DEF Goto, IInv, TypeOK, RunState
<1> QED
  BY <1>1 DEF IInv, Protocol, RetryLimit, BeginHolds, GenerationHolds, BusyHolds, InScope

LEMMA LeaveKeeps ==
    IInv /\ Leave("schools") /\ UNCHANGED <<attempts, active>> => run' \in RunState /\ Protocol'
<1> SUFFICES ASSUME IInv, Leave("schools"), UNCHANGED <<attempts, active>>
             PROVE  run' \in RunState /\ Protocol'
  OBVIOUS
<1>1. /\ run' \in RunState
      /\ run'.pc = "schools" /\ run'.review = run.review /\ run'.school = NoSchool
      /\ run'.todo = run.todo /\ run'.only = run.only
  BY DEF Leave, IInv, TypeOK, RunState
<1> QED
  BY <1>1 DEF IInv, Protocol, RetryLimit, BeginHolds, GenerationHolds, BusyHolds, InScope

\* The commands of the worker start.
LEMMA CommandKeepsIInv == IInv /\ (Command) => IInv'
<1> SUFFICES ASSUME IInv, Command PROVE IInv'
  OBVIOUS
<1> USE ReviewAssumption DEF IInv
<1>1. CASE StartTask
  <2>1. TypeOK'
    <3>1. run' \in RunState
      BY <1>1 DEF StartTask, Idle, TypeOK, RunState
    <3> QED
      BY <1>1, <3>1 DEF StartTask, TypeOK, tables
  <2>2. Protocol'
    BY <1>1 DEF StartTask, Idle, Protocol, RetryLimit, BeginHolds, GenerationHolds, BusyHolds, InScope, TypeOK, RunState, tables
  <2> QED
    BY <2>1, <2>2
<1>2. CASE StartReview
  <2>1. Rowed("review") \in SUBSET People /\ active \in SUBSET Schools
    BY DEF Rowed, TypeOK
  <2>2. CASE active # {} /\ run' = [Idle EXCEPT !.pc = "discard", !.review = TRUE, !.only = active]
    <3>1. /\ run' \in RunState
          /\ run'.pc = "discard" /\ run'.school = NoSchool /\ run'.todo = {} /\ run'.only = active
      BY <2>1, <2>2 DEF Idle, RunState
    <3>2. TypeOK'
      BY <1>2, <3>1 DEF StartReview, TypeOK, tables
    <3>3. Protocol'
      BY <1>2, <2>2, <3>1 DEF StartReview, tables, Protocol, RetryLimit, BeginHolds, GenerationHolds, BusyHolds, InScope
    <3> QED
      BY <3>2, <3>3
  <2>3. CASE /\ active = {} /\ Rowed("review") # {}
             /\ run' = [Idle EXCEPT !.pc = "begin", !.read = Rowed("review")]
    <3>1. /\ run' \in RunState
          /\ run'.pc = "begin" /\ run'.school = NoSchool /\ run'.todo = {} /\ run'.only = {}
          /\ ~run'.review /\ run'.read = Rowed("review")
      BY <2>1, <2>3 DEF Idle, RunState
    <3>2. TypeOK'
      BY <1>2, <3>1 DEF StartReview, TypeOK, tables
    <3>3. Protocol'
      BY <1>2, <2>3, <3>1 DEF StartReview, tables, Protocol, RetryLimit, BeginHolds, GenerationHolds, BusyHolds, InScope
    <3> QED
      BY <3>2, <3>3
  <2> QED
    BY <1>2, <2>2, <2>3 DEF StartReview
<1>3. ASSUME NEW ps \in SUBSET People, StartReopen(ps) PROVE IInv'
  <2>1. ps \in SUBSET People
    BY <1>3 DEF Rowed
  <2>2. /\ run' \in RunState
        /\ run'.pc = "reopen" /\ run'.school = NoSchool /\ run'.todo = {} /\ run'.only = {}
        /\ ~run'.review
    BY <1>3, <2>1 DEF StartReopen, Idle, RunState
  <2>3. TypeOK'
    BY <1>3, <2>2 DEF StartReopen, TypeOK, tables
  <2>4. Protocol'
    BY <1>3, <2>2 DEF StartReopen, tables, Protocol, RetryLimit, BeginHolds, GenerationHolds, BusyHolds, InScope
  <2> QED
    BY <2>3, <2>4
<1> QED
  BY <1>1, <1>2, <1>3 DEF Command

\* The writes of begin_review_generation and reopen_unresolved.
LEMMA BeginKeepsIInv == IInv /\ (BeginGivesUp \/ BeginSupersedes \/ ReopenWrites) => IInv'
<1> SUFFICES ASSUME IInv, BeginGivesUp \/ BeginSupersedes \/ ReopenWrites PROVE IInv'
  OBVIOUS
<1> USE ReviewAssumption DEF IInv
<1>1. CASE BeginGivesUp
  <2>1. TypeOK'
    BY <1>1 DEF BeginGivesUp, Idle, Changed, TypeOK, RunState, tables
  <2>2. Protocol'
    BY <1>1 DEF BeginGivesUp, Idle, Changed, Protocol, RetryLimit, BeginHolds, GenerationHolds, BusyHolds, InScope, TypeOK, RunState, tables
  <2> QED
    BY <2>1, <2>2
<1>2. CASE BeginSupersedes
  <2> DEFINE S == SchoolsOf(run.read)
  <2>1. run.read \in SUBSET People /\ run.read # {} /\ active = {}
    BY <1>2 DEF BeginSupersedes, TypeOK, RunState, Protocol, BeginHolds
  <2>2. S \in SUBSET Schools /\ S # {}
    BY <2>1 DEF SchoolsOf
  <2> HIDE DEF S
  <2>3. /\ active' = S /\ attempts' = attempts
        /\ run' = [Idle EXCEPT !.pc = "discard", !.review = TRUE, !.only = S]
    BY <1>2 DEF BeginSupersedes, S
  <2>4. /\ run' \in RunState
        /\ run'.pc = "discard" /\ run'.school = NoSchool /\ run'.todo = {} /\ run'.only = S
    BY <2>2, <2>3 DEF Idle, RunState
  <2>5. retired' \in SUBSET (Nat \X People \X Fingerprints)
    BY <1>2, <2>1 DEF BeginSupersedes, TypeOK, Generation
  <2>6. rows' \in [People -> SUBSET RowStatus] /\ \A p \in People : rows'[p] \subseteq rows[p]
    BY <1>2 DEF BeginSupersedes, Changed, TypeOK
  <2>7. school' \in [Schools -> SchoolStatus]
    BY <1>2 DEF BeginSupersedes, Requeued, TypeOK
  <2>8. TypeOK'
    BY <1>2, <2>2, <2>3, <2>4, <2>5, <2>6, <2>7 DEF BeginSupersedes, TypeOK
  <2>9. Protocol'
    BY <1>2, <2>1, <2>2, <2>3, <2>4 DEF BeginSupersedes, TypeOK, Protocol, RetryLimit, BeginHolds, GenerationHolds, BusyHolds, InScope
  <2> QED
    BY <2>8, <2>9
<1>3. CASE ReopenWrites
  <2> DEFINE S == SchoolsOf(run.read)
  <2>1. S \in SUBSET Schools
    BY DEF SchoolsOf, TypeOK, RunState
  <2> HIDE DEF S
  <2>2. run' = [Idle EXCEPT !.pc = "discard", !.only = S]
    BY <1>3 DEF ReopenWrites, S
  <2>3. /\ run' \in RunState
        /\ run'.pc = "discard" /\ run'.school = NoSchool /\ run'.todo = {} /\ ~run'.review
    BY <2>1, <2>2 DEF Idle, RunState
  <2>4. rows' \in [People -> SUBSET RowStatus] /\ \A p \in People : rows'[p] \subseteq rows[p]
    BY <1>3 DEF ReopenWrites, TypeOK
  <2>5. school' \in [Schools -> SchoolStatus]
    BY <1>3 DEF ReopenWrites, Requeued, TypeOK
  <2>6. TypeOK'
    BY <1>3, <2>3, <2>4, <2>5 DEF ReopenWrites, TypeOK
  <2>7. Protocol'
    BY <1>3, <2>3 DEF ReopenWrites, Protocol, RetryLimit, BeginHolds, GenerationHolds, BusyHolds, InScope
  <2> QED
    BY <2>6, <2>7
<1> QED
  BY <1>1, <1>2, <1>3

\* run_task around its schools.
LEMMA RunKeepsIInv == IInv /\ (Discard \/ Recover \/ Check \/ LaunchRun \/ LoopEnds \/ Complete \/ RunFails) => IInv'
<1> SUFFICES ASSUME IInv, Discard \/ Recover \/ Check \/ LaunchRun \/ LoopEnds \/ Complete \/ RunFails PROVE IInv'
  OBVIOUS
<1> USE ReviewAssumption DEF IInv
<1>1. CASE Discard
  <2>1. TypeOK'
    BY <1>1, ZenonT(60) DEF Discard, Goto, TypeOK, RunState, tables
  <2>2. Protocol'
    BY <1>1 DEF Discard, Goto, Protocol, RetryLimit, BeginHolds, GenerationHolds, BusyHolds, InScope, TypeOK, RunState, tables
  <2> QED
    BY <2>1, <2>2
<1>2. CASE Recover
  <2>1. TypeOK'
    BY <1>2 DEF Recover, Goto, Recovered, TypeOK, RunState, tables
  <2>2. Protocol'
    BY <1>2 DEF Recover, Goto, Recovered, Protocol, RetryLimit, BeginHolds, GenerationHolds, BusyHolds, InScope, TypeOK, RunState, tables
  <2> QED
    BY <2>1, <2>2
<1>3. CASE Check
  <2>1. ASSUME Returns
        PROVE  run' \in RunState /\ Protocol'
    BY <1>3, <2>1, ReturnsKeeps DEF Check, tables
  <2>2. ASSUME Goto("launch")
        PROVE  run' \in RunState /\ Protocol'
    BY <1>3, <2>2, GotoKeeps DEF Check, tables
  <2>3. ASSUME run' = Idle
        PROVE  run' \in RunState /\ Protocol'
    BY <1>3, <2>3, IdleKeeps DEF Check, tables
  <2>4. run' \in RunState /\ Protocol'
    BY <1>3, <2>1, <2>2, <2>3 DEF Check
  <2>5. TypeOK'
    BY <1>3, <2>4 DEF Check, TypeOK, tables
  <2> QED
    BY <2>4, <2>5
<1>4. CASE LaunchRun
  <2>1. TypeOK'
    BY <1>4, ZenonT(60) DEF LaunchRun, TypeOK, RunState, tables
  <2>2. Protocol'
    BY <1>4 DEF LaunchRun, Protocol, RetryLimit, BeginHolds, GenerationHolds, BusyHolds, InScope, TypeOK, RunState, tables
  <2> QED
    BY <2>1, <2>2
<1>5. CASE LoopEnds
  <2>1. ASSUME Returns
        PROVE  run' \in RunState /\ Protocol'
    BY <1>5, <2>1, ReturnsKeeps DEF LoopEnds, tables
  <2>2. ASSUME Goto("complete")
        PROVE  run' \in RunState /\ Protocol'
    BY <1>5, <2>2, GotoKeeps DEF LoopEnds, tables
  <2>3. run' \in RunState /\ Protocol'
    BY <1>5, <2>1, <2>2 DEF LoopEnds
  <2>4. TypeOK'
    BY <1>5, <2>3 DEF LoopEnds, TypeOK, tables
  <2> QED
    BY <2>3, <2>4
<1>6. CASE Complete
  <2>1. run' \in RunState /\ Protocol'
    BY <1>6, ReturnsKeeps DEF Complete, tables
  <2>2. TypeOK'
    BY <1>6, <2>1 DEF Complete, TypeOK, tables
  <2> QED
    BY <2>1, <2>2
<1>7. CASE RunFails
  <2>1. TypeOK'
    BY <1>7 DEF RunFails, Idle, TypeOK, RunState, tables
  <2>2. Protocol'
    BY <1>7 DEF RunFails, Idle, Protocol, RetryLimit, BeginHolds, GenerationHolds, BusyHolds, InScope, TypeOK, RunState, tables
  <2> QED
    BY <2>1, <2>2
<1> QED
  BY <1>1, <1>2, <1>3, <1>4, <1>5, <1>6, <1>7

\* _run_school and the handlers around it.
LEMMA CrawlKeepsIInv == IInv /\ (Crawl) => IInv'
<1> SUFFICES ASSUME IInv, Crawl PROVE IInv'
  OBVIOUS
<1> USE ReviewAssumption DEF IInv
<1>1. ASSUME NEW s \in Schools, SkipSchool(s) PROVE IInv'
  <2>1. TypeOK'
    BY <1>1 DEF SkipSchool, NextSchool, TypeOK, RunState, tables
  <2>2. Protocol'
    BY <1>1 DEF SkipSchool, NextSchool, Protocol, RetryLimit, BeginHolds, GenerationHolds, BusyHolds, InScope, TypeOK, RunState, tables
  <2> QED
    BY <2>1, <2>2
<1>2. ASSUME NEW s \in Schools, CrawlSchool(s) PROVE IInv'
  <2>1. TypeOK'
    BY <1>2, ZenonT(60) DEF CrawlSchool, NextSchool, TypeOK, RunState, tables
  <2>2. Protocol'
    BY <1>2 DEF CrawlSchool, NextSchool, Protocol, RetryLimit, BeginHolds, GenerationHolds, BusyHolds, InScope, TypeOK, RunState, tables
  <2> QED
    BY <2>1, <2>2
<1>3. CASE SchoolCancelled
  <2>1. run' \in RunState /\ Protocol'
    BY <1>3, LeaveKeeps DEF SchoolCancelled, tables
  <2>2. TypeOK'
    BY <1>3, <2>1 DEF SchoolCancelled, TypeOK, tables
  <2> QED
    BY <2>1, <2>2
<1>4. CASE SchoolFails
  <2>1. run' \in RunState /\ Protocol'
    BY <1>4, LeaveKeeps DEF SchoolFails, Settle, tables
  <2>2. TypeOK'
    BY <1>4, <2>1 DEF SchoolFails, Settle, TypeOK, tables
  <2> QED
    BY <2>1, <2>2
<1>5. CASE SchoolBlocked
  <2>1. ASSUME Settle("blocked_robots")
        PROVE  run' \in RunState /\ Protocol'
    BY <1>5, <2>1, LeaveKeeps DEF SchoolBlocked, Settle, tables
  <2>2. ASSUME Goto("access")
        PROVE  run' \in RunState /\ Protocol'
    BY <1>5, <2>2, GotoKeeps DEF SchoolBlocked, IInv, Protocol, BusyHolds, tables
  <2>3. run' \in RunState /\ Protocol'
    BY <1>5, <2>1, <2>2 DEF SchoolBlocked
  <2>4. TypeOK'
    BY <1>5, <2>3 DEF SchoolBlocked, Settle, TypeOK, tables
  <2> QED
    BY <2>3, <2>4
<1>6. CASE ListAccess
  <2>1. run' \in RunState /\ Protocol'
    BY <1>6, LeaveKeeps DEF ListAccess
  <2>2. access' \in SUBSET Schools
    <3>1. run.school \in Schools
      BY <1>6 DEF ListAccess, TypeOK, RunState, Protocol, BusyHolds
    <3> QED
      BY <1>6, <3>1 DEF ListAccess, TypeOK
  <2>3. TypeOK'
    BY <1>6, <2>1, <2>2 DEF ListAccess, TypeOK
  <2> QED
    BY <2>1, <2>3
<1>7. CASE PagesRead
  <2>1. PICK ps \in SUBSET PeopleOf(run.school) :
            IF ps = {} THEN Settle("review")
            ELSE /\ run' = [run EXCEPT !.pc = "profiles", !.seeds = ps, !.left = ps]
                 /\ UNCHANGED school
    BY <1>7 DEF PagesRead
  <2>2. ps \in SUBSET People
    BY DEF PeopleOf
  <2>3. CASE ps = {}
    <3>1. run' \in RunState /\ Protocol'
      BY <1>7, <2>1, <2>3, LeaveKeeps DEF PagesRead, Settle
    <3>2. TypeOK'
      BY <1>7, <2>1, <2>3, <3>1 DEF PagesRead, Settle, TypeOK
    <3> QED
      BY <3>1, <3>2
  <2>4. CASE ps # {}
    <3>1. /\ run' \in RunState
          /\ run'.pc = "profiles" /\ run'.review = run.review /\ run'.school = run.school
          /\ run'.todo = run.todo /\ run'.only = run.only
      <4>1. run' = [run EXCEPT !.pc = "profiles", !.seeds = ps, !.left = ps]
        BY <2>1, <2>4
      <4> QED
        BY <4>1, <2>2 DEF TypeOK, RunState
    <3>2. TypeOK'
      BY <1>7, <2>1, <2>4, <3>1 DEF PagesRead, TypeOK
    <3>3. Protocol'
      BY <1>7, <3>1 DEF PagesRead, Protocol, RetryLimit, BeginHolds, GenerationHolds, BusyHolds, InScope
    <3> QED
      BY <3>2, <3>3
  <2> QED
    BY <2>3, <2>4
<1>8. CASE ProfilesEnd
  <2>1. TypeOK'
    BY <1>8 DEF ProfilesEnd, Goto, TypeOK, RunState, tables
  <2>2. Protocol'
    BY <1>8 DEF ProfilesEnd, Goto, Protocol, RetryLimit, BeginHolds, GenerationHolds, BusyHolds, InScope, TypeOK, RunState, tables
  <2> QED
    BY <2>1, <2>2
<1>9. CASE LinksRead
  <2>1. PICK ps \in SUBSET PeopleOf(run.school) :
            run' = [run EXCEPT !.pc = "extract", !.seeds = @ \cup ps, !.left = run.seeds \cup ps]
    BY <1>9 DEF LinksRead
  <2>2. ps \in SUBSET People
    BY DEF PeopleOf
  <2>3. run.seeds \cup ps \in SUBSET People
    BY <2>2 DEF TypeOK, RunState
  <2>4. /\ run' \in RunState
        /\ run'.pc = "extract" /\ run'.review = run.review /\ run'.school = run.school
        /\ run'.todo = run.todo /\ run'.only = run.only
    BY <2>1, <2>3 DEF TypeOK, RunState
  <2>5. TypeOK'
    BY <1>9, <2>4 DEF LinksRead, TypeOK, tables
  <2>6. Protocol'
    BY <1>9, <2>4 DEF LinksRead, tables, Protocol, RetryLimit, BeginHolds, GenerationHolds, BusyHolds, InScope
  <2> QED
    BY <2>5, <2>6
<1>10. ASSUME NEW p \in People, SkipProfile(p) PROVE IInv'
  <2>1. TypeOK'
    BY <1>10 DEF SkipProfile, NextProfile, TypeOK, RunState, tables
  <2>2. Protocol'
    BY <1>10 DEF SkipProfile, NextProfile, Protocol, RetryLimit, BeginHolds, GenerationHolds, BusyHolds, InScope, TypeOK, RunState, tables
  <2> QED
    BY <2>1, <2>2
<1>11. ASSUME NEW p \in People, SaveProfile(p) PROVE IInv'
  <2>1. TypeOK'
    BY <1>11 DEF SaveProfile, NextProfile, Clashes, TypeOK, RunState, tables
  <2>2. Protocol'
    BY <1>11 DEF SaveProfile, NextProfile, Clashes, Protocol, RetryLimit, BeginHolds, GenerationHolds, BusyHolds, InScope, TypeOK, RunState, tables
  <2> QED
    BY <2>1, <2>2
<1>12. ASSUME NEW p \in People, ProfileClashes(p) PROVE IInv'
  <2>1. run' \in RunState /\ Protocol'
    BY <1>12, LeaveKeeps DEF ProfileClashes, Settle, tables
  <2>2. TypeOK'
    BY <1>12, <2>1 DEF ProfileClashes, Settle, TypeOK, tables
  <2> QED
    BY <2>1, <2>2
<1>13. ASSUME NEW p \in People, ExtractPerson(p) PROVE IInv'
  <2>1. TypeOK'
    <3>1. run' \in RunState /\ found' \in Indexed \cup {"none"}
      BY <1>13 DEF ExtractPerson, TypeOK, RunState
    <3> QED
      BY <1>13, <3>1 DEF ExtractPerson, TypeOK, tables
  <2>2. Protocol'
    BY <1>13 DEF ExtractPerson, Protocol, RetryLimit, BeginHolds, GenerationHolds, BusyHolds, InScope, TypeOK, RunState, tables
  <2> QED
    BY <2>1, <2>2
<1>14. CASE NoNewRow
  <2>1. TypeOK'
    <3>1. run' \in RunState
      BY <1>14 DEF NoNewRow, PersonDone, TypeOK, RunState
    <3> QED
      BY <1>14, <3>1 DEF NoNewRow, TypeOK, tables
  <2>2. Protocol'
    BY <1>14 DEF NoNewRow, PersonDone, Protocol, RetryLimit, BeginHolds, GenerationHolds, BusyHolds, InScope, TypeOK, RunState, tables
  <2> QED
    BY <2>1, <2>2
<1>15. CASE SaveCandidate
  <2>1. /\ run' \in RunState
        /\ run'.pc = "extract" /\ run'.review = run.review /\ run'.school = run.school
        /\ run'.todo = run.todo /\ run'.only = run.only
    BY <1>15 DEF SaveCandidate, PersonDone, TypeOK, RunState
  <2>2. /\ rows' \in [People -> SUBSET RowStatus]
        /\ \A p \in People : \A a, b \in rows'[p] \cap Indexed : a = b
    <3>1. CASE rows' = [rows EXCEPT ![run.person] = {"accepted"}]
      <4>1. \A p \in People : rows'[p] \in {rows[p], {"accepted"}}
        BY <3>1 DEF TypeOK
      <4>2. rows' \in [People -> SUBSET RowStatus]
        BY <3>1 DEF TypeOK
      <4> QED
        BY <4>1, <4>2 DEF TypeOK
    <3>2. CASE /\ rows' = [rows EXCEPT ![run.person] = @ \cup {"review"}]
               /\ rows[run.person] = {} \/ ~Clashes(run.person)
      <4>1. \A p \in People :
                \/ rows'[p] = rows[p]
                \/ rows'[p] = rows[p] \cup {"review"} /\ rows[p] \cap Indexed = {}
        BY <3>2 DEF TypeOK, Clashes
      <4>2. rows' \in [People -> SUBSET RowStatus]
        BY <3>2 DEF TypeOK
      <4> QED
        BY <4>1, <4>2 DEF TypeOK
    <3> QED
      BY <1>15, <3>1, <3>2 DEF SaveCandidate
  <2>3. finger' \in [People -> Fingerprints]
    BY <1>15 DEF SaveCandidate, TypeOK
  <2>4. TypeOK'
    BY <1>15, <2>1, <2>2, <2>3 DEF SaveCandidate, TypeOK
  <2>5. Protocol'
    BY <1>15, <2>1 DEF SaveCandidate, Protocol, RetryLimit, BeginHolds, GenerationHolds, BusyHolds, InScope
  <2> QED
    BY <2>4, <2>5
<1>16. CASE BudgetPauses
  <2>1. run' \in RunState /\ Protocol'
    BY <1>16, ReturnsKeeps DEF BudgetPauses, tables
  <2>2. TypeOK'
    BY <1>16, <2>1 DEF BudgetPauses, TypeOK, tables
  <2> QED
    BY <2>1, <2>2
<1>17. CASE SchoolEnds
  <2>1. run' \in RunState /\ Protocol'
    BY <1>17, LeaveKeeps DEF SchoolEnds, Settle, tables
  <2>2. TypeOK'
    BY <1>17, <2>1, ZenonT(60) DEF SchoolEnds, Settle, TypeOK, tables
  <2> QED
    BY <2>1, <2>2
<1>18. CASE RetireProfile
  <2>1. TypeOK'
    <3>1. run' \in RunState
      BY <1>18 DEF RetireProfile, Goto, TypeOK, RunState
    <3>2. rows' \in [People -> SUBSET RowStatus] /\ \A p \in People : rows'[p] \subseteq rows[p]
      BY <1>18 DEF RetireProfile, TypeOK
    <3> QED
      BY <1>18, <3>1, <3>2 DEF RetireProfile, TypeOK
  <2>2. Protocol'
    BY <1>18 DEF RetireProfile, Goto, Protocol, RetryLimit, BeginHolds, GenerationHolds, BusyHolds, InScope, TypeOK, RunState
  <2> QED
    BY <2>1, <2>2
<1> QED
  BY <1>1, <1>2, <1>3, <1>4, <1>5, <1>6, <1>7, <1>8, <1>9, <1>10, <1>11, <1>12, <1>13, <1>14, <1>15, <1>16, <1>17,
     <1>18 DEF Crawl

\* The end of a review generation.
LEMMA CloseKeepsIInv == IInv /\ (CloseReads \/ CloseWrites \/ CompleteGeneration) => IInv'
<1> SUFFICES ASSUME IInv, CloseReads \/ CloseWrites \/ CompleteGeneration PROVE IInv'
  OBVIOUS
<1> USE ReviewAssumption DEF IInv
<1>1. CASE CloseReads
  <2>1. TypeOK'
    <3>1. run' \in RunState
      BY <1>1 DEF CloseReads, Unchanged, Rowed, TypeOK, RunState
    <3> QED
      BY <1>1, <3>1 DEF CloseReads, TypeOK, tables
  <2>2. Protocol'
    BY <1>1 DEF CloseReads, Unchanged, Rowed, Protocol, RetryLimit, BeginHolds, GenerationHolds, BusyHolds, InScope, TypeOK, RunState, tables
  <2> QED
    BY <2>1, <2>2
<1>2. CASE CloseWrites
  <2>1. TypeOK'
    BY <1>2, ZenonT(60) DEF CloseWrites, Changed, TypeOK, RunState, tables
  <2>2. Protocol'
    BY <1>2 DEF CloseWrites, Changed, Protocol, RetryLimit, BeginHolds, GenerationHolds, BusyHolds, InScope, TypeOK, RunState, tables
  <2> QED
    BY <2>1, <2>2
<1>3. CASE CompleteGeneration
  <2>1. TypeOK'
    BY <1>3 DEF CompleteGeneration, Idle, TypeOK, RunState, tables
  <2>2. Protocol'
    BY <1>3 DEF CompleteGeneration, Idle, Protocol, RetryLimit, BeginHolds, GenerationHolds, BusyHolds, InScope, TypeOK, RunState, tables
  <2> QED
    BY <2>1, <2>2
<1> QED
  BY <1>1, <1>2, <1>3

\* The window and the command line.
LEMMA UserKeepsIInv == IInv /\ (UserStep) => IInv'
<1> SUFFICES ASSUME IInv, UserStep PROVE IInv'
  OBVIOUS
<1> USE ReviewAssumption DEF IInv
<1>1. CASE CancelFlags
  <2>1. TypeOK'
    BY <1>1 DEF CancelFlags, TypeOK, RunState, tables
  <2>2. Protocol'
    BY <1>1 DEF CancelFlags, Protocol, RetryLimit, BeginHolds, GenerationHolds, BusyHolds, InScope, TypeOK, RunState, tables
  <2> QED
    BY <2>1, <2>2
<1>2. CASE CancelWrites
  <2>1. TypeOK'
    BY <1>2 DEF CancelWrites, IdleGui, TypeOK, RunState, tables
  <2>2. Protocol'
    BY <1>2 DEF CancelWrites, IdleGui, Protocol, RetryLimit, BeginHolds, GenerationHolds, BusyHolds, InScope, TypeOK, RunState, tables
  <2> QED
    BY <2>1, <2>2
<1>3. CASE BudgetReads
  <2>1. TypeOK'
    BY <1>3 DEF BudgetReads, TypeOK, RunState, tables
  <2>2. Protocol'
    BY <1>3 DEF BudgetReads, Protocol, RetryLimit, BeginHolds, GenerationHolds, BusyHolds, InScope, TypeOK, RunState, tables
  <2> QED
    BY <2>1, <2>2
<1>4. CASE BudgetWrites
  <2>1. TypeOK'
    BY <1>4 DEF BudgetWrites, IdleGui, TypeOK, RunState, tables
  <2>2. Protocol'
    BY <1>4 DEF BudgetWrites, IdleGui, Protocol, RetryLimit, BeginHolds, GenerationHolds, BusyHolds, InScope, TypeOK, RunState, tables
  <2> QED
    BY <2>1, <2>2
<1>5. ASSUME NEW p \in People, NEW from \in RowStatus, ReprocessCandidate(p, from) PROVE IInv'
  <2>1. TypeOK'
    BY <1>5 DEF ReprocessCandidate, Followed, Changed, Requeued, TypeOK, RunState, tables
  <2>2. Protocol'
    BY <1>5 DEF ReprocessCandidate, Changed, Requeued, Protocol, RetryLimit, BeginHolds, GenerationHolds, BusyHolds, InScope, TypeOK, RunState, tables
  <2> QED
    BY <2>1, <2>2
<1>6. ASSUME NEW p \in People, NEW from \in RowStatus, NEW to \in {"accepted", "review", "rejected"}, Decide(p, from, to) PROVE IInv'
  <2>1. TypeOK'
    BY <1>6 DEF Decide, Followed, Changed, TypeOK, RunState, tables
  <2>2. Protocol'
    BY <1>6 DEF Decide, Changed, Protocol, RetryLimit, BeginHolds, GenerationHolds, BusyHolds, InScope, TypeOK, RunState, tables
  <2> QED
    BY <2>1, <2>2
<1>7. ASSUME NEW r \in retired, NEW to \in {"accepted", "review", "rejected"}, DecideRetired(r[1], r[2], r[3], to) PROVE IInv'
  <2>1. TypeOK'
    BY <1>7 DEF DecideRetired, Clashes, TypeOK, RunState, tables
  <2>2. Protocol'
    BY <1>7 DEF DecideRetired, Clashes, Protocol, RetryLimit, BeginHolds, GenerationHolds, BusyHolds, InScope, TypeOK, RunState, tables
  <2> QED
    BY <2>1, <2>2
<1>8. ASSUME NEW s \in Schools, NEW retry \in BOOLEAN, ResolveAccess(s, retry) PROVE IInv'
  <2>1. TypeOK'
    BY <1>8 DEF ResolveAccess, Requeued, TypeOK, RunState, tables
  <2>2. Protocol'
    BY <1>8 DEF ResolveAccess, Requeued, Protocol, RetryLimit, BeginHolds, GenerationHolds, BusyHolds, InScope, TypeOK, RunState, tables
  <2> QED
    BY <2>1, <2>2
<1> QED
  BY <1>1, <1>2, <1>3, <1>4, <1>5, <1>6, <1>7, <1>8 DEF UserStep

\* The process ends and starts again.
LEMMA RestartKeepsIInv == IInv /\ (Crash \/ OpenWindow) => IInv'
<1> SUFFICES ASSUME IInv, Crash \/ OpenWindow PROVE IInv'
  OBVIOUS
<1> USE ReviewAssumption DEF IInv
<1>1. CASE Crash
  <2>1. TypeOK'
    BY <1>1, ZenonT(60) DEF Crash, Idle, IdleGui, TypeOK, RunState, tables
  <2>2. Protocol'
    BY <1>1 DEF Crash, Idle, IdleGui, Protocol, RetryLimit, BeginHolds, GenerationHolds, BusyHolds, InScope, TypeOK, RunState, tables
  <2> QED
    BY <2>1, <2>2
<1>2. CASE OpenWindow
  <2>1. TypeOK'
    BY <1>2 DEF OpenWindow, Recovered, TypeOK, RunState, tables
  <2>2. Protocol'
    BY <1>2 DEF OpenWindow, Recovered, Protocol, RetryLimit, BeginHolds, GenerationHolds, BusyHolds, InScope, TypeOK, RunState, tables
  <2> QED
    BY <2>1, <2>2
<1> QED
  BY <1>1, <1>2

LEMMA StutterKeepsIInv == IInv /\ UNCHANGED vars => IInv'
BY DEF IInv, TypeOK, Protocol, RetryLimit, BeginHolds, GenerationHolds, BusyHolds, InScope, vars, tables

-----------------------------------------------------------------------------
\* The strengthened invariant holds in every reachable state, whatever fails,
\* wherever the process ends and whatever the user does meanwhile.
THEOREM ReviewInvariant == Spec => []IInv
<1>1. IInv /\ [Next]_vars => IInv'
  BY CommandKeepsIInv, BeginKeepsIInv, RunKeepsIInv, CrawlKeepsIInv, CloseKeepsIInv,
     UserKeepsIInv, RestartKeepsIInv, StutterKeepsIInv DEF Next, RunStep
<1> QED
  BY InitIInv, <1>1, PTL DEF Spec

\* Every variable keeps its type, and no two rows of a person clash: the index
\* never has to refuse a write that the model makes.
THEOREM ReviewTypeCorrect == Spec => []TypeOK
<1>1. IInv => TypeOK
  BY DEF IInv
<1> QED
  BY ReviewInvariant, <1>1, PTL

\* The schools are requeued by no more generations than the limit.
THEOREM RetryLimitHolds == Spec => []RetryLimit
<1>1. IInv => RetryLimit
  BY DEF IInv, Protocol
<1> QED
  BY ReviewInvariant, <1>1, PTL

\* A review generation crawls its own schools only.
THEOREM ReviewRunStaysInScopeHolds == Spec => []ReviewRunStaysInScope
<1>1. IInv => ReviewRunStaysInScope
  BY DEF IInv, Protocol, InScope, ReviewRunStaysInScope
<1> QED
  BY ReviewInvariant, <1>1, PTL

\* No step of the worker outside reopen_unresolved takes back an accepted row or
\* one that was given up, but for the row supersede_provisional_profile has found: the
\* writes of a generation look at the status again, and a new row only ever joins those
\* the person has.
THEOREM DecidedIsKeptHolds == Spec => DecidedIsKept
<1> DEFINE Kept ==
               \A p \in People :
                   rows[p] \cap {"accepted", "unresolved"}
                       \subseteq rows'[p] \cup (IF run.pc = "supersede" /\ p = run.person THEN {found} ELSE {})
<1>1. ASSUME TypeOK, [Next]_vars, run' # run, run.pc # "reopen" PROVE Kept
  <2> USE <1>1
  <2>1. CASE BeginGivesUp
    BY <2>1 DEF BeginGivesUp, Changed, TypeOK
  <2>2. CASE BeginSupersedes
    BY <2>2 DEF BeginSupersedes, Changed, TypeOK
  <2>3. CASE ReopenWrites
    BY <2>3 DEF ReopenWrites
  <2>4. CASE Discard \/ Recover \/ Check \/ LaunchRun \/ LoopEnds \/ Complete \/ RunFails
    BY <2>4 DEF Discard, Recover, Check, LaunchRun, LoopEnds, Complete, RunFails, tables
  <2>5. CASE Crawl
    <3>1. ASSUME NEW p \in People, SaveProfile(p) PROVE Kept
      BY <3>1 DEF SaveProfile, TypeOK
    <3>2. ASSUME NEW p \in People, ExtractPerson(p) PROVE Kept
      BY <3>2 DEF ExtractPerson, tables
    <3>7. CASE RetireProfile
      BY <3>7 DEF RetireProfile, TypeOK
    <3>3. CASE SaveCandidate
      BY <3>3 DEF SaveCandidate, TypeOK
    <3>4. ASSUME NEW p \in People, SkipProfile(p) \/ ProfileClashes(p) PROVE Kept
      BY <3>4 DEF SkipProfile, ProfileClashes, tables
    <3>5. ASSUME NEW s \in Schools, SkipSchool(s) \/ CrawlSchool(s) PROVE Kept
      BY <3>5 DEF SkipSchool, CrawlSchool
    <3>6. CASE \/ SchoolCancelled \/ SchoolFails \/ SchoolBlocked \/ ListAccess
               \/ PagesRead \/ ProfilesEnd \/ LinksRead \/ NoNewRow \/ BudgetPauses \/ SchoolEnds
      BY <3>6 DEF SchoolCancelled, SchoolFails, SchoolBlocked, ListAccess, PagesRead,
                  ProfilesEnd, LinksRead, NoNewRow, BudgetPauses, SchoolEnds, tables
    <3> QED
      BY <2>5, <3>1, <3>2, <3>3, <3>4, <3>5, <3>6, <3>7 DEF Crawl
  <2>6. CASE CloseReads \/ CloseWrites \/ CompleteGeneration
    BY <2>6 DEF CloseReads, CloseWrites, CompleteGeneration, Changed, TypeOK, tables
  <2>7. CASE Command
    BY <2>7 DEF Command, StartTask, StartReview, StartReopen, tables
  <2>8. CASE UserStep
    BY <2>8 DEF UserStep, CancelFlags, CancelWrites, BudgetReads, BudgetWrites,
                ReprocessCandidate, Decide, DecideRetired, ResolveAccess
  <2>9. CASE Crash \/ OpenWindow
    BY <2>9 DEF Crash, OpenWindow, tables
  <2>10. CASE UNCHANGED vars
    BY <2>10 DEF vars
  <2> QED
    BY <2>1, <2>2, <2>3, <2>4, <2>5, <2>6, <2>7, <2>8, <2>9, <2>10 DEF Next, RunStep
<1>2. TypeOK /\ [Next]_vars => [run' # run /\ run.pc # "reopen" => Kept]_vars
  BY <1>1
<1> QED
  BY ReviewTypeCorrect, <1>2, PTL DEF Spec, DecidedIsKept

-----------------------------------------------------------------------------
(* Nothing half-way under a completed task.                                *)

HalfWay == {s \in Schools : school[s] = "active"}

\* Only a cancellation leaves a school half-way, and then the run does not complete: the
\* flag stays until the next run, which recovers before it launches.
Settled ==
    /\ gui.pc # "budget"
    /\ run.pc \in {"check", "launch", "complete"} => HalfWay = {}
    /\ run.pc \in {"schools", "access"} => cancelled \/ HalfWay = {}
    /\ run.pc \in {"pages", "profiles", "links", "extract", "supersede", "enrich"} => cancelled \/ HalfWay \subseteq {run.school}
    /\ run.pc \in {"schools", "pages", "profiles", "links", "extract", "supersede", "enrich", "access"} => task # "completed"
    /\ CompletedIsSettled

\* What a generation closes is known before its writes: no worker's step and no window's,
\* decisions apart, brings back a row it has looked at.
ClosingHolds ==
    /\ run.pc = "closing" =>
           \A p \in Rowed("review") : <<Generation, p, finger[p]>> \in retired => p \in run.read
    /\ run.pc = "end" =>
           \A p \in Rowed("review") : <<Generation, p, finger[p]>> \notin retired

\* A step that makes no school half-way, at a place of the same kind.
LEMMA NoneStarted ==
    ASSUME Settled, HalfWay' \subseteq HalfWay, gui'.pc # "budget",
           task' \in {task, "cancelled", "failed", "paused_budget", "ready"}, cancelled => cancelled',
           \/ run'.pc = run.pc /\ run'.school = run.school
           \/ run'.pc \notin {"check", "launch", "complete", "schools", "access", "pages", "profiles", "links",
                              "extract", "supersede", "enrich"}
           \/ /\ run.pc \in {"pages", "profiles", "links", "extract", "supersede", "enrich"} /\ run'.school = run.school
              /\ run'.pc \in {"pages", "profiles", "links", "extract", "supersede", "enrich"}
    PROVE  Settled'
<1>1. CompletedIsSettled = (task = "completed" => HalfWay = {})
  BY DEF CompletedIsSettled, HalfWay
<1>2. CompletedIsSettled' = (task = "completed" => HalfWay = {})'
  BY DEF CompletedIsSettled, HalfWay
<1> QED BY <1>1, <1>2 DEF Settled

\* A crawl that ends leaves its school settled.
LEMMA SettleLeaves ==
    ASSUME TypeOK, Settled, run.pc \in {"pages", "profiles", "links", "extract", "supersede", "enrich"},
           NEW status \in SchoolStatus \ {"active"}, NEW pc \in {"schools", "access"},
           school' = [school EXCEPT ![run.school] = status], run'.pc = pc, UNCHANGED <<task, cancelled, gui>>
    PROVE  Settled'
<1>1. HalfWay' \subseteq HalfWay \ {run.school}
  BY DEF HalfWay, TypeOK
<1>2. cancelled \/ HalfWay' = {}
  BY <1>1 DEF Settled
<1>3. task' # "completed" /\ gui'.pc # "budget"
  BY DEF Settled
<1>4. CompletedIsSettled'
  BY <1>3 DEF CompletedIsSettled
<1> QED BY <1>2, <1>3, <1>4 DEF Settled

LEMMA ReturnsTo == Returns => run'.pc \in {"idle", "close"}
<1>1. Idle.pc = "idle" /\ [Idle EXCEPT !.pc = "close", !.review = TRUE].pc = "close"
  BY DEF Idle
<1> QED BY <1>1 DEF Returns

LEMMA CrawlSettles ==
    ASSUME TypeOK, Settled, Crawl
    PROVE  Settled'
<1> DEFINE Places == {"pages", "profiles", "links", "extract", "supersede", "enrich"}
<1>1. ASSUME NEW s \in Schools, SkipSchool(s) PROVE Settled'
  <2>1. HalfWay' \subseteq HalfWay
    BY <1>1 DEF SkipSchool, HalfWay, TypeOK
  <2>2. run'.pc = run.pc /\ run'.school = run.school
    BY <1>1 DEF SkipSchool, TypeOK, RunState
  <2> QED BY <1>1, <2>1, <2>2, NoneStarted DEF SkipSchool, Settled
<1>2. ASSUME NEW s \in Schools, CrawlSchool(s) PROVE Settled'
  <2>1. HalfWay = {} /\ task # "completed" /\ gui.pc # "budget"
    BY <1>2 DEF CrawlSchool, NextSchool, Settled
  <2>2. run'.pc = "pages" /\ run'.school = s /\ UNCHANGED <<task, gui>>
    BY <1>2 DEF CrawlSchool, TypeOK, RunState
  <2>3. HalfWay' \subseteq {s}
    BY <1>2, <2>1 DEF CrawlSchool, HalfWay, TypeOK
  <2>4. CompletedIsSettled'
    BY <2>1, <2>2 DEF CompletedIsSettled
  <2> QED BY <2>1, <2>2, <2>3, <2>4 DEF Settled
<1>3. CASE SchoolCancelled
  <2>1. run'.pc = "schools" /\ cancelled /\ UNCHANGED <<cancelled, gui, task, school>>
    BY <1>3 DEF SchoolCancelled, Leave, tables, TypeOK, RunState
  <2>2. task # "completed"
    BY <1>3 DEF SchoolCancelled, Settled
  <2> QED BY <2>1, <2>2 DEF Settled, CompletedIsSettled
<1>4. ASSUME NEW status \in SchoolStatus \ {"active"}, Settle(status), run.pc \in Places,
             UNCHANGED <<task, cancelled, gui>>
      PROVE  Settled'
  <2>1. run'.pc = "schools"
    BY <1>4 DEF Settle, Leave, TypeOK, RunState
  <2> QED BY <1>4, <2>1, SettleLeaves DEF Settle
<1>5. CASE SchoolFails \/ SchoolEnds
  <2>1. \E status \in SchoolStatus \ {"active"} : Settle(status)
    BY <1>5 DEF SchoolFails, SchoolEnds
  <2> QED BY <1>4, <1>5, <2>1 DEF SchoolFails, SchoolEnds
<1>6. CASE SchoolBlocked
  <2>1. CASE Settle("blocked_robots")
    BY <1>4, <1>6, <2>1 DEF SchoolBlocked
  <2>2. CASE school' = [school EXCEPT ![run.school] = "blocked_access"] /\ Goto("access")
    <3>1. run'.pc = "access"
      BY <2>2 DEF Goto, TypeOK, RunState
    <3> QED BY <1>6, <2>2, <3>1, SettleLeaves DEF SchoolBlocked
  <2> QED BY <1>6, <2>1, <2>2 DEF SchoolBlocked
<1>7. CASE ListAccess
  <2>1. run.pc = "access" /\ run'.pc = "schools" /\ UNCHANGED <<task, school, cancelled, gui>>
    BY <1>7 DEF ListAccess, Leave, TypeOK, RunState
  <2> QED BY <2>1 DEF Settled, HalfWay, CompletedIsSettled
<1>8. CASE PagesRead
  <2>1. \/ Settle("review")
        \/ /\ UNCHANGED school
           /\ \E ps : run' = [run EXCEPT !.pc = "profiles", !.seeds = ps, !.left = ps]
    BY <1>8 DEF PagesRead
  <2>2. CASE Settle("review")
    BY <1>4, <1>8, <2>2 DEF PagesRead
  <2>3. CASE UNCHANGED school /\ \E ps : run' = [run EXCEPT !.pc = "profiles", !.seeds = ps, !.left = ps]
    <3>1. run'.pc = "profiles" /\ run'.school = run.school
      BY <2>3 DEF TypeOK, RunState
    <3>2. HalfWay' = HalfWay
      BY <2>3 DEF HalfWay
    <3> QED BY <1>8, <3>1, <3>2, NoneStarted DEF PagesRead, Settled
  <2> QED BY <2>1, <2>2, <2>3
<1>9. CASE ProfilesEnd \/ LinksRead \/ RetireProfile \/ NoNewRow \/ SaveCandidate
  <2>1. /\ run.pc \in Places /\ run'.pc \in Places /\ run'.school = run.school
        /\ UNCHANGED <<task, school, cancelled, gui>>
    BY <1>9 DEF ProfilesEnd, LinksRead, RetireProfile, NoNewRow, SaveCandidate, PersonDone, Goto, tables, TypeOK, RunState
  <2>2. HalfWay' = HalfWay
    BY <2>1 DEF HalfWay
  <2> QED BY <2>1, <2>2, NoneStarted DEF Settled
<1>10. ASSUME NEW p \in People, SkipProfile(p) \/ SaveProfile(p) \/ ExtractPerson(p) PROVE Settled'
  <2>1. /\ run.pc \in Places /\ run'.pc \in Places /\ run'.school = run.school
        /\ UNCHANGED <<task, school, cancelled, gui>>
    BY <1>10 DEF SkipProfile, SaveProfile, NextProfile, ExtractPerson, tables, TypeOK, RunState
  <2>2. HalfWay' = HalfWay
    BY <2>1 DEF HalfWay
  <2> QED BY <2>1, <2>2, NoneStarted DEF Settled
<1>11. ASSUME NEW p \in People, ProfileClashes(p) PROVE Settled'
  BY <1>4, <1>11 DEF ProfileClashes, NextProfile
<1>12. CASE BudgetPauses
  <2>1. /\ task' = "paused_budget" /\ UNCHANGED <<school, cancelled, gui>>
        /\ run'.pc \in {"idle", "close"}
    BY <1>12, ReturnsTo DEF BudgetPauses
  <2>2. HalfWay' = HalfWay
    BY <2>1 DEF HalfWay
  <2> QED BY <2>1, <2>2, NoneStarted DEF Settled
<1> QED BY <1>1, <1>2, <1>3, <1>5, <1>6, <1>7, <1>8, <1>9, <1>10, <1>11, <1>12 DEF Crawl

LEMMA SettledStep ==
    ASSUME "budget" \notin UserActs, TypeOK, Settled, [Next]_vars
    PROVE  Settled'
<1>1. CASE Command
  <2>1. run'.pc \in {"discard", "begin", "reopen"} /\ UNCHANGED <<task, school, cancelled, gui>>
    BY <1>1 DEF Command, StartTask, StartReview, StartReopen, Idle, tables
  <2>2. HalfWay' = HalfWay
    BY <2>1 DEF HalfWay
  <2> QED BY <2>1, <2>2, NoneStarted DEF Settled
<1>2. CASE BeginGivesUp \/ BeginSupersedes \/ ReopenWrites
  <2>1. run'.pc \in {"idle", "discard"} /\ UNCHANGED <<task, cancelled, gui>>
    <3>1. CASE BeginGivesUp
      BY <3>1 DEF BeginGivesUp, Idle
    <3>2. CASE BeginSupersedes
      BY <3>2 DEF BeginSupersedes, Idle
    <3>3. CASE ReopenWrites
      BY <3>3 DEF ReopenWrites, Idle
    <3> QED BY <1>2, <3>1, <3>2, <3>3
  <2>2. HalfWay' \subseteq HalfWay
    BY <1>2 DEF BeginGivesUp, BeginSupersedes, ReopenWrites, Requeued, HalfWay
  <2> QED BY <2>1, <2>2, NoneStarted DEF Settled
<1>3. CASE Discard
  <2>1. run'.pc = "recover" /\ UNCHANGED <<task, school, gui>>
    BY <1>3 DEF Discard, Goto, tables, TypeOK, RunState
  <2> QED BY <2>1 DEF Settled, CompletedIsSettled
<1>4. CASE Recover
  <2>1. run'.pc = "check" /\ gui' = gui /\ HalfWay' = {}
    BY <1>4 DEF Recover, Goto, Recovered, HalfWay, TypeOK, RunState
  <2> QED BY <2>1 DEF Settled, HalfWay, CompletedIsSettled
<1>5. CASE Check
  <2>1. run.pc = "check" /\ run'.pc \in {"idle", "close", "launch"} /\ UNCHANGED <<task, school, gui>>
    BY <1>5, ReturnsTo DEF Check, Goto, Idle, tables, TypeOK, RunState
  <2> QED BY <2>1 DEF Settled, HalfWay, CompletedIsSettled
<1>6. CASE LaunchRun
  <2>1. run.pc = "launch" /\ run'.pc = "schools" /\ task' = "running" /\ UNCHANGED <<school, gui>>
    BY <1>6 DEF LaunchRun, TypeOK, RunState
  <2> QED BY <2>1 DEF Settled, HalfWay, CompletedIsSettled
<1>7. CASE LoopEnds
  <2>1. /\ run.pc = "schools" /\ UNCHANGED <<task, school, gui>>
        /\ run'.pc \in {"idle", "close"} \/ (run'.pc = "complete" /\ ~cancelled)
    BY <1>7, ReturnsTo DEF LoopEnds, Goto, tables, TypeOK, RunState
  <2> QED BY <2>1 DEF Settled, HalfWay, CompletedIsSettled
<1>8. CASE Complete
  <2>1. run.pc = "complete" /\ run'.pc \in {"idle", "close"} /\ UNCHANGED <<school, gui>>
    BY <1>8, ReturnsTo DEF Complete
  <2> QED BY <2>1 DEF Settled, HalfWay, CompletedIsSettled
<1>9. CASE RunFails
  <2>1. run'.pc = "idle" /\ task' = "failed" /\ gui' = gui
    BY <1>9 DEF RunFails, Idle
  <2> QED BY <2>1 DEF Settled, CompletedIsSettled
<1>10. CASE CloseReads \/ CloseWrites \/ CompleteGeneration
  <2>1. run'.pc \in {"idle", "closing", "end"} /\ UNCHANGED <<task, school, gui>>
    <3>1. CASE CloseReads
      BY <3>1 DEF CloseReads, tables, TypeOK, RunState
    <3>2. CASE CloseWrites
      BY <3>2 DEF CloseWrites, TypeOK, RunState
    <3>3. CASE CompleteGeneration
      BY <3>3 DEF CompleteGeneration, Idle
    <3> QED BY <1>10, <3>1, <3>2, <3>3
  <2> QED BY <2>1 DEF Settled, CompletedIsSettled
<1>11. CASE UserStep
  <2>1. ~BudgetReads /\ ~BudgetWrites
    BY DEF BudgetReads, BudgetWrites, Settled
  <2>2. /\ run' = run /\ task' \in {task, "cancelled"} /\ gui'.pc \in {gui.pc, "idle", "cancelling"}
        /\ (cancelled => cancelled') /\ HalfWay' \subseteq HalfWay
    <3>1. CASE CancelFlags
      BY <3>1 DEF CancelFlags, HalfWay, tables, TypeOK
    <3>5. CASE CancelWrites
      BY <3>5 DEF CancelWrites, IdleGui, HalfWay
    <3>2. ASSUME NEW p \in People, NEW from \in RowStatus, ReprocessCandidate(p, from)
          PROVE  UNCHANGED <<run, task, gui, cancelled>> /\ HalfWay' \subseteq HalfWay
      BY <3>2 DEF ReprocessCandidate, Requeued, HalfWay
    <3>3. ASSUME NEW s \in Schools, NEW retry \in BOOLEAN, ResolveAccess(s, retry)
          PROVE  UNCHANGED <<run, task, gui, cancelled>> /\ HalfWay' \subseteq HalfWay
      BY <3>3 DEF ResolveAccess, Requeued, HalfWay
    <3>4. ASSUME \/ \E p \in People, from \in RowStatus, to \in {"accepted", "review", "rejected"} : Decide(p, from, to)
                 \/ \E r \in retired, to \in {"accepted", "review", "rejected"} : DecideRetired(r[1], r[2], r[3], to)
          PROVE  UNCHANGED <<run, task, gui, cancelled>> /\ HalfWay' \subseteq HalfWay
      BY <3>4 DEF Decide, DecideRetired, HalfWay
    <3> QED BY <1>11, <2>1, <3>1, <3>2, <3>3, <3>4, <3>5 DEF UserStep
  <2> QED BY <2>2, NoneStarted DEF Settled
<1>12. CASE Crash
  <2>1. run'.pc = "idle" /\ gui'.pc = "idle" /\ UNCHANGED <<task, school>>
    BY <1>12 DEF Crash, Idle, IdleGui, tables
  <2> QED BY <2>1 DEF Settled, CompletedIsSettled
<1>13. CASE OpenWindow
  <2>1. run'.pc = "idle" /\ task' = "ready" /\ gui' = gui
    BY <1>13 DEF OpenWindow, Idle
  <2> QED BY <2>1 DEF Settled, CompletedIsSettled
<1>14. CASE UNCHANGED vars
  BY <1>14 DEF vars, tables, Settled, HalfWay, CompletedIsSettled
<1> QED BY <1>1, <1>2, <1>3, <1>4, <1>5, <1>6, <1>7, <1>8, <1>9, <1>10, <1>11, <1>12, <1>13, <1>14, CrawlSettles
        DEF Next, RunStep

\* As long as nobody changes the budget meanwhile, a completed task has no school half-way,
\* wherever it was cancelled or the process ended.
THEOREM CompletedIsSettledHolds ==
    ASSUME "budget" \notin UserActs
    PROVE  Spec => []CompletedIsSettled
<1>1. Init => Settled
  BY DEF Init, Idle, IdleGui, Settled, CompletedIsSettled
<1>2. TypeOK /\ Settled /\ [Next]_vars => Settled'
  BY SettledStep
<1>3. Settled => CompletedIsSettled
  BY DEF Settled
<1> QED BY ReviewTypeCorrect, <1>1, <1>2, <1>3, PTL DEF Spec

-----------------------------------------------------------------------------
(* What a generation closes.                                               *)

\* Only close_unchanged_reviews gets the worker between its read and the end.
LEMMA ElsewhereStays ==
    ASSUME TypeOK, RunStep \/ Command, ~CloseReads, ~CloseWrites
    PROVE  run'.pc \notin {"closing", "end"}
<1>1. CASE Command
  BY <1>1 DEF Command, StartTask, StartReview, StartReopen, Idle
<1>2. CASE BeginGivesUp
  BY <1>2 DEF BeginGivesUp, Idle
<1>3. CASE BeginSupersedes
  BY <1>3 DEF BeginSupersedes, Idle
<1>4. CASE ReopenWrites
  BY <1>4 DEF ReopenWrites, Idle
<1>5. CASE Discard \/ Recover \/ LaunchRun
  BY <1>5 DEF Discard, Recover, LaunchRun, Goto, TypeOK, RunState
<1>6. CASE Check \/ LoopEnds \/ Complete \/ BudgetPauses
  BY <1>6, ReturnsTo DEF Check, LoopEnds, Complete, BudgetPauses, Goto, Idle, TypeOK, RunState
<1>7. CASE RunFails \/ CompleteGeneration
  BY <1>7 DEF RunFails, CompleteGeneration, Idle
<1>8. ASSUME Leave("schools") PROVE run'.pc = "schools"
  BY <1>8 DEF Leave, TypeOK, RunState
<1>9. CASE SchoolCancelled \/ SchoolFails \/ ListAccess \/ SchoolEnds
  BY <1>8, <1>9 DEF SchoolCancelled, SchoolFails, ListAccess, SchoolEnds, Settle
<1>10. CASE SchoolBlocked
  BY <1>8, <1>10 DEF SchoolBlocked, Settle, Goto, TypeOK, RunState
<1>11. CASE PagesRead
  BY <1>8, <1>11 DEF PagesRead, Settle, TypeOK, RunState
<1>12. CASE ProfilesEnd \/ LinksRead \/ RetireProfile \/ NoNewRow \/ SaveCandidate
  BY <1>12 DEF ProfilesEnd, LinksRead, RetireProfile, NoNewRow, SaveCandidate, PersonDone, Goto, TypeOK, RunState
<1>13. CASE \E s \in Schools : SkipSchool(s) \/ CrawlSchool(s)
  BY <1>13 DEF SkipSchool, CrawlSchool, NextSchool, TypeOK, RunState
<1>14. CASE \E p \in People : SkipProfile(p) \/ SaveProfile(p) \/ ExtractPerson(p)
  BY <1>14 DEF SkipProfile, SaveProfile, NextProfile, ExtractPerson, TypeOK, RunState
<1>15. CASE \E p \in People : ProfileClashes(p)
  BY <1>8, <1>15 DEF ProfileClashes, Settle
<1> QED BY <1>1, <1>2, <1>3, <1>4, <1>5, <1>6, <1>7, <1>9, <1>10, <1>11, <1>12, <1>13, <1>14, <1>15
        DEF RunStep, Crawl

\* Rows may go meanwhile.
LEMMA FewerRowsClose ==
    ASSUME TypeOK, ClosingHolds, UNCHANGED <<finger, retired, attempts, run>>,
           \A p \in People : rows'[p] \subseteq rows[p]
    PROVE  ClosingHolds'
BY DEF ClosingHolds, Rowed, Generation, TypeOK

LEMMA ClosingStep ==
    ASSUME "decide" \notin UserActs, TypeOK, ClosingHolds, [Next]_vars
    PROVE  ClosingHolds'
<1>1. CASE (RunStep \/ Command) /\ ~CloseReads /\ ~CloseWrites
  BY <1>1, ElsewhereStays DEF ClosingHolds
<1>2. CASE CloseReads
  <2>1. run'.pc = "closing" /\ run'.read = Unchanged /\ UNCHANGED <<rows, finger, retired, attempts>>
    BY <1>2 DEF CloseReads, tables, TypeOK, RunState
  <2> QED BY <2>1 DEF ClosingHolds, Unchanged, Rowed, Generation
<1>3. CASE CloseWrites
  <2>1. /\ run'.pc = "end" /\ run.pc = "closing" /\ UNCHANGED <<finger, retired, attempts>>
        /\ rows' = Changed(run.read, "review", {"unresolved"})
    BY <1>3 DEF CloseWrites, TypeOK, RunState
  <2>2. \A p \in Rowed("review")' : p \in Rowed("review") /\ p \notin run.read
    BY <2>1 DEF Rowed, Changed, TypeOK
  <2> QED BY <2>1, <2>2 DEF ClosingHolds, Generation
<1>4. CASE UserStep
  <2>1. CASE CancelFlags \/ CancelWrites \/ BudgetReads \/ BudgetWrites
    BY <2>1, FewerRowsClose DEF CancelFlags, CancelWrites, BudgetReads, BudgetWrites, tables
  <2>2. ASSUME NEW p \in People, NEW from \in RowStatus, ReprocessCandidate(p, from) PROVE ClosingHolds'
    BY <2>2, FewerRowsClose DEF ReprocessCandidate, Changed, TypeOK
  <2>3. ASSUME NEW s \in Schools, NEW retry \in BOOLEAN, ResolveAccess(s, retry) PROVE ClosingHolds'
    BY <2>3, FewerRowsClose DEF ResolveAccess
  <2> QED BY <1>4, <2>1, <2>2, <2>3 DEF UserStep, Decide, DecideRetired
<1>5. CASE Crash
  BY <1>5 DEF Crash, Idle, ClosingHolds
<1>6. CASE OpenWindow
  BY <1>6, FewerRowsClose DEF OpenWindow
<1>7. CASE UNCHANGED vars
  BY <1>7, FewerRowsClose DEF vars, tables
<1> QED BY <1>1, <1>2, <1>3, <1>4, <1>5, <1>6, <1>7 DEF Next

\* As long as the user decides nothing meanwhile, a generation ends with no review row whose
\* evidence is what it was, wherever the generation was interrupted.
THEOREM UnchangedIsClosedHolds ==
    ASSUME "decide" \notin UserActs
    PROVE  Spec => UnchangedIsClosed
<1> DEFINE Closed == \A p \in People : "review" \in rows[p] => <<attempts', p, finger[p]>> \notin retired
<1>1. Init => ClosingHolds
  BY DEF Init, Idle, ClosingHolds
<1>2. TypeOK /\ ClosingHolds /\ [Next]_vars => ClosingHolds'
  BY ClosingStep
<1>3. TypeOK /\ ClosingHolds /\ [Next]_vars => [attempts' # attempts => Closed]_vars
  <2> SUFFICES ASSUME ClosingHolds, [Next]_vars, attempts' # attempts PROVE Closed
    OBVIOUS
  <2>1. CompleteGeneration
    BY DEF Next, RunStep, Command, Crawl, UserStep, vars, tables, StartTask, StartReview, StartReopen, BeginGivesUp,
           BeginSupersedes, ReopenWrites, Discard, Recover, Check, LaunchRun, LoopEnds, Complete, RunFails,
           SkipSchool, CrawlSchool, SchoolCancelled, SchoolFails, SchoolBlocked, ListAccess, PagesRead,
           ProfilesEnd, LinksRead, SkipProfile, SaveProfile, ProfileClashes, ExtractPerson, RetireProfile, NoNewRow,
           SaveCandidate, BudgetPauses, SchoolEnds, CloseReads, CloseWrites, CancelFlags, CancelWrites,
           BudgetReads, BudgetWrites, ReprocessCandidate, Decide, DecideRetired, ResolveAccess, Crash, OpenWindow
  <2>2. run.pc = "end" /\ attempts' = Generation
    BY <2>1 DEF CompleteGeneration, Generation
  <2> QED BY <2>2 DEF ClosingHolds, Rowed
<1> QED BY ReviewTypeCorrect, <1>1, <1>2, <1>3, PTL DEF Spec, UnchangedIsClosed

=============================================================================
