------------------------ MODULE VerificationWorkflow ------------------------
(***************************************************************************)
(* The desktop batch and manual verification workflow (desktop_app.py,     *)
(* crawler/batch.py, crawler/verification.py, crawler/task_store.py).      *)
(*                                                                         *)
(* Two files hold what survives a crash: the task store (one JSON per run, *)
(* every write an atomic replace) and the verification queue.  No write    *)
(* covers both, so every operation that changes both is two steps here.    *)
(* Three threads take the steps: the GUI thread (start-up recovery, user   *)
(* commands, the event pump), the batch worker and the verification        *)
(* worker.  Crash kills all three between any two steps.                   *)
(***************************************************************************)
EXTENDS VerificationItems, Sequences

CONSTANTS
    Tasks,          \* (run_id, task_id) identities
    Runs,           \* run ids
    RunOf,          \* the run a task belongs to
    NoTask, NoRun,
    WritesMayFail,  \* whether a write of either file can raise (OSError)
    LogMayFail      \* whether opening the log file of a batch can raise

ASSUME TasksAssumption ==
    /\ RunOf \in [Tasks -> Runs]
    /\ NoTask \notin Tasks
    /\ NoRun \notin Runs
    /\ WritesMayFail \in BOOLEAN /\ LogMayFail \in BOOLEAN

VARIABLES
    store,      \* task store: the status on disk, "absent" before the run is saved
    item,       \* verification queue: the item on disk
    phase,      \* life of the process, from "down" through the start-up to "up"
    purging,    \* the run whose items the retention purge has just removed
    view,       \* tasks with a row in the window (self.tasks)
    ui,         \* CrawlTask.status of the rows, shared with the batch worker
    running,    \* controller.state.running
    stop,       \* the stop event of the current batch
    retrying,   \* the failed task being put back, between its two writes
    verifying,  \* verification_in_progress
    batch,      \* the batch worker
    ver,        \* the verification worker
    events      \* the UiEvents posted and not yet handled

durable  == <<store, item>>
window   == <<view, ui, running, stop, retrying, verifying>>
threads  == <<batch, ver, events>>
vars     == <<durable, phase, purging, window, threads>>

TasksOf(r) == {t \in Tasks : RunOf[t] = r}
HasItem(t) == item[t].status # "none"

IdleBatch == [pc |-> "idle", todo |-> {}, cur |-> NoTask,
              result |-> "none", resuming |-> NoTask]
IdleVer   == [pc |-> "idle", task |-> NoTask, result |-> "none"]

Event(k, t) == [kind |-> k, task |-> t]

BatchState ==
    [pc : {"idle", "next", "crawl", "enqueue", "persist", "aborted", "exiting"},
     todo : SUBSET Tasks, cur : Tasks \cup {NoTask},
     result : TaskStatus \cup {"none"}, resuming : Tasks \cup {NoTask}]
VerState ==
    [pc : {"idle", "browse", "mark", "revert", "defer", "record", "exiting"},
     task : Tasks \cup {NoTask}, result : TaskStatus \cup {"none"}]
UiEvent ==
    [kind : {"finished", "required", "ready", "deferred", "failed"},
     task : Tasks \cup {NoTask}]

TypeOK ==
    /\ store \in [Tasks -> TaskStatus \cup {"absent"}]
    /\ item \in [Tasks -> Item]
    /\ phase \in {"down", "purge", "tasks", "claims", "items", "save", "up"}
    /\ purging \in Runs \cup {NoRun}
    /\ view \in SUBSET Tasks
    /\ ui \in [Tasks -> TaskStatus \cup {"none", "running"}]
    /\ running \in BOOLEAN /\ stop \in BOOLEAN /\ verifying \in BOOLEAN
    /\ retrying \in Tasks \cup {NoTask}
    /\ batch \in BatchState
    /\ ver \in VerState
    /\ events \in Seq(UiEvent)

Init ==
    /\ store = [t \in Tasks |-> "absent"]
    /\ item = [t \in Tasks |-> NoItem]
    /\ phase = "down"
    /\ purging = NoRun
    /\ view = {}
    /\ ui = [t \in Tasks |-> "none"]
    /\ running = FALSE
    /\ stop = FALSE
    /\ retrying = NoTask
    /\ verifying = FALSE
    /\ batch = IdleBatch
    /\ ver = IdleVer
    /\ events = <<>>

-----------------------------------------------------------------------------
(* Start-up, on the GUI thread of the process that owns the workflow mutex. *)

Launch ==
    /\ phase = "down"
    /\ phase' = "purge"
    /\ UNCHANGED <<durable, purging, window, threads>>

\* _remove_run_verification_items: only a run with all tasks terminal, one of
\* them failed, loses its queue items before its file.  Whether the run is 90
\* days old is left open.
PurgeItems(r) ==
    /\ phase = "purge"
    /\ purging = NoRun
    /\ TasksOf(r) # {}
    /\ \A t \in TasksOf(r) : store[t] \in Terminal
    /\ \E t \in TasksOf(r) : store[t] = "failed"
    /\ item' = [t \in Tasks |-> IF RunOf[t] = r THEN NoItem ELSE item[t]]
    /\ purging' = r
    /\ UNCHANGED <<store, phase, window, threads>>

PurgeFile ==
    /\ phase = "purge"
    /\ purging # NoRun
    /\ store' = [t \in Tasks |-> IF RunOf[t] = purging THEN "absent" ELSE store[t]]
    /\ purging' = NoRun
    /\ UNCHANGED <<item, phase, window, threads>>

\* A purge that raises is logged and the start-up goes on.
PurgeEnds ==
    /\ phase = "purge"
    /\ purging = NoRun \/ WritesMayFail
    /\ purging' = NoRun
    /\ phase' = "tasks"
    /\ UNCHANGED <<durable, window, threads>>

\* TaskStore.recover_interrupted: one write per run with a running task.
RecoverRun(r) ==
    /\ phase = "tasks"
    /\ \E t \in TasksOf(r) : store[t] = "fetching"
    /\ store' = [t \in Tasks |-> IF RunOf[t] = r /\ store[t] = "fetching"
                                 THEN "pending" ELSE store[t]]
    /\ UNCHANGED <<item, phase, purging, window, threads>>

TasksRecovered ==
    /\ phase = "tasks"
    /\ \A t \in Tasks : store[t] # "fetching"
    /\ phase' = "claims"
    /\ UNCHANGED <<durable, purging, window, threads>>

RecoverClaims ==
    /\ phase = "claims"
    /\ item' = [t \in Tasks |-> Unclaimed(item[t])]
    /\ phase' = "items"
    /\ UNCHANGED <<store, purging, window, threads>>

\* First loop of _recover_desktop_tasks: the writes to the queue.
Orphaned(t)  == store[t] = "absent" /\ CanMarkFailed(item[t])
Disowned(t)  == store[t] = "failed" /\ CanMarkFailed(item[t])
Leftover(t)  == store[t] \in Completed /\ HasItem(t)

ReconcileItem(t) ==
    /\ phase = "items"
    /\ \/ /\ Orphaned(t) \/ Disowned(t)
          /\ item' = [item EXCEPT ![t] = Failed(@)]
       \/ /\ Leftover(t)
          /\ item' = [item EXCEPT ![t] = NoItem]
    /\ UNCHANGED <<store, phase, purging, window, threads>>

\* Failures on an orphan abort the recovery; the other two are swallowed.
ItemsReconciled ==
    /\ phase = "items"
    /\ \A t \in Tasks :
          /\ ~Orphaned(t)
          /\ (Disowned(t) \/ Leftover(t)) => WritesMayFail
    /\ phase' = "save"
    /\ UNCHANGED <<durable, purging, window, threads>>

\* Mutant of Reconciled: the item wins over a terminal status too.
ItemAlwaysWins(t) ==
    IF store[t] # "absent" /\ HasItem(t) THEN item[t].status ELSE store[t]

\* The status a stored task takes from its queue item.
Reconciled(t) ==
    IF store[t] \in Terminal \cup {"absent"} THEN store[t]
    ELSE IF HasItem(t) THEN item[t].status
    ELSE IF store[t] \in Awaiting THEN "failed"   \* verification_state_unavailable
    ELSE store[t]

SaveReconciled(r) ==
    /\ phase = "save"
    /\ \E t \in TasksOf(r) : Reconciled(t) # store[t]
    /\ store' = [t \in Tasks |-> IF RunOf[t] = r THEN Reconciled(t) ELSE store[t]]
    /\ UNCHANGED <<item, phase, purging, window, threads>>

Loaded ==
    {t \in Tasks : /\ store[t] # "absent"
                   /\ \E u \in TasksOf(RunOf[t]) : store[u] \notin Completed}

RecoveryEnds ==
    /\ phase = "save"
    /\ \A t \in Tasks : Reconciled(t) = store[t]
    /\ phase' = "up"
    /\ view' = Loaded
    /\ ui' = [t \in Tasks |-> IF t \in Loaded THEN store[t] ELSE "none"]
    /\ UNCHANGED <<durable, purging, running, stop, retrying, verifying, threads>>

\* An error the recovery does not swallow: the window opens without rows.
RecoveryAborts ==
    /\ WritesMayFail
    /\ phase \in {"tasks", "claims", "items", "save"}
    /\ phase' = "up"
    /\ UNCHANGED <<durable, purging, window, threads>>

Crash ==
    /\ phase # "down"
    /\ phase' = "down"
    /\ purging' = NoRun
    /\ view' = {}
    /\ ui' = [t \in Tasks |-> "none"]
    /\ running' = FALSE
    /\ stop' = FALSE
    /\ retrying' = NoTask
    /\ verifying' = FALSE
    /\ batch' = IdleBatch
    /\ ver' = IdleVer
    /\ events' = <<>>
    /\ UNCHANGED durable

-----------------------------------------------------------------------------
(* User commands and the event pump, one at a time on the GUI thread.       *)

GuiFree  == phase = "up" /\ retrying = NoTask
MayStart == GuiFree /\ ~running /\ ~verifying

\* controller.launch_worker and the batch log session: a worker thread still
\* on its way out, or a log file that cannot be opened, refuse the launch.
LaunchRefused == batch.pc # "idle" \/ LogMayFail

StartWorker(todo, resuming) ==
    /\ batch.pc = "idle"
    /\ batch' = [IdleBatch EXCEPT !.pc = "next", !.todo = todo,
                                  !.resuming = resuming]
    /\ running' = TRUE
    /\ stop' = FALSE

\* _prepare: the rows give way to freshly entered URLs, which are not saved yet.
Prepare ==
    /\ MayStart
    /\ view' = {}
    /\ ui' = [t \in Tasks |-> "none"]
    /\ UNCHANGED <<durable, phase, purging, running, stop, retrying, verifying, threads>>

\* _start_prepared_batch for newly prepared URLs: save the run, then launch.
NewBatch(r) ==
    /\ MayStart
    /\ TasksOf(r) # {}
    /\ \A t \in TasksOf(r) : store[t] = "absent" /\ ~HasItem(t)
    /\ store' = [t \in Tasks |-> IF RunOf[t] = r THEN "pending" ELSE store[t]]
    /\ view' = TasksOf(r)
    /\ ui' = [t \in Tasks |-> IF RunOf[t] = r THEN "pending" ELSE "none"]
    /\ \/ StartWorker(TasksOf(r), NoTask)
       \/ LaunchRefused /\ UNCHANGED <<batch, running, stop>>
    /\ UNCHANGED <<item, phase, purging, retrying, verifying, ver, events>>

\* The same for one selected row that is still pending.
StartPending(t) ==
    /\ MayStart
    /\ t \in view /\ ui[t] = "pending"
    /\ StartWorker({t}, NoTask)
    /\ UNCHANGED <<durable, phase, purging, view, ui, retrying, verifying, ver, events>>

\* ... and for a row that is ready: the claim is written before the launch.
Resume(t) ==
    /\ MayStart
    /\ t \in view /\ ui[t] = "ready_to_resume"
    /\ CanBeginResume(item[t])
    /\ item' = [item EXCEPT ![t] = Claimed(@)]
    /\ \/ StartWorker({t}, t)
       \/ LaunchRefused /\ UNCHANGED <<batch, running, stop>>
    /\ UNCHANGED <<store, phase, purging, view, ui, retrying, verifying, ver, events>>

\* ... and for a failed row: back to verification, queue first.
RetryFailed(t) ==
    /\ MayStart
    /\ t \in view /\ ui[t] = "failed"
    /\ CanRetry(item[t])
    /\ item' = [item EXCEPT ![t] = Retried(@)]
    /\ retrying' = t
    /\ UNCHANGED <<store, phase, purging, view, ui, running, stop, verifying, threads>>

RetryRecorded ==
    /\ phase = "up" /\ retrying # NoTask
    /\ \/ /\ store' = [store EXCEPT ![retrying] = "verification_required"]
          /\ ui' = [ui EXCEPT ![retrying] = "verification_required"]
       \/ WritesMayFail /\ UNCHANGED <<store, ui>>
    /\ retrying' = NoTask
    /\ UNCHANGED <<item, phase, purging, view, running, stop, verifying, threads>>

StopAfterCurrent ==
    /\ GuiFree /\ running /\ ~stop
    /\ stop' = TRUE
    /\ UNCHANGED <<durable, phase, purging, view, ui, running, retrying, verifying, threads>>

\* start_verification: any pending item, also while a batch runs.
StartVerification(t) ==
    /\ GuiFree /\ ~verifying
    /\ ver.pc = "idle"
    /\ IsPending(item[t])
    /\ ver' = [pc |-> "browse", task |-> t, result |-> "none"]
    /\ verifying' = TRUE
    /\ UNCHANGED <<durable, phase, purging, view, ui, running, stop, retrying, batch, events>>

ShownStatus(kind) ==
    CASE kind = "ready" -> "ready_to_resume"
      [] kind = "failed" -> "failed"
      [] OTHER -> "verification_required"

HandleEvent ==
    /\ GuiFree /\ events # <<>>
    /\ LET e == Head(events) IN
         /\ ui' = IF e.kind # "finished" /\ e.task \in view
                  THEN [ui EXCEPT ![e.task] = ShownStatus(e.kind)] ELSE ui
         /\ running' = (running /\ e.kind # "finished")
         /\ verifying' = (verifying /\ e.kind \in {"finished", "required"})
    /\ events' = Tail(events)
    /\ UNCHANGED <<durable, phase, purging, view, stop, retrying, batch, ver>>

-----------------------------------------------------------------------------
(* The batch worker: run_tasks inside run_batch_worker.                     *)

\* A write of the task store that raises leaves run_tasks.
Persist(t, status, onOk, onError) ==
    \/ store' = [store EXCEPT ![t] = status] /\ batch' = onOk
    \/ WritesMayFail /\ UNCHANGED store /\ batch' = onError

Aborted == [batch EXCEPT !.pc = "aborted"]

\* Mutants of BatchCancels: a stop only shows in the window, or only ends the loop.
BatchShowsCancelled(t) ==
    /\ batch.pc = "next" /\ t \in batch.todo /\ stop
    /\ ui' = [ui EXCEPT ![t] = "cancelled"]
    /\ batch' = [batch EXCEPT !.todo = @ \ {t}]
    /\ UNCHANGED <<durable, phase, purging, view, running, stop, retrying, verifying, ver, events>>
BatchBreaks(t) ==
    /\ batch.pc = "next" /\ t \in batch.todo /\ stop
    /\ batch' = [batch EXCEPT !.todo = {}]
    /\ UNCHANGED <<durable, phase, purging, window, ver, events>>

BatchCancels(t) ==
    /\ batch.pc = "next" /\ t \in batch.todo /\ stop
    /\ ui' = [ui EXCEPT ![t] = "cancelled"]
    /\ Persist(t, "cancelled", [batch EXCEPT !.todo = @ \ {t}], Aborted)
    /\ UNCHANGED <<item, phase, purging, view, running, stop, retrying, verifying, ver, events>>

BatchTakes(t) ==
    /\ batch.pc = "next" /\ t \in batch.todo /\ ~stop
    /\ ui' = [ui EXCEPT ![t] = "running"]
    /\ Persist(t, "fetching",
               [batch EXCEPT !.pc = "crawl", !.cur = t, !.todo = @ \ {t}], Aborted)
    /\ UNCHANGED <<item, phase, purging, view, running, stop, retrying, verifying, ver, events>>

\* The crawl and the export, whose failure is the task's failure.
CrawlResults == {"succeeded", "review_recommended", "failed", "verification_required"}

BatchCrawls(result) ==
    /\ batch.pc = "crawl"
    /\ IF result = "verification_required"
       THEN batch' = [batch EXCEPT !.pc = "enqueue"] /\ UNCHANGED ui
       ELSE /\ batch' = [batch EXCEPT !.pc = "persist", !.result = result]
            /\ ui' = [ui EXCEPT ![batch.cur] = result]
    /\ UNCHANGED <<durable, phase, purging, view, running, stop, retrying, verifying, ver, events>>

BatchEnqueues ==
    /\ batch.pc = "enqueue"
    /\ CanEnqueue(item[batch.cur])
    /\ item' = [item EXCEPT ![batch.cur] = Enqueued(@)]
    /\ ui' = [ui EXCEPT ![batch.cur] = "verification_required"]
    /\ batch' = [batch EXCEPT !.pc = "persist", !.result = "verification_required"]
    /\ UNCHANGED <<store, phase, purging, view, running, stop, retrying, verifying, ver, events>>

\* Mutant of BatchEnqueueFails: the failed enqueue goes unnoticed.
BatchEnqueueUnchecked ==
    /\ batch.pc = "enqueue"
    /\ ~CanEnqueue(item[batch.cur]) \/ WritesMayFail
    /\ batch' = [batch EXCEPT !.pc = "persist", !.result = "verification_required"]
    /\ UNCHANGED <<durable, phase, purging, window, ver, events>>

\* verification_queue_unavailable
BatchEnqueueFails ==
    /\ batch.pc = "enqueue"
    /\ ~CanEnqueue(item[batch.cur]) \/ WritesMayFail
    /\ ui' = [ui EXCEPT ![batch.cur] = "failed"]
    /\ batch' = [batch EXCEPT !.pc = "persist", !.result = "failed"]
    /\ UNCHANGED <<durable, phase, purging, view, running, stop, retrying, verifying, ver, events>>

\* The write of "verification_required" stands inside the try of run_tasks: its
\* failure is the task's failure, recorded by one more write.  Any other write
\* that raises ends the batch.  (The failure of the enqueue writes "failed"
\* inside the try, so it is tried twice: the same outcomes as one try.)
BatchPersists ==
    /\ batch.pc = "persist"
    /\ \/ /\ store' = [store EXCEPT ![batch.cur] = batch.result]
          /\ batch' = [batch EXCEPT !.pc = "next", !.cur = NoTask, !.result = "none"]
          /\ events' = IF batch.result = "verification_required"
                       THEN Append(events, Event("required", batch.cur)) ELSE events
          /\ UNCHANGED ui
       \/ /\ WritesMayFail
          /\ batch.result = "verification_required"
          /\ batch' = [batch EXCEPT !.result = "failed"]
          /\ ui' = [ui EXCEPT ![batch.cur] = "failed"]
          /\ UNCHANGED <<store, events>>
       \/ /\ WritesMayFail
          /\ batch.result # "verification_required"
          /\ batch' = Aborted
          /\ UNCHANGED <<store, events, ui>>
    /\ UNCHANGED <<item, phase, purging, view, running, stop, retrying, verifying, ver>>

\* The finally block: settle the claim of a resumed task, post "finished".
Settled(t) ==
    IF store[t] \in {"succeeded", "review_recommended"} /\ CanCompleteResume(item[t])
    THEN NoItem
    ELSE IF store[t] = "failed" /\ CanMarkFailed(item[t])
    THEN Failed(item[t])
    ELSE item[t]

BatchFinishes ==
    /\ \/ batch.pc = "next" /\ batch.todo = {}
       \/ batch.pc = "aborted"
    /\ \/ /\ batch.resuming # NoTask
          /\ item' = [item EXCEPT ![batch.resuming] = Settled(batch.resuming)]
       \/ /\ batch.resuming = NoTask \/ WritesMayFail
          /\ UNCHANGED item
    /\ events' = Append(events, Event("finished", NoTask))
    /\ batch' = [IdleBatch EXCEPT !.pc = "exiting"]
    /\ UNCHANGED <<store, phase, purging, window, ver>>

BatchExits ==
    /\ batch.pc = "exiting"
    /\ batch' = IdleBatch
    /\ UNCHANGED <<durable, phase, purging, window, ver, events>>

-----------------------------------------------------------------------------
(* The verification worker: VerificationService.verify for one item.        *)

VerifyGoes(pc) == ver' = [ver EXCEPT !.pc = pc]

\* The directory is visible and the session is saved: first the task store ...
VerifyConfirmed ==
    /\ ver.pc = "browse"
    /\ \/ /\ store[ver.task] # "absent"
          /\ store' = [store EXCEPT ![ver.task] = "ready_to_resume"]
          /\ VerifyGoes("mark")
       \/ /\ store[ver.task] = "absent" \/ WritesMayFail
          /\ VerifyGoes("defer") /\ UNCHANGED store
    /\ UNCHANGED <<item, phase, purging, window, batch, events>>

\* ... then the queue ...
VerifyMarksReady ==
    /\ ver.pc = "mark"
    /\ CanMarkReady(item[ver.task])
    /\ item' = [item EXCEPT ![ver.task] = Ready(@)]
    /\ events' = Append(events, Event("ready", ver.task))
    /\ VerifyGoes("exiting")
    /\ UNCHANGED <<store, phase, purging, window, batch>>

VerifyMarkFails ==
    /\ ver.pc = "mark"
    /\ ~CanMarkReady(item[ver.task]) \/ WritesMayFail
    /\ VerifyGoes("revert")
    /\ UNCHANGED <<durable, phase, purging, window, batch, events>>

\* ... whose failure takes the first write back.
VerifyReverts ==
    /\ ver.pc = "revert"
    /\ \/ store' = [store EXCEPT ![ver.task] = "verification_required"]
       \/ WritesMayFail /\ UNCHANGED store
    /\ VerifyGoes("defer")
    /\ UNCHANGED <<item, phase, purging, window, batch, events>>

\* Cancelled, timed out, not a directory, or the session could not be saved.
VerifyGivesUp ==
    /\ ver.pc = "browse"
    /\ VerifyGoes("defer")
    /\ UNCHANGED <<durable, phase, purging, window, batch, events>>

VerifyDefers ==
    /\ ver.pc = "defer"
    /\ CanDefer(item[ver.task])
    /\ item' = [item EXCEPT ![ver.task] = Deferred(@)]
    /\ ver' = [ver EXCEPT !.pc = "record", !.result = item'[ver.task].status]
    /\ UNCHANGED <<store, phase, purging, window, batch, events>>

VerifyDeferFails ==
    /\ ver.pc = "defer"
    /\ ~CanDefer(item[ver.task]) \/ WritesMayFail
    /\ events' = Append(events, Event("deferred", ver.task))
    /\ VerifyGoes("exiting")
    /\ UNCHANGED <<durable, phase, purging, window, batch>>

\* Mutant of VerifyRecords: nothing is posted for a deferred item.
VerifyRecordsSilently ==
    /\ ver.pc = "record"
    /\ store' = [store EXCEPT ![ver.task] = ver.result]
    /\ VerifyGoes("exiting")
    /\ UNCHANGED <<item, phase, purging, window, batch, events>>

VerifyRecords ==
    /\ ver.pc = "record"
    /\ \/ /\ store[ver.task] # "absent"
          /\ store' = [store EXCEPT ![ver.task] = ver.result]
       \/ /\ store[ver.task] = "absent" \/ WritesMayFail
          /\ UNCHANGED store
    /\ events' = Append(events,
                        Event(IF ver.result = "failed" THEN "failed" ELSE "deferred",
                              ver.task))
    /\ VerifyGoes("exiting")
    /\ UNCHANGED <<item, phase, purging, window, batch>>

VerifyExits ==
    /\ ver.pc = "exiting"
    /\ ver' = IdleVer
    /\ UNCHANGED <<durable, phase, purging, window, batch, events>>

-----------------------------------------------------------------------------
StartUp ==
    \/ Launch \/ PurgeFile \/ PurgeEnds \/ TasksRecovered \/ RecoverClaims
    \/ ItemsReconciled \/ RecoveryEnds \/ RecoveryAborts
    \/ \E r \in Runs : PurgeItems(r) \/ RecoverRun(r) \/ SaveReconciled(r)
    \/ \E t \in Tasks : ReconcileItem(t)

User ==
    \/ Prepare \/ StopAfterCurrent
    \/ \E r \in Runs : NewBatch(r)
    \/ \E t \in Tasks : \/ StartPending(t) \/ Resume(t) \/ RetryFailed(t)
                        \/ StartVerification(t)

Pump == HandleEvent \/ RetryRecorded

BatchStep ==
    \/ \E t \in Tasks : BatchCancels(t) \/ BatchTakes(t)
    \/ \E result \in CrawlResults : BatchCrawls(result)
    \/ BatchEnqueues \/ BatchEnqueueFails \/ BatchPersists
    \/ BatchFinishes \/ BatchExits

VerifyStep ==
    \/ VerifyConfirmed \/ VerifyMarksReady \/ VerifyMarkFails \/ VerifyReverts
    \/ VerifyGivesUp \/ VerifyDefers \/ VerifyDeferFails \/ VerifyRecords
    \/ VerifyExits

Next == StartUp \/ User \/ Pump \/ BatchStep \/ VerifyStep \/ Crash

Spec == Init /\ [][Next]_vars

\* The threads run: a crawl and a verification end (every fetch has a timeout,
\* the visible browser a deadline), Tk's after() keeps the pump going, and a
\* start-up once begun goes on.  The user owes nothing and nothing must crash.
FairSpec ==
    /\ Spec
    /\ WF_vars(StartUp /\ phase # "down")
    /\ WF_vars(Pump)
    /\ WF_vars(BatchStep)
    /\ WF_vars(VerifyStep)
-----------------------------------------------------------------------------
(* Properties.                                                              *)

\* A task the user is told to verify or to resume has its queue item, whatever
\* crashes and whichever write fails: without it start-up can only fail the
\* task (verification_state_unavailable in _recover_desktop_tasks).
AwaitingHasItem ==
    \A t \in Tasks : store[t] \in Awaiting => HasItem(t)

\* The attempts of an item that can still be verified or resumed are below the
\* limit, across re-challenges, restarts and user retries: verification pages
\* are not reopened for ever (VerificationQueue.defer and enqueue).
AttemptsBelowLimit ==
    \A t \in Tasks : item[t].status \in Awaiting \cup {"fetching"} =>
                        item[t].attempts < MaxAttempts

\* No verification browser is open on the task the batch worker is crawling,
\* although a verification may be started while a batch runs.
OneWorkerPerTask ==
    ver.pc \notin {"idle", "exiting"} => ~(batch.pc = "crawl" /\ batch.cur = ver.task)

\* What a task has completed to on disk stays until the retention purge removes
\* its run: no late write of the other worker and no recovery takes it back.
FinishedIsFinal ==
    [][\A t \in Tasks : store[t] \in Completed =>
          \/ store'[t] = store[t]
          \/ phase = "purge" /\ store'[t] = "absent"]_vars

\* When a recovery ends, the two files tell one story: nothing is half-way (no
\* running task, no claim), a task waits exactly as its item says, and every
\* unfinished task has a row from which it can go on (_recover_desktop_tasks).
OpensReconciled ==
    [][RecoveryEnds =>
          \A t \in Tasks :
             /\ item[t].status # "fetching"
             /\ store[t] \in Awaiting => item[t].status = store[t]
             /\ store[t] \notin Terminal \cup {"absent"} =>
                   t \in view' /\ ui'[t] \in {"pending"} \cup Awaiting]_vars

\* Where no write fails, the outcome a row shows at rest is the one on disk.
OutcomesAgree ==
    phase = "up" /\ batch.pc = "idle" =>
        \A t \in view : ui[t] \in Completed \/ store[t] \in Completed => ui[t] = store[t]

\* Where no write fails, every task of a started batch is settled, also after a
\* stop, unless the process dies (run_tasks goes through all of its tasks).
BatchSettlesAll ==
    \A t \in Tasks :
        t \in batch.todo ~> (phase = "down" \/ store[t] \in Terminal \cup Awaiting)

VerificationEnds == verifying ~> ~verifying

=============================================================================
