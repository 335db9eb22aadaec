-------------------- MODULE VerificationWorkflow_proofs --------------------
(***************************************************************************)
(* Safety of VerificationWorkflow for every set of tasks and runs and every *)
(* attempt limit, with failing writes and crashes.                         *)
(*                                                                         *)
(* AwaitingHasItem is not inductive: the writes that make a task wait are   *)
(* made by three threads that looked at the queue some steps earlier.  What *)
(* keeps the item in place meanwhile is the protocol of the window: which   *)
(* flag is up while which worker is inside, and that each worker posts its  *)
(* last event when it is done.  Protocol states that, part by part.         *)
(*                                                                         *)
(* FinishedIsFinal and OpensReconciled are about steps that overwrite a     *)
(* status.  Open says that whoever is about to write one has a task that is *)
(* not finished, and how far the recovery has come (HalfWayGone).           *)
(* OutcomesAgree relates the rows of the window to the disk.  Told says, of *)
(* a row that differs, which event or which worker will still change it.    *)
(***************************************************************************)
EXTENDS VerificationWorkflow, TLAPS

BatchInside == batch.pc \notin {"idle", "exiting"}
VerInside   == ver.pc \notin {"idle", "exiting"}

EndKinds == {"ready", "deferred", "failed"}

\* Nothing but the start-up runs before the window is open.
StartsAlone ==
    phase # "up" => /\ batch.pc = "idle" /\ ver.pc = "idle" /\ retrying = NoTask
                    /\ events = <<>> /\ ~running /\ ~verifying

\* The window is busy while a worker is inside ...
BusyInside == (BatchInside => running) /\ (VerInside => verifying)

\* ... and until it has handled the one event that says the worker is done.
OneFinished ==
    \A i \in 1 .. Len(events) : events[i].kind = "finished" =>
        /\ running /\ ~BatchInside
        /\ \A j \in 1 .. Len(events) : events[j].kind = "finished" => j = i
OneEnd ==
    \A i \in 1 .. Len(events) : events[i].kind \in EndKinds =>
        /\ verifying /\ ~VerInside
        /\ \A j \in 1 .. Len(events) : events[j].kind \in EndKinds => j = i

\* A retry is between its two writes only while both workers are outside.
RetryAlone == retrying # NoTask => HasItem(retrying) /\ ~running /\ ~verifying

\* The batch worker has a task in hand, not one still to do, and has enqueued it
\* by the time it records that it waits.
BatchHolds ==
    /\ batch.pc \in {"crawl", "enqueue", "persist"} => batch.cur \in Tasks
    /\ batch.cur \notin batch.todo
    /\ batch.pc = "persist" => batch.result \in CrawlResults
    /\ batch.pc = "persist" /\ batch.result = "verification_required" => HasItem(batch.cur)
    /\ ~BatchInside => batch.todo = {}

\* The item a verification is about is neither gone nor claimed.
VerHolds ==
    VerInside => /\ ver.task \in Tasks
                 /\ item[ver.task].status \in {"verification_required",
                                               "ready_to_resume", "failed"}
                 /\ ver.pc = "record" => ver.result \in {"verification_required", "failed"}

\* A task the batch worker has yet to crawl was never challenged, or is claimed.
Crawlable(t) == item[t].status \in {"none", "fetching"}
BatchCrawlable ==
    /\ \A t \in batch.todo : Crawlable(t)
    /\ batch.pc = "crawl" => Crawlable(batch.cur)
PendingIsNew == \A t \in view : ui[t] = "pending" => ~HasItem(t)

\* An item that is not there has spent no attempt.
ItemsSound ==
    \A t \in Tasks : item[t].attempts >= MaxAttempts => item[t].status = "failed"

Protocol ==
    /\ StartsAlone /\ BusyInside /\ OneFinished /\ OneEnd /\ RetryAlone
    /\ BatchHolds /\ VerHolds /\ BatchCrawlable /\ PendingIsNew /\ ItemsSound

IInv == TypeOK /\ Protocol /\ AwaitingHasItem

USE TasksAssumption, MaxAttemptsAssumption
USE DEF HasItem, BatchInside, VerInside, EndKinds, Crawlable, durable, window,
        threads, GuiFree, MayStart

-----------------------------------------------------------------------------
\* Every operation of the queue yields an item.
LEMMA ItemOps ==
    ASSUME NEW i \in Item
    PROVE  /\ NoItem \in Item
           /\ Ready(i) \in Item /\ Claimed(i) \in Item /\ Failed(i) \in Item
           /\ Enqueued(i) \in Item /\ Retried(i) \in Item /\ Unclaimed(i) \in Item
BY DEF Item, QueueStatus, Awaiting, NoItem, Ready, Claimed, Failed, Enqueued,
       Retried, Unclaimed

\* A deferred item is pending again or, at the limit, failed.
LEMMA DeferOp ==
    ASSUME NEW i \in Item, i.attempts < MaxAttempts
    PROVE  /\ Deferred(i) \in Item
           /\ Deferred(i).status \in {"verification_required", "failed"}
           /\ Deferred(i).attempts >= MaxAttempts => Deferred(i).status = "failed"
<1>1. i.attempts \in 0 .. MaxAttempts
  BY DEF Item
<1>2. i.attempts + 1 \in 0 .. MaxAttempts
  BY <1>1
<1> QED
  BY <1>1, <1>2 DEF Item, QueueStatus, Awaiting, Deferred

\* What a launch and a crash reset the threads to.
LEMMA IdleStates ==
    IdleBatch \in BatchState /\ IdleVer \in VerState /\ <<>> \in Seq(UiEvent)
BY DEF IdleBatch, IdleVer, BatchState, VerState

\* The states a batch starts and ends in.
LEMMA BatchStarts ==
    ASSUME NEW S \in SUBSET Tasks, NEW c \in Tasks \cup {NoTask}
    PROVE  [IdleBatch EXCEPT !.pc = "next", !.todo = S, !.resuming = c] \in BatchState
BY DEF IdleBatch, BatchState, TaskStatus

\* The states the batch worker goes through.
LEMMA BatchMoves ==
    ASSUME NEW b \in BatchState, NEW t \in Tasks, NEW x \in TaskStatus
    PROVE  /\ \A p \in {"crawl", "enqueue", "aborted"} :
                 [b EXCEPT !.pc = p] \in BatchState
           /\ [b EXCEPT !.todo = @ \ {t}] \in BatchState
           /\ [b EXCEPT !.pc = "crawl", !.cur = t, !.todo = @ \ {t}] \in BatchState
           /\ [b EXCEPT !.pc = "persist", !.result = x] \in BatchState
           /\ [b EXCEPT !.result = x] \in BatchState
           /\ [b EXCEPT !.pc = "next", !.cur = NoTask, !.result = "none"] \in BatchState
BY DEF BatchState, TaskStatus

\* The events that are posted and taken.
LEMMA Posting ==
    ASSUME NEW s \in Seq(UiEvent), NEW e \in UiEvent
    PROVE  /\ Append(s, e) \in Seq(UiEvent)
           /\ Len(Append(s, e)) = Len(s) + 1
           /\ \A i \in 1 .. Len(s) : Append(s, e)[i] = s[i]
           /\ Append(s, e)[Len(s) + 1] = e
OBVIOUS

LEMMA Taking ==
    ASSUME NEW s \in Seq(UiEvent), s # <<>>
    PROVE  /\ Len(s) \in Nat \ {0}
           /\ Head(s) = s[1] /\ s[1] \in UiEvent
           /\ Tail(s) \in Seq(UiEvent)
           /\ Len(Tail(s)) = Len(s) - 1
           /\ \A i \in 1 .. Len(s) - 1 : Tail(s)[i] = s[i + 1]
OBVIOUS

LEMMA Events ==
    ASSUME NEW k \in {"finished", "required", "ready", "deferred", "failed"},
           NEW t \in Tasks \cup {NoTask}
    PROVE  Event(k, t) \in UiEvent /\ Event(k, t).kind = k
BY DEF Event, UiEvent

\* No step of the start-up breaks the invariant.
LEMMA StartUpKeepsIInv ==
    IInv /\ StartUp => IInv'
<1> SUFFICES ASSUME IInv, StartUp PROVE IInv' OBVIOUS
<1> USE DEF IInv, Protocol, StartsAlone, BusyInside, RetryAlone, BatchHolds,
            VerHolds, TaskStatus, Terminal, Completed, Awaiting, CrawlResults
<1>1. CASE Launch
  <2>1. TypeOK'
    BY <1>1 DEF Launch, TypeOK
  <2>2. StartsAlone'
    BY <1>1 DEF Launch
  <2>3. /\ BusyInside' /\ OneFinished' /\ OneEnd' /\ RetryAlone'
         /\ BatchHolds' /\ VerHolds' /\ BatchCrawlable' /\ PendingIsNew'
         /\ ItemsSound' /\ AwaitingHasItem'
    BY <1>1
       DEF Launch, OneFinished, OneEnd, BatchCrawlable, PendingIsNew,
          ItemsSound, AwaitingHasItem
  <2> QED
    BY <2>1, <2>2, <2>3
<1>2. ASSUME NEW r \in Runs, PurgeItems(r) PROVE IInv'
  <2>1. TypeOK'
    <3>1. item' \in [Tasks -> Item]
      <4>1. item \in [Tasks -> Item]
        BY DEF TypeOK
      <4> QED
        BY <1>2, <4>1, ItemOps DEF PurgeItems, TasksOf
    <3> QED
      BY <1>2, <3>1 DEF PurgeItems, TasksOf, TypeOK
  <2>2. RetryAlone'
    BY <1>2 DEF PurgeItems, TasksOf, NoItem, TypeOK, Item
  <2>3. BatchHolds'
    BY <1>2 DEF PurgeItems, TasksOf, NoItem, TypeOK, Item
  <2>4. VerHolds'
    BY <1>2 DEF PurgeItems, TasksOf, NoItem, TypeOK, Item
  <2>5. BatchCrawlable'
    BY <1>2 DEF PurgeItems, TasksOf, NoItem, TypeOK, Item, BatchCrawlable
  <2>6. PendingIsNew'
    BY <1>2 DEF PurgeItems, TasksOf, NoItem, TypeOK, Item, PendingIsNew
  <2>7. ItemsSound'
    BY <1>2 DEF PurgeItems, TasksOf, NoItem, TypeOK, Item, ItemsSound
  <2>8. AwaitingHasItem'
    BY <1>2 DEF PurgeItems, TasksOf, NoItem, TypeOK, Item, AwaitingHasItem
  <2>9. StartsAlone' /\ BusyInside' /\ OneFinished' /\ OneEnd'
    BY <1>2 DEF PurgeItems, OneFinished, OneEnd
  <2> QED
    BY <2>1, <2>2, <2>3, <2>4, <2>5, <2>6, <2>7, <2>8, <2>9
<1>3. CASE PurgeFile
  <2>1. TypeOK'
    BY <1>3 DEF PurgeFile, TypeOK
  <2>2. AwaitingHasItem'
    BY <1>3 DEF PurgeFile, TypeOK, AwaitingHasItem
  <2>3. /\ StartsAlone' /\ BusyInside' /\ OneFinished' /\ OneEnd'
         /\ RetryAlone' /\ BatchHolds' /\ VerHolds' /\ BatchCrawlable'
         /\ PendingIsNew' /\ ItemsSound'
    BY <1>3
       DEF PurgeFile, OneFinished, OneEnd, BatchCrawlable, PendingIsNew,
          ItemsSound
  <2> QED
    BY <2>1, <2>2, <2>3
<1>4. CASE PurgeEnds
  <2>1. TypeOK'
    BY <1>4 DEF PurgeEnds, TypeOK
  <2>2. StartsAlone'
    BY <1>4 DEF PurgeEnds
  <2>3. /\ BusyInside' /\ OneFinished' /\ OneEnd' /\ RetryAlone'
         /\ BatchHolds' /\ VerHolds' /\ BatchCrawlable' /\ PendingIsNew'
         /\ ItemsSound' /\ AwaitingHasItem'
    BY <1>4
       DEF PurgeEnds, OneFinished, OneEnd, BatchCrawlable, PendingIsNew,
          ItemsSound, AwaitingHasItem
  <2> QED
    BY <2>1, <2>2, <2>3
<1>5. ASSUME NEW r \in Runs, RecoverRun(r) PROVE IInv'
  <2>1. TypeOK'
    BY <1>5 DEF RecoverRun, TasksOf, TypeOK
  <2>2. AwaitingHasItem'
    BY <1>5 DEF RecoverRun, TasksOf, TypeOK, AwaitingHasItem
  <2>3. /\ StartsAlone' /\ BusyInside' /\ OneFinished' /\ OneEnd'
         /\ RetryAlone' /\ BatchHolds' /\ VerHolds' /\ BatchCrawlable'
         /\ PendingIsNew' /\ ItemsSound'
    BY <1>5
       DEF RecoverRun, OneFinished, OneEnd, BatchCrawlable, PendingIsNew,
          ItemsSound
  <2> QED
    BY <2>1, <2>2, <2>3
<1>6. CASE TasksRecovered
  <2>1. TypeOK'
    BY <1>6 DEF TasksRecovered, TypeOK
  <2>2. StartsAlone'
    BY <1>6 DEF TasksRecovered
  <2>3. /\ BusyInside' /\ OneFinished' /\ OneEnd' /\ RetryAlone'
         /\ BatchHolds' /\ VerHolds' /\ BatchCrawlable' /\ PendingIsNew'
         /\ ItemsSound' /\ AwaitingHasItem'
    BY <1>6
       DEF TasksRecovered, OneFinished, OneEnd, BatchCrawlable, PendingIsNew,
          ItemsSound, AwaitingHasItem
  <2> QED
    BY <2>1, <2>2, <2>3
<1>7. CASE RecoverClaims
  <2>1. TypeOK'
    <3>1. item' \in [Tasks -> Item]
      <4>1. item \in [Tasks -> Item]
        BY DEF TypeOK
      <4> QED
        BY <1>7, <4>1, ItemOps DEF RecoverClaims
    <3> QED
      BY <1>7, <3>1 DEF RecoverClaims, TypeOK
  <2>2. StartsAlone'
    BY <1>7 DEF RecoverClaims
  <2>3. RetryAlone'
    BY <1>7 DEF RecoverClaims, Unclaimed, Ready, TypeOK, Item
  <2>4. BatchHolds'
    BY <1>7 DEF RecoverClaims, Unclaimed, Ready, TypeOK, Item
  <2>5. VerHolds'
    BY <1>7 DEF RecoverClaims, Unclaimed, Ready, TypeOK, Item
  <2>6. BatchCrawlable'
    BY <1>7 DEF RecoverClaims, Unclaimed, Ready, TypeOK, Item, BatchCrawlable
  <2>7. PendingIsNew'
    BY <1>7 DEF RecoverClaims, Unclaimed, Ready, TypeOK, Item, PendingIsNew
  <2>8. ItemsSound'
    BY <1>7 DEF RecoverClaims, Unclaimed, Ready, TypeOK, Item, ItemsSound
  <2>9. AwaitingHasItem'
    BY <1>7 DEF RecoverClaims, Unclaimed, Ready, TypeOK, Item, AwaitingHasItem
  <2>10. BusyInside' /\ OneFinished' /\ OneEnd'
    BY <1>7 DEF RecoverClaims, OneFinished, OneEnd
  <2> QED
    BY <2>1, <2>2, <2>3, <2>4, <2>5, <2>6, <2>7, <2>8, <2>9, <2>10
<1>8. ASSUME NEW t \in Tasks, ReconcileItem(t) PROVE IInv'
  <2>1. TypeOK'
    <3>1. item' \in [Tasks -> Item]
      <4>1. item \in [Tasks -> Item] /\ item[t] \in Item
        BY DEF TypeOK
      <4>2. \/ item' = [item EXCEPT ![t] = Failed(item[t])]
            \/ item' = [item EXCEPT ![t] = NoItem]
        BY <1>8 DEF ReconcileItem
      <4> QED
        BY <4>1, <4>2, ItemOps
    <3> QED
      BY <1>8, <3>1
         DEF ReconcileItem, Orphaned, CanMarkFailed, Disowned, Leftover,
            TypeOK
  <2>2. RetryAlone'
    BY <1>8
       DEF ReconcileItem, Orphaned, CanMarkFailed, Disowned, Failed, Leftover,
          NoItem, TypeOK, Item
  <2>3. BatchHolds'
    BY <1>8
       DEF ReconcileItem, Orphaned, CanMarkFailed, Disowned, Failed, Leftover,
          NoItem, TypeOK, Item
  <2>4. VerHolds'
    BY <1>8
       DEF ReconcileItem, Orphaned, CanMarkFailed, Disowned, Failed, Leftover,
          NoItem, TypeOK, Item
  <2>5. BatchCrawlable'
    BY <1>8
       DEF ReconcileItem, Orphaned, CanMarkFailed, Disowned, Failed, Leftover,
          NoItem, TypeOK, Item, BatchCrawlable
  <2>6. PendingIsNew'
    BY <1>8
       DEF ReconcileItem, Orphaned, CanMarkFailed, Disowned, Failed, Leftover,
          NoItem, TypeOK, Item, PendingIsNew
  <2>7. ItemsSound'
    BY <1>8
       DEF ReconcileItem, Orphaned, CanMarkFailed, Disowned, Failed, Leftover,
          NoItem, TypeOK, Item, ItemsSound
  <2>8. AwaitingHasItem'
    BY <1>8
       DEF ReconcileItem, Orphaned, CanMarkFailed, Disowned, Failed, Leftover,
          NoItem, TypeOK, Item, AwaitingHasItem
  <2>9. StartsAlone' /\ BusyInside' /\ OneFinished' /\ OneEnd'
    BY <1>8 DEF ReconcileItem, OneFinished, OneEnd
  <2> QED
    BY <2>1, <2>2, <2>3, <2>4, <2>5, <2>6, <2>7, <2>8, <2>9
<1>9. CASE ItemsReconciled
  <2>1. TypeOK'
    BY <1>9
       DEF ItemsReconciled, Orphaned, CanMarkFailed, Disowned, Leftover,
          TypeOK
  <2>2. StartsAlone'
    BY <1>9 DEF ItemsReconciled
  <2>3. /\ BusyInside' /\ OneFinished' /\ OneEnd' /\ RetryAlone'
         /\ BatchHolds' /\ VerHolds' /\ BatchCrawlable' /\ PendingIsNew'
         /\ ItemsSound' /\ AwaitingHasItem'
    BY <1>9
       DEF ItemsReconciled, OneFinished, OneEnd, BatchCrawlable, PendingIsNew,
          ItemsSound, AwaitingHasItem
  <2> QED
    BY <2>1, <2>2, <2>3
<1>10. ASSUME NEW r \in Runs, SaveReconciled(r) PROVE IInv'
  <2>1. TypeOK'
    <3>1. ASSUME NEW t \in Tasks PROVE Reconciled(t) \in TaskStatus \cup {"absent"}
      BY DEF Reconciled, TypeOK, Item, QueueStatus
    <3>2. store' \in [Tasks -> TaskStatus \cup {"absent"}]
      BY <1>10, <3>1 DEF SaveReconciled, TypeOK
    <3> QED
      BY <1>10, <3>2 DEF SaveReconciled, TypeOK
  <2>2. AwaitingHasItem'
    BY <1>10 DEF SaveReconciled, TasksOf, Reconciled, TypeOK, AwaitingHasItem
  <2>3. /\ StartsAlone' /\ BusyInside' /\ OneFinished' /\ OneEnd'
         /\ RetryAlone' /\ BatchHolds' /\ VerHolds' /\ BatchCrawlable'
         /\ PendingIsNew' /\ ItemsSound'
    BY <1>10
       DEF SaveReconciled, OneFinished, OneEnd, BatchCrawlable, PendingIsNew,
          ItemsSound
  <2> QED
    BY <2>1, <2>2, <2>3
<1>11. CASE RecoveryEnds
  <2>1. TypeOK'
    BY <1>11 DEF RecoveryEnds, Reconciled, Loaded, TasksOf, TypeOK
  <2>2. StartsAlone'
    BY <1>11 DEF RecoveryEnds
  <2>3. PendingIsNew'
    <3> SUFFICES ASSUME NEW t \in Tasks, t \in Loaded, store[t] = "pending", HasItem(t)
                 PROVE  FALSE
      BY <1>11 DEF RecoveryEnds, PendingIsNew, Loaded
    <3>1. Reconciled(t) = item[t].status
      BY DEF Reconciled
    <3>2. Reconciled(t) = "pending"
      BY <1>11 DEF RecoveryEnds
    <3>3. item[t].status \in QueueStatus
      BY DEF TypeOK, Item
    <3> QED
      BY <3>1, <3>2, <3>3 DEF QueueStatus
  <2>4. /\ BusyInside' /\ OneFinished' /\ OneEnd' /\ RetryAlone'
         /\ BatchHolds' /\ VerHolds' /\ BatchCrawlable' /\ ItemsSound'
         /\ AwaitingHasItem'
    BY <1>11
       DEF RecoveryEnds, OneFinished, OneEnd, BatchCrawlable, ItemsSound,
          AwaitingHasItem
  <2> QED
    BY <2>1, <2>2, <2>3, <2>4
<1>12. CASE RecoveryAborts
  <2>1. TypeOK'
    BY <1>12 DEF RecoveryAborts, TypeOK
  <2>2. StartsAlone'
    BY <1>12 DEF RecoveryAborts
  <2>3. /\ BusyInside' /\ OneFinished' /\ OneEnd' /\ RetryAlone'
         /\ BatchHolds' /\ VerHolds' /\ BatchCrawlable' /\ PendingIsNew'
         /\ ItemsSound' /\ AwaitingHasItem'
    BY <1>12
       DEF RecoveryAborts, OneFinished, OneEnd, BatchCrawlable, PendingIsNew,
          ItemsSound, AwaitingHasItem
  <2> QED
    BY <2>1, <2>2, <2>3
<1> QED
  BY <1>1, <1>2, <1>3, <1>4, <1>5, <1>6, <1>7, <1>8, <1>9, <1>10, <1>11, <1>12
     DEF StartUp

\* No command of the user breaks the invariant.
LEMMA UserKeepsIInv ==
    IInv /\ User => IInv'
<1> SUFFICES ASSUME IInv, User PROVE IInv' OBVIOUS
<1> USE DEF IInv, Protocol, StartsAlone, BusyInside, RetryAlone, BatchHolds,
            VerHolds, TaskStatus, Terminal, Completed, Awaiting, CrawlResults
<1>1. CASE Prepare
  <2>1. TypeOK'
    BY <1>1 DEF Prepare, TypeOK
  <2>2. PendingIsNew'
    BY <1>1 DEF Prepare, TypeOK, PendingIsNew
  <2>3. /\ StartsAlone' /\ BusyInside' /\ OneFinished' /\ OneEnd'
         /\ RetryAlone' /\ BatchHolds' /\ VerHolds' /\ BatchCrawlable'
         /\ ItemsSound' /\ AwaitingHasItem'
    BY <1>1
       DEF Prepare, OneFinished, OneEnd, BatchCrawlable, ItemsSound,
          AwaitingHasItem
  <2> QED
    BY <2>1, <2>2, <2>3
<1>2. CASE StopAfterCurrent
  <2>1. TypeOK'
    BY <1>2 DEF StopAfterCurrent, TypeOK
  <2>2. /\ StartsAlone' /\ BusyInside' /\ OneFinished' /\ OneEnd'
         /\ RetryAlone' /\ BatchHolds' /\ VerHolds' /\ BatchCrawlable'
         /\ PendingIsNew' /\ ItemsSound' /\ AwaitingHasItem'
    BY <1>2
       DEF StopAfterCurrent, OneFinished, OneEnd, BatchCrawlable,
          PendingIsNew, ItemsSound, AwaitingHasItem
  <2> QED
    BY <2>1, <2>2
<1>3. ASSUME NEW r \in Runs, NewBatch(r) PROVE IInv'
  <2>1. TypeOK'
    <3>1. batch' \in BatchState
      <4>1. TasksOf(r) \in SUBSET Tasks
        BY DEF TasksOf
      <4>2. [IdleBatch EXCEPT !.pc = "next", !.todo = TasksOf(r), !.resuming = NoTask]
               \in BatchState
        BY <4>1, BatchStarts
      <4>3. batch \in BatchState
        BY DEF TypeOK
      <4> QED
        BY <1>3, <4>2, <4>3 DEF NewBatch, StartWorker
    <3> QED
      BY <1>3, <3>1 DEF NewBatch, TasksOf, StartWorker, LaunchRefused, TypeOK
  <2>2. StartsAlone'
    BY <1>3 DEF NewBatch, StartWorker, LaunchRefused, IdleBatch
  <2>3. BusyInside'
    BY <1>3
       DEF NewBatch, StartWorker, LaunchRefused, IdleBatch, OneFinished,
          OneEnd
  <2>4. OneFinished'
    BY <1>3 DEF NewBatch, StartWorker, LaunchRefused, IdleBatch, OneFinished
  <2>5. RetryAlone'
    BY <1>3
       DEF NewBatch, TasksOf, StartWorker, LaunchRefused, IdleBatch, TypeOK
  <2>6. BatchHolds'
    BY <1>3
       DEF NewBatch, TasksOf, StartWorker, LaunchRefused, IdleBatch, TypeOK
  <2>7. BatchCrawlable'
    BY <1>3
       DEF NewBatch, TasksOf, StartWorker, LaunchRefused, IdleBatch, TypeOK,
          PendingIsNew, BatchCrawlable
  <2>8. PendingIsNew'
    BY <1>3
       DEF NewBatch, TasksOf, StartWorker, LaunchRefused, IdleBatch, TypeOK,
          PendingIsNew
  <2>9. AwaitingHasItem'
    BY <1>3
       DEF NewBatch, TasksOf, StartWorker, LaunchRefused, IdleBatch, TypeOK,
          AwaitingHasItem
  <2>10. OneEnd' /\ VerHolds' /\ ItemsSound'
    BY <1>3 DEF NewBatch, OneEnd, ItemsSound
  <2> QED
    BY <2>1, <2>2, <2>3, <2>4, <2>5, <2>6, <2>7, <2>8, <2>9, <2>10
<1>4. ASSUME NEW t \in Tasks, StartPending(t) PROVE IInv'
  <2>1. TypeOK'
    <3>1. batch' \in BatchState
      BY <1>4, IdleStates DEF StartPending, StartWorker, BatchState, TypeOK
    <3> QED
      BY <1>4, <3>1 DEF StartPending, StartWorker, TypeOK
  <2>2. StartsAlone'
    BY <1>4 DEF StartPending, StartWorker, IdleBatch
  <2>3. BusyInside'
    BY <1>4 DEF StartPending, StartWorker, IdleBatch, OneFinished, OneEnd
  <2>4. OneFinished'
    BY <1>4 DEF StartPending, StartWorker, IdleBatch, OneFinished
  <2>5. RetryAlone'
    BY <1>4 DEF StartPending, StartWorker, IdleBatch, TypeOK
  <2>6. BatchHolds'
    BY <1>4 DEF StartPending, StartWorker, IdleBatch, TypeOK
  <2>7. BatchCrawlable'
    BY <1>4
       DEF StartPending, StartWorker, IdleBatch, TypeOK, PendingIsNew,
          BatchCrawlable
  <2>8. /\ OneEnd' /\ VerHolds' /\ PendingIsNew' /\ ItemsSound'
         /\ AwaitingHasItem'
    BY <1>4
       DEF StartPending, OneEnd, PendingIsNew, ItemsSound, AwaitingHasItem
  <2> QED
    BY <2>1, <2>2, <2>3, <2>4, <2>5, <2>6, <2>7, <2>8
<1>5. ASSUME NEW t \in Tasks, Resume(t) PROVE IInv'
  <2>1. TypeOK'
    <3>1. item' \in [Tasks -> Item]
      <4>1. item \in [Tasks -> Item]
        BY DEF TypeOK
      <4> QED
        BY <1>5, <4>1, ItemOps
           DEF Resume, CanBeginResume, StartWorker, LaunchRefused
    <3>2. batch' \in BatchState
      <4>1. [IdleBatch EXCEPT !.pc = "next", !.todo = {t}, !.resuming = t] \in BatchState
        BY BatchStarts
      <4>2. batch \in BatchState
        BY DEF TypeOK
      <4> QED
        BY <1>5, <4>1, <4>2 DEF Resume, StartWorker
    <3> QED
      BY <1>5, <3>1, <3>2
         DEF Resume, CanBeginResume, StartWorker, LaunchRefused, TypeOK
  <2>2. StartsAlone'
    BY <1>5 DEF Resume, StartWorker, LaunchRefused, IdleBatch
  <2>3. BusyInside'
    BY <1>5
       DEF Resume, StartWorker, LaunchRefused, IdleBatch, OneFinished, OneEnd
  <2>4. OneFinished'
    BY <1>5 DEF Resume, StartWorker, LaunchRefused, IdleBatch, OneFinished
  <2>5. RetryAlone'
    BY <1>5
       DEF Resume, CanBeginResume, Claimed, StartWorker, LaunchRefused,
          IdleBatch, TypeOK, Item
  <2>6. BatchHolds'
    <3>1. CASE StartWorker({t}, t)
      BY <1>5, <3>1 DEF Resume, StartWorker, IdleBatch
    <3>2. CASE UNCHANGED batch
      <4>1. ~BatchInside
        BY <1>5 DEF Resume
      <4> QED
        BY <3>2, <4>1
    <3> QED
      BY <1>5, <3>1, <3>2 DEF Resume
  <2>7. VerHolds'
    BY <1>5
       DEF Resume, CanBeginResume, Claimed, StartWorker, LaunchRefused,
          IdleBatch, TypeOK, Item
  <2>8. BatchCrawlable'
    <3>1. item'[t].status = "fetching"
      BY <1>5 DEF Resume, Claimed, TypeOK, Item
    <3>2. CASE StartWorker({t}, t)
      BY <3>1, <3>2 DEF StartWorker, IdleBatch, BatchCrawlable
    <3>3. CASE UNCHANGED batch
      <4>1. ~BatchInside /\ batch.todo = {}
        BY <1>5 DEF Resume
      <4> QED
        BY <3>3, <4>1 DEF BatchCrawlable
    <3> QED
      BY <1>5, <3>2, <3>3 DEF Resume
  <2>9. PendingIsNew'
    BY <1>5
       DEF Resume, CanBeginResume, Claimed, StartWorker, LaunchRefused,
          IdleBatch, TypeOK, Item, PendingIsNew
  <2>10. ItemsSound'
    BY <1>5
       DEF Resume, CanBeginResume, Claimed, StartWorker, LaunchRefused,
          IdleBatch, TypeOK, Item, ItemsSound
  <2>11. AwaitingHasItem'
    BY <1>5
       DEF Resume, CanBeginResume, Claimed, StartWorker, LaunchRefused,
          IdleBatch, TypeOK, Item, AwaitingHasItem
  <2>12. OneEnd'
    BY <1>5 DEF Resume, OneEnd
  <2> QED
    BY <2>1, <2>2, <2>3, <2>4, <2>5, <2>6, <2>7, <2>8, <2>9, <2>10, <2>11,
       <2>12
<1>6. ASSUME NEW t \in Tasks, RetryFailed(t) PROVE IInv'
  <2>1. TypeOK'
    <3>1. item' \in [Tasks -> Item]
      <4>1. item \in [Tasks -> Item]
        BY DEF TypeOK
      <4> QED
        BY <1>6, <4>1, ItemOps DEF RetryFailed, CanRetry
    <3> QED
      BY <1>6, <3>1 DEF RetryFailed, CanRetry, TypeOK
  <2>2. StartsAlone'
    BY <1>6 DEF RetryFailed
  <2>3. RetryAlone'
    BY <1>6 DEF RetryFailed, CanRetry, Retried, TypeOK, Item
  <2>4. BatchHolds'
    BY <1>6 DEF RetryFailed, CanRetry, Retried, TypeOK, Item
  <2>5. VerHolds'
    BY <1>6 DEF RetryFailed, CanRetry, Retried, TypeOK, Item
  <2>6. BatchCrawlable'
    BY <1>6 DEF RetryFailed, CanRetry, Retried, TypeOK, Item, BatchCrawlable
  <2>7. PendingIsNew'
    BY <1>6 DEF RetryFailed, CanRetry, Retried, TypeOK, Item, PendingIsNew
  <2>8. ItemsSound'
    BY <1>6 DEF RetryFailed, CanRetry, Retried, TypeOK, Item, ItemsSound
  <2>9. AwaitingHasItem'
    BY <1>6 DEF RetryFailed, CanRetry, Retried, TypeOK, Item, AwaitingHasItem
  <2>10. BusyInside' /\ OneFinished' /\ OneEnd'
    BY <1>6 DEF RetryFailed, OneFinished, OneEnd
  <2> QED
    BY <2>1, <2>2, <2>3, <2>4, <2>5, <2>6, <2>7, <2>8, <2>9, <2>10
<1>7. ASSUME NEW t \in Tasks, StartVerification(t) PROVE IInv'
  <2>1. TypeOK'
    <3>1. ver' \in VerState
      BY <1>7, IdleStates DEF StartVerification, IsPending, VerState, TypeOK
    <3> QED
      BY <1>7, <3>1 DEF StartVerification, IsPending, TypeOK
  <2>2. StartsAlone'
    BY <1>7 DEF StartVerification, IsPending
  <2>3. BusyInside'
    BY <1>7 DEF StartVerification, IsPending, OneFinished, OneEnd
  <2>4. OneEnd'
    BY <1>7 DEF StartVerification, IsPending, OneEnd
  <2>5. RetryAlone'
    BY <1>7 DEF StartVerification, IsPending, TypeOK
  <2>6. VerHolds'
    BY <1>7 DEF StartVerification, IsPending, TypeOK
  <2>7. /\ OneFinished' /\ BatchHolds' /\ BatchCrawlable' /\ PendingIsNew'
         /\ ItemsSound' /\ AwaitingHasItem'
    BY <1>7
       DEF StartVerification, OneFinished, BatchCrawlable, PendingIsNew,
          ItemsSound, AwaitingHasItem
  <2> QED
    BY <2>1, <2>2, <2>3, <2>4, <2>5, <2>6, <2>7
<1> QED
  BY <1>1, <1>2, <1>3, <1>4, <1>5, <1>6, <1>7 DEF User

\* No step of the event pump breaks the invariant.
LEMMA PumpKeepsIInv ==
    IInv /\ Pump => IInv'
<1> SUFFICES ASSUME IInv, Pump PROVE IInv' OBVIOUS
<1> USE DEF IInv, Protocol, StartsAlone, BusyInside, RetryAlone, BatchHolds,
            VerHolds, TaskStatus, Terminal, Completed, Awaiting, CrawlResults
<1>1. CASE RetryRecorded
  <2>1. TypeOK'
    BY <1>1 DEF RetryRecorded, TypeOK
  <2>2. StartsAlone'
    BY <1>1 DEF RetryRecorded
  <2>3. RetryAlone'
    BY <1>1 DEF RetryRecorded, TypeOK
  <2>4. PendingIsNew'
    BY <1>1 DEF RetryRecorded, TypeOK, PendingIsNew
  <2>5. AwaitingHasItem'
    BY <1>1 DEF RetryRecorded, TypeOK, AwaitingHasItem
  <2>6. /\ BusyInside' /\ OneFinished' /\ OneEnd' /\ BatchHolds'
         /\ VerHolds' /\ BatchCrawlable' /\ ItemsSound'
    BY <1>1 DEF RetryRecorded, OneFinished, OneEnd, BatchCrawlable, ItemsSound
  <2> QED
    BY <2>1, <2>2, <2>3, <2>4, <2>5, <2>6
<1>2. CASE HandleEvent
  <2>1. TypeOK'
    <3>1. events' \in Seq(UiEvent)
      BY <1>2, IdleStates
         DEF HandleEvent, ShownStatus, UiEvent, VerState, BatchState, TypeOK
    <3> QED
      BY <1>2, <3>1 DEF HandleEvent, ShownStatus, TypeOK
  <2>2. StartsAlone'
    BY <1>2 DEF HandleEvent, ShownStatus
  <2>3. BusyInside'
    <3>1. events \in Seq(UiEvent) /\ events # <<>> /\ events' = Tail(events)
      BY <1>2 DEF HandleEvent, TypeOK
    <3>2. /\ Len(events) \in Nat \ {0} /\ Head(events) = events[1]
          /\ Len(events') = Len(events) - 1
          /\ \A i \in 1 .. Len(events) - 1 : events'[i] = events[i + 1]
      BY <3>1, Taking

    <3>3. CASE events[1].kind = "finished"
      <4>1. ~BatchInside
        BY <3>2, <3>3 DEF OneFinished
      <4> QED
        BY <1>2, <3>2, <3>3, <4>1 DEF HandleEvent
    <3>4. CASE events[1].kind \in EndKinds
      <4>1. ~VerInside
        BY <3>2, <3>4 DEF OneEnd
      <4> QED
        BY <1>2, <3>2, <3>4, <4>1 DEF HandleEvent
    <3>5. CASE events[1].kind = "required"
      BY <1>2, <3>2, <3>5 DEF HandleEvent
    <3>6. events[1].kind \in {"finished", "required"} \cup EndKinds
      BY <3>1, Taking DEF UiEvent
    <3> QED
      BY <3>3, <3>4, <3>5, <3>6
  <2>4. OneFinished'
    <3>1. events \in Seq(UiEvent) /\ events # <<>> /\ events' = Tail(events)
      BY <1>2 DEF HandleEvent, TypeOK
    <3>2. /\ Len(events) \in Nat \ {0} /\ Head(events) = events[1]
          /\ Len(events') = Len(events) - 1
          /\ \A i \in 1 .. Len(events) - 1 : events'[i] = events[i + 1]
      BY <3>1, Taking

    <3> SUFFICES ASSUME NEW i \in 1 .. Len(events'), events'[i].kind = "finished"
                 PROVE  /\ running' /\ ~BatchInside
                        /\ \A j \in 1 .. Len(events') :
                              events'[j].kind = "finished" => j = i
      BY <1>2 DEF HandleEvent, OneFinished
    <3>3. i + 1 \in 1 .. Len(events) /\ events[i + 1].kind = "finished"
      BY <3>2
    <3>4. /\ running /\ ~BatchInside
          /\ \A j \in 1 .. Len(events) : events[j].kind = "finished" => j = i + 1
      BY <3>3 DEF OneFinished
    <3>5. events[1].kind # "finished"
      BY <3>2, <3>4
    <3>6. ASSUME NEW j \in 1 .. Len(events'), events'[j].kind = "finished" PROVE j = i
      <4>1. j + 1 \in 1 .. Len(events) /\ events[j + 1].kind = "finished"
        BY <3>2, <3>6
      <4>2. j + 1 = i + 1
        BY <3>4, <4>1
      <4> QED
        BY <4>2
    <3> QED
      BY <1>2, <3>2, <3>4, <3>5, <3>6 DEF HandleEvent
  <2>5. OneEnd'
    <3>1. events \in Seq(UiEvent) /\ events # <<>> /\ events' = Tail(events)
      BY <1>2 DEF HandleEvent, TypeOK
    <3>2. /\ Len(events) \in Nat \ {0} /\ Head(events) = events[1]
          /\ Len(events') = Len(events) - 1
          /\ \A i \in 1 .. Len(events) - 1 : events'[i] = events[i + 1]
      BY <3>1, Taking

    <3> SUFFICES ASSUME NEW i \in 1 .. Len(events'), events'[i].kind \in EndKinds
                 PROVE  /\ verifying' /\ ~VerInside
                        /\ \A j \in 1 .. Len(events') :
                              events'[j].kind \in EndKinds => j = i
      BY <1>2 DEF HandleEvent, OneEnd
    <3>3. i + 1 \in 1 .. Len(events) /\ events[i + 1].kind \in EndKinds
      BY <3>2
    <3>4. /\ verifying /\ ~VerInside
          /\ \A j \in 1 .. Len(events) : events[j].kind \in EndKinds => j = i + 1
      BY <3>3 DEF OneEnd
    <3>5. events[1].kind \notin EndKinds
      BY <3>2, <3>4
    <3>6. events[1].kind \in {"finished", "required"} \cup EndKinds
      BY <3>1, Taking DEF UiEvent
    <3>7. ASSUME NEW j \in 1 .. Len(events'), events'[j].kind \in EndKinds PROVE j = i
      <4>1. j + 1 \in 1 .. Len(events) /\ events[j + 1].kind \in EndKinds
        BY <3>2, <3>7
      <4>2. j + 1 = i + 1
        BY <3>4, <4>1
      <4> QED
        BY <4>2
    <3> QED
      BY <1>2, <3>2, <3>4, <3>5, <3>6, <3>7 DEF HandleEvent
  <2>6. RetryAlone'
    BY <1>2 DEF HandleEvent, ShownStatus, TypeOK
  <2>7. PendingIsNew'
    BY <1>2 DEF HandleEvent, ShownStatus, TypeOK, PendingIsNew
  <2>8. /\ BatchHolds' /\ VerHolds' /\ BatchCrawlable' /\ ItemsSound'
         /\ AwaitingHasItem'
    BY <1>2 DEF HandleEvent, BatchCrawlable, ItemsSound, AwaitingHasItem
  <2> QED
    BY <2>1, <2>2, <2>3, <2>4, <2>5, <2>6, <2>7, <2>8
<1> QED
  BY <1>1, <1>2 DEF Pump

\* No step of the batch worker breaks the invariant.
LEMMA BatchKeepsIInv ==
    IInv /\ BatchStep => IInv'
<1> SUFFICES ASSUME IInv, BatchStep PROVE IInv' OBVIOUS
<1> USE DEF IInv, Protocol, StartsAlone, BusyInside, RetryAlone, BatchHolds,
            VerHolds, TaskStatus, Terminal, Completed, Awaiting, CrawlResults
<1>1. ASSUME NEW t \in Tasks, BatchCancels(t) PROVE IInv'
  <2>1. TypeOK'
    <3>1. batch' \in BatchState
      <4>1. batch \in BatchState
        BY DEF TypeOK

      <4> QED
        BY <1>1, <4>1, BatchMoves DEF BatchCancels, Persist, Aborted, TaskStatus
    <3> QED
      BY <1>1, <3>1, SMTT(30) DEF BatchCancels, Persist, Aborted, TypeOK
  <2>2. StartsAlone'
    BY <1>1 DEF BatchCancels, Persist, Aborted
  <2>3. BusyInside'
    BY <1>1 DEF BatchCancels, Persist, Aborted, OneFinished, OneEnd
  <2>4. OneFinished'
    BY <1>1 DEF BatchCancels, Persist, Aborted, OneFinished
  <2>5. BatchHolds'
    <3>1. batch \in BatchState
      BY DEF TypeOK
    <3>2. CASE batch' = Aborted
      BY <1>1, <3>1, <3>2 DEF BatchCancels, Aborted, BatchState
    <3>3. CASE batch' = [batch EXCEPT !.todo = @ \ {t}]
      BY <1>1, <3>1, <3>3 DEF BatchCancels, BatchState
    <3> QED
      BY <1>1, <3>2, <3>3 DEF BatchCancels, Persist
  <2>6. BatchCrawlable'
    <3>1. batch \in BatchState
      BY DEF TypeOK
    <3>2. batch'.todo \subseteq batch.todo /\ batch'.pc # "crawl"
      BY <1>1, <3>1 DEF BatchCancels, Persist, Aborted, BatchState
    <3> QED
      BY <1>1, <3>2 DEF BatchCancels, BatchCrawlable
  <2>7. PendingIsNew'
    BY <1>1 DEF BatchCancels, Persist, Aborted, TypeOK, PendingIsNew
  <2>8. AwaitingHasItem'
    BY <1>1 DEF BatchCancels, Persist, Aborted, TypeOK, AwaitingHasItem
  <2>9. OneEnd' /\ RetryAlone' /\ VerHolds' /\ ItemsSound'
    BY <1>1 DEF BatchCancels, Persist, OneEnd, ItemsSound
  <2> QED
    BY <2>1, <2>2, <2>3, <2>4, <2>5, <2>6, <2>7, <2>8, <2>9
<1>2. ASSUME NEW t \in Tasks, BatchTakes(t) PROVE IInv'
  <2>1. TypeOK'
    <3>1. batch' \in BatchState
      <4>1. batch \in BatchState
        BY DEF TypeOK

      <4> QED
        BY <1>2, <4>1, BatchMoves, ZenonT(60) DEF BatchTakes, Persist, Aborted, TaskStatus
    <3> QED
      BY <1>2, <3>1, SMTT(30) DEF BatchTakes, Persist, Aborted, TypeOK
  <2>2. StartsAlone'
    BY <1>2 DEF BatchTakes, Persist, Aborted
  <2>3. BusyInside'
    BY <1>2 DEF BatchTakes, Persist, Aborted, OneFinished, OneEnd
  <2>4. OneFinished'
    BY <1>2 DEF BatchTakes, Persist, Aborted, OneFinished
  <2>5. BatchHolds'
    <3>1. batch \in BatchState
      BY DEF TypeOK
    <3>2. CASE batch' = Aborted
      BY <1>2, <3>1, <3>2 DEF BatchTakes, Aborted, BatchState
    <3>3. CASE batch' = [batch EXCEPT !.pc = "crawl", !.cur = t, !.todo = @ \ {t}]
      BY <1>2, <3>1, <3>3 DEF BatchTakes, BatchState
    <3> QED
      BY <1>2, <3>2, <3>3 DEF BatchTakes, Persist
  <2>6. BatchCrawlable'
    <3>1. batch \in BatchState
      BY DEF TypeOK
    <3>2. CASE batch' = Aborted
      BY <1>2, <3>1, <3>2 DEF BatchTakes, Aborted, BatchState, BatchCrawlable
    <3>3. CASE batch' = [batch EXCEPT !.pc = "crawl", !.cur = t, !.todo = @ \ {t}]
      <4>1. batch'.todo = batch.todo \ {t} /\ batch'.cur = t
        BY <3>1, <3>3 DEF BatchState
      <4> QED
        BY <1>2, <4>1 DEF BatchTakes, BatchCrawlable
    <3> QED
      BY <1>2, <3>2, <3>3 DEF BatchTakes, Persist
  <2>7. PendingIsNew'
    BY <1>2 DEF BatchTakes, Persist, Aborted, TypeOK, PendingIsNew
  <2>8. AwaitingHasItem'
    BY <1>2 DEF BatchTakes, Persist, Aborted, TypeOK, AwaitingHasItem
  <2>9. OneEnd' /\ RetryAlone' /\ VerHolds' /\ ItemsSound'
    BY <1>2 DEF BatchTakes, Persist, OneEnd, ItemsSound
  <2> QED
    BY <2>1, <2>2, <2>3, <2>4, <2>5, <2>6, <2>7, <2>8, <2>9
<1>3. ASSUME NEW result \in CrawlResults, BatchCrawls(result) PROVE IInv'
  <2>1. TypeOK'
    <3>1. batch \in BatchState /\ batch.cur \in Tasks /\ result \in TaskStatus
      BY <1>3 DEF BatchCrawls, TypeOK
    <3>2. /\ [batch EXCEPT !.pc = "enqueue"] \in BatchState
          /\ [batch EXCEPT !.pc = "persist", !.result = result] \in BatchState
      BY <3>1, BatchMoves
    <3>3. batch' \in BatchState
      BY <1>3, <3>2 DEF BatchCrawls
    <3>4. ui' \in [Tasks -> TaskStatus \cup {"none", "running"}]
      BY <1>3, <3>1 DEF BatchCrawls, TypeOK
    <3> QED
      BY <1>3, <3>3, <3>4 DEF BatchCrawls, TypeOK
  <2>2. StartsAlone'
    BY <1>3 DEF BatchCrawls
  <2>3. BusyInside'
    BY <1>3 DEF BatchCrawls, OneFinished, OneEnd
  <2>4. OneFinished'
    BY <1>3 DEF BatchCrawls, OneFinished
  <2>5. BatchHolds'
    <3>1. batch \in BatchState /\ result \in CrawlResults
      BY <1>3 DEF BatchCrawls, TypeOK
    <3>2. CASE batch' = [batch EXCEPT !.pc = "enqueue"]
      BY <1>3, <3>1, <3>2 DEF BatchCrawls, BatchState
    <3>3. CASE /\ result # "verification_required"
               /\ batch' = [batch EXCEPT !.pc = "persist", !.result = result]
      <4>1. /\ batch'.pc = "persist" /\ batch'.result = result
            /\ batch'.cur = batch.cur /\ batch'.todo = batch.todo
        BY <3>1, <3>3 DEF BatchState
      <4>2. batch.cur \in Tasks /\ batch.cur \notin batch.todo
        BY <1>3 DEF BatchCrawls
      <4> QED
        BY <3>1, <3>3, <4>1, <4>2
    <3> QED
      BY <1>3, <3>2, <3>3 DEF BatchCrawls
  <2>6. BatchCrawlable'
    <3>1. batch \in BatchState
      BY DEF TypeOK
    <3>2. batch'.todo = batch.todo /\ batch'.pc # "crawl"
      BY <1>3, <3>1 DEF BatchCrawls, BatchState
    <3> QED
      BY <1>3, <3>2 DEF BatchCrawls, BatchCrawlable
  <2>7. PendingIsNew'
    <3>1. batch.cur \in Tasks /\ ui \in [Tasks -> TaskStatus \cup {"none", "running"}]
      BY <1>3 DEF BatchCrawls, TypeOK
    <3>2. \A t \in Tasks : ui'[t] = "pending" => ui[t] = "pending"
      BY <1>3, <3>1 DEF BatchCrawls
    <3> QED
      BY <1>3, <3>2 DEF BatchCrawls, PendingIsNew, TypeOK
  <2>8. /\ OneEnd' /\ RetryAlone' /\ VerHolds' /\ ItemsSound'
         /\ AwaitingHasItem'
    BY <1>3 DEF BatchCrawls, OneEnd, ItemsSound, AwaitingHasItem
  <2> QED
    BY <2>1, <2>2, <2>3, <2>4, <2>5, <2>6, <2>7, <2>8
<1>4. CASE BatchEnqueues
  <2>1. TypeOK'
    <3>1. item' \in [Tasks -> Item]
      <4>1. item \in [Tasks -> Item]
        BY DEF TypeOK
      <4> QED
        BY <1>4, <4>1, ItemOps DEF BatchEnqueues, CanEnqueue
    <3>2. batch' \in BatchState
      BY <1>4, IdleStates DEF BatchEnqueues, CanEnqueue, BatchState, TypeOK
    <3> QED
      BY <1>4, <3>1, <3>2 DEF BatchEnqueues, CanEnqueue, TypeOK
  <2>2. StartsAlone'
    BY <1>4 DEF BatchEnqueues
  <2>3. BusyInside'
    BY <1>4 DEF BatchEnqueues, OneFinished, OneEnd
  <2>4. OneFinished'
    BY <1>4 DEF BatchEnqueues, OneFinished
  <2>5. RetryAlone'
    BY <1>4 DEF BatchEnqueues, CanEnqueue, Enqueued, TypeOK, Item
  <2>6. BatchHolds'
    BY <1>4 DEF BatchEnqueues, CanEnqueue, Enqueued, TypeOK, Item
  <2>7. VerHolds'
    BY <1>4 DEF BatchEnqueues, CanEnqueue, Enqueued, TypeOK, Item
  <2>8. BatchCrawlable'
    BY <1>4
       DEF BatchEnqueues, CanEnqueue, Enqueued, TypeOK, Item, BatchCrawlable
  <2>9. PendingIsNew'
    BY <1>4
       DEF BatchEnqueues, CanEnqueue, Enqueued, TypeOK, Item, PendingIsNew
  <2>10. ItemsSound'
    BY <1>4 DEF BatchEnqueues, CanEnqueue, Enqueued, TypeOK, Item, ItemsSound
  <2>11. AwaitingHasItem'
    BY <1>4
       DEF BatchEnqueues, CanEnqueue, Enqueued, TypeOK, Item, AwaitingHasItem
  <2>12. OneEnd'
    BY <1>4 DEF BatchEnqueues, OneEnd
  <2> QED
    BY <2>1, <2>2, <2>3, <2>4, <2>5, <2>6, <2>7, <2>8, <2>9, <2>10, <2>11,
       <2>12
<1>5. CASE BatchEnqueueFails
  <2>1. TypeOK'
    <3>1. batch' \in BatchState
      BY <1>5, IdleStates
         DEF BatchEnqueueFails, CanEnqueue, BatchState, TypeOK
    <3> QED
      BY <1>5, <3>1 DEF BatchEnqueueFails, CanEnqueue, TypeOK
  <2>2. StartsAlone'
    BY <1>5 DEF BatchEnqueueFails
  <2>3. BusyInside'
    BY <1>5 DEF BatchEnqueueFails, OneFinished, OneEnd
  <2>4. OneFinished'
    BY <1>5 DEF BatchEnqueueFails, OneFinished
  <2>5. BatchHolds'
    BY <1>5 DEF BatchEnqueueFails, CanEnqueue, TypeOK
  <2>6. BatchCrawlable'
    BY <1>5 DEF BatchEnqueueFails, CanEnqueue, TypeOK, BatchCrawlable
  <2>7. PendingIsNew'
    BY <1>5 DEF BatchEnqueueFails, CanEnqueue, TypeOK, PendingIsNew
  <2>8. /\ OneEnd' /\ RetryAlone' /\ VerHolds' /\ ItemsSound'
         /\ AwaitingHasItem'
    BY <1>5 DEF BatchEnqueueFails, OneEnd, ItemsSound, AwaitingHasItem
  <2> QED
    BY <2>1, <2>2, <2>3, <2>4, <2>5, <2>6, <2>7, <2>8
<1>6. CASE BatchPersists
  <2>1. TypeOK'
    <3>1. batch' \in BatchState
      <4>1. batch \in BatchState /\ batch.cur \in Tasks
        BY <1>6 DEF BatchPersists, TypeOK
      <4>2. /\ [batch EXCEPT !.pc = "next", !.cur = NoTask, !.result = "none"] \in BatchState
            /\ [batch EXCEPT !.result = "failed"] \in BatchState
            /\ [batch EXCEPT !.pc = "aborted"] \in BatchState
        BY <4>1, BatchMoves DEF TaskStatus
      <4> QED
        BY <1>6, <4>2 DEF BatchPersists, Aborted
    <3>2. events' \in Seq(UiEvent)
      <4>1. events \in Seq(UiEvent) /\ batch.cur \in Tasks
        BY <1>6 DEF BatchPersists, TypeOK
      <4>2. Append(events, Event("required", batch.cur)) \in Seq(UiEvent)
        BY <4>1, Events, Posting
      <4> QED
        BY <1>6, <4>1, <4>2 DEF BatchPersists
    <3> QED
      BY <1>6, <3>1, <3>2 DEF BatchPersists, Event, Aborted, TypeOK
  <2>2. StartsAlone'
    BY <1>6 DEF BatchPersists, Event, Aborted
  <2>3. BusyInside'
    BY <1>6 DEF BatchPersists, Event, Aborted, OneFinished, OneEnd
  <2>4. OneFinished'
    BY <1>6 DEF BatchPersists, Event, Aborted, OneFinished
  <2>5. OneEnd'
    BY <1>6 DEF BatchPersists, Event, Aborted, OneEnd
  <2>6. BatchHolds'
    <3>1. batch \in BatchState /\ batch.cur \in Tasks /\ batch.result \in CrawlResults
      BY <1>6 DEF BatchPersists, TypeOK

    <3>2. CASE batch' = [batch EXCEPT !.pc = "next", !.cur = NoTask, !.result = "none"]
      <4>1. batch'.pc = "next" /\ batch'.cur = NoTask /\ batch'.todo = batch.todo
        BY <3>1, <3>2 DEF BatchState
      <4>2. NoTask \notin batch.todo
        BY <3>1 DEF BatchState
      <4> QED
        BY <4>1, <4>2
    <3>3. CASE batch' = [batch EXCEPT !.result = "failed"]
      BY <1>6, <3>1, <3>3 DEF BatchPersists, BatchState
    <3>4. CASE batch' = Aborted
      BY <1>6, <3>1, <3>4 DEF BatchPersists, Aborted, BatchState
    <3> QED
      BY <1>6, <3>2, <3>3, <3>4 DEF BatchPersists
  <2>7. BatchCrawlable'
    <3>1. batch \in BatchState
      BY DEF TypeOK
    <3>2. batch'.todo = batch.todo /\ batch'.pc # "crawl"
      BY <1>6, <3>1 DEF BatchPersists, Aborted, BatchState
    <3> QED
      BY <1>6, <3>2 DEF BatchPersists, BatchCrawlable
  <2>8. PendingIsNew'
    BY <1>6 DEF BatchPersists, Event, Aborted, TypeOK, PendingIsNew
  <2>9. AwaitingHasItem'
    <3>1. batch.cur \in Tasks /\ batch.result \in CrawlResults
      BY <1>6 DEF BatchPersists, TypeOK
    <3>2. batch.result \in Awaiting => HasItem(batch.cur)
      BY <1>6, <3>1 DEF BatchPersists
    <3>3. store' = store \/ store' = [store EXCEPT ![batch.cur] = batch.result]
      BY <1>6 DEF BatchPersists
    <3> QED
      BY <1>6, <3>1, <3>2, <3>3 DEF BatchPersists, TypeOK, AwaitingHasItem
  <2>10. RetryAlone' /\ VerHolds' /\ ItemsSound'
    BY <1>6 DEF BatchPersists, ItemsSound
  <2> QED
    BY <2>1, <2>2, <2>3, <2>4, <2>5, <2>6, <2>7, <2>8, <2>9, <2>10
<1>7. CASE BatchFinishes
  <2>1. TypeOK'
    <3>1. item' \in [Tasks -> Item]
      <4>1. ASSUME NEW t \in Tasks PROVE Settled(t) \in Item
        BY ItemOps DEF Settled, TypeOK
      <4>2. batch.resuming \in Tasks \cup {NoTask}
        BY DEF TypeOK, BatchState
      <4> QED
        BY <1>7, <4>1, <4>2 DEF BatchFinishes, TypeOK
    <3>2. batch' \in BatchState
      BY <1>7, IdleStates
         DEF BatchFinishes, Settled, CanCompleteResume, CanMarkFailed, Event,
            BatchState, TypeOK
    <3>3. events' \in Seq(UiEvent)
      BY <1>7, IdleStates
         DEF BatchFinishes, Settled, CanCompleteResume, CanMarkFailed, Event,
            UiEvent, VerState, BatchState, TypeOK
    <3> QED
      BY <1>7, <3>1, <3>2, <3>3
         DEF BatchFinishes, Settled, CanCompleteResume, CanMarkFailed, Event,
            TypeOK
  <2>2. StartsAlone'
    BY <1>7 DEF BatchFinishes, Event, IdleBatch
  <2>3. BusyInside'
    BY <1>7 DEF BatchFinishes, Event, IdleBatch, OneFinished, OneEnd
  <2>4. OneFinished'
    BY <1>7 DEF BatchFinishes, Event, IdleBatch, OneFinished
  <2>5. OneEnd'
    BY <1>7 DEF BatchFinishes, Event, IdleBatch, OneEnd
  <2>6. RetryAlone'
    BY <1>7
       DEF BatchFinishes, Settled, CanCompleteResume, CanMarkFailed, Failed,
          Event, NoItem, IdleBatch, TypeOK, Item
  <2>7. BatchHolds'
    BY <1>7
       DEF BatchFinishes, Settled, CanCompleteResume, CanMarkFailed, Failed,
          Event, NoItem, IdleBatch, TypeOK, Item
  <2>8. VerHolds'
    <3> SUFFICES ASSUME VerInside
                 PROVE  item'[ver.task].status \in {"verification_required",
                                                    "ready_to_resume", "failed"}
      BY <1>7 DEF BatchFinishes
    <3>1. ver.task \in Tasks /\ item[ver.task].status # "fetching"
      OBVIOUS
    <3>2. item'[ver.task] \in {item[ver.task], Failed(item[ver.task])}
      BY <1>7, <3>1 DEF BatchFinishes, Settled, CanCompleteResume, TypeOK
    <3>3. Failed(item[ver.task]).status = "failed"
      BY <3>1 DEF Failed, TypeOK, Item
    <3> QED
      BY <3>2, <3>3
  <2>9. BatchCrawlable'
    BY <1>7 DEF BatchFinishes, NoItem, IdleBatch, TypeOK, Item, BatchCrawlable
  <2>10. PendingIsNew'
    <3>1. ASSUME NEW t \in Tasks, ~HasItem(t) PROVE item'[t] = item[t]
      BY <1>7, <3>1
         DEF BatchFinishes, Settled, CanCompleteResume, CanMarkFailed, TypeOK
    <3>2. view \subseteq Tasks
      BY DEF TypeOK
    <3> QED
      BY <1>7, <3>1, <3>2 DEF BatchFinishes, PendingIsNew
  <2>11. ItemsSound'
    <3>1. ASSUME NEW t \in Tasks
          PROVE  item'[t] \in {item[t], NoItem, Failed(item[t])}
      BY <1>7, <3>1 DEF BatchFinishes, Settled, TypeOK
    <3>2. ASSUME NEW t \in Tasks
          PROVE  Failed(item[t]).status = "failed"
      BY DEF Failed, TypeOK, Item
    <3>3. ~(NoItem.attempts >= MaxAttempts)
      BY DEF NoItem
    <3> QED
      BY <3>1, <3>2, <3>3 DEF ItemsSound
  <2>12. AwaitingHasItem'
    <3>1. ASSUME NEW t \in Tasks, store[t] \in Awaiting
          PROVE  item'[t] = item[t]
      BY <1>7, <3>1 DEF BatchFinishes, Settled, TypeOK
    <3> QED
      BY <1>7, <3>1 DEF BatchFinishes, AwaitingHasItem
  <2> QED
    BY <2>1, <2>2, <2>3, <2>4, <2>5, <2>6, <2>7, <2>8, <2>9, <2>10, <2>11,
       <2>12
<1>8. CASE BatchExits
  <2>1. TypeOK'
    <3>1. batch' \in BatchState
      BY <1>8, IdleStates DEF BatchExits, BatchState, TypeOK
    <3> QED
      BY <1>8, <3>1 DEF BatchExits, TypeOK
  <2>2. StartsAlone'
    BY <1>8 DEF BatchExits, IdleBatch
  <2>3. BusyInside'
    BY <1>8 DEF BatchExits, IdleBatch, OneFinished, OneEnd
  <2>4. OneFinished'
    BY <1>8 DEF BatchExits, IdleBatch, OneFinished
  <2>5. BatchHolds'
    BY <1>8 DEF BatchExits, IdleBatch, TypeOK
  <2>6. BatchCrawlable'
    BY <1>8 DEF BatchExits, IdleBatch, TypeOK, BatchCrawlable
  <2>7. /\ OneEnd' /\ RetryAlone' /\ VerHolds' /\ PendingIsNew'
         /\ ItemsSound' /\ AwaitingHasItem'
    BY <1>8 DEF BatchExits, OneEnd, PendingIsNew, ItemsSound, AwaitingHasItem
  <2> QED
    BY <2>1, <2>2, <2>3, <2>4, <2>5, <2>6, <2>7
<1> QED
  BY <1>1, <1>2, <1>3, <1>4, <1>5, <1>6, <1>7, <1>8 DEF BatchStep

\* No step of the verification worker breaks the invariant.
LEMMA VerifyKeepsIInv ==
    IInv /\ VerifyStep => IInv'
<1> SUFFICES ASSUME IInv, VerifyStep PROVE IInv' OBVIOUS
<1> USE DEF IInv, Protocol, StartsAlone, BusyInside, RetryAlone, BatchHolds,
            VerHolds, TaskStatus, Terminal, Completed, Awaiting, CrawlResults
<1>1. CASE VerifyConfirmed
  <2>1. TypeOK'
    <3>1. ver' \in VerState
      BY <1>1, IdleStates DEF VerifyConfirmed, VerifyGoes, VerState, TypeOK
    <3> QED
      BY <1>1, <3>1 DEF VerifyConfirmed, VerifyGoes, TypeOK
  <2>2. StartsAlone'
    BY <1>1 DEF VerifyConfirmed, VerifyGoes
  <2>3. BusyInside'
    BY <1>1 DEF VerifyConfirmed, VerifyGoes, OneFinished, OneEnd
  <2>4. OneEnd'
    BY <1>1 DEF VerifyConfirmed, VerifyGoes, OneEnd
  <2>5. VerHolds'
    <3>1. ver'.pc \in {"mark", "defer"} /\ ver'.task = ver.task
      BY <1>1 DEF VerifyConfirmed, VerifyGoes, VerState, TypeOK
    <3> QED
      BY <1>1, <3>1 DEF VerifyConfirmed
  <2>6. AwaitingHasItem'
    BY <1>1 DEF VerifyConfirmed, VerifyGoes, TypeOK, AwaitingHasItem
  <2>7. /\ OneFinished' /\ RetryAlone' /\ BatchHolds' /\ BatchCrawlable'
         /\ PendingIsNew' /\ ItemsSound'
    BY <1>1
       DEF VerifyConfirmed, VerifyGoes, OneFinished, BatchCrawlable,
          PendingIsNew, ItemsSound
  <2> QED
    BY <2>1, <2>2, <2>3, <2>4, <2>5, <2>6, <2>7
<1>2. CASE VerifyMarksReady
  <2>1. TypeOK'
    <3>1. item' \in [Tasks -> Item]
      <4>1. item \in [Tasks -> Item]
        BY DEF TypeOK
      <4> QED
        BY <1>2, <4>1, ItemOps
           DEF VerifyMarksReady, CanMarkReady, Event, VerifyGoes
    <3>2. ver' \in VerState
      BY <1>2, IdleStates
         DEF VerifyMarksReady, CanMarkReady, Event, VerifyGoes, VerState,
            TypeOK
    <3>3. events' \in Seq(UiEvent)
      BY <1>2, IdleStates
         DEF VerifyMarksReady, CanMarkReady, Event, VerifyGoes, UiEvent,
            VerState, BatchState, TypeOK
    <3> QED
      BY <1>2, <3>1, <3>2, <3>3
         DEF VerifyMarksReady, CanMarkReady, Event, VerifyGoes, TypeOK
  <2>2. StartsAlone'
    BY <1>2 DEF VerifyMarksReady, Event, VerifyGoes
  <2>3. BusyInside'
    BY <1>2 DEF VerifyMarksReady, Event, VerifyGoes, OneFinished, OneEnd
  <2>4. OneFinished'
    BY <1>2 DEF VerifyMarksReady, Event, VerifyGoes, OneFinished
  <2>5. OneEnd'
    BY <1>2 DEF VerifyMarksReady, Event, VerifyGoes, OneEnd
  <2>6. RetryAlone'
    BY <1>2
       DEF VerifyMarksReady, CanMarkReady, Ready, Event, VerifyGoes, TypeOK,
          Item
  <2>7. BatchHolds'
    BY <1>2
       DEF VerifyMarksReady, CanMarkReady, Ready, Event, VerifyGoes, TypeOK,
          Item
  <2>8. VerHolds'
    BY <1>2
       DEF VerifyMarksReady, CanMarkReady, Ready, Event, VerifyGoes, TypeOK,
          Item
  <2>9. BatchCrawlable'
    BY <1>2
       DEF VerifyMarksReady, CanMarkReady, Ready, Event, VerifyGoes, TypeOK,
          Item, BatchCrawlable
  <2>10. PendingIsNew'
    BY <1>2
       DEF VerifyMarksReady, CanMarkReady, Ready, Event, VerifyGoes, TypeOK,
          Item, PendingIsNew
  <2>11. ItemsSound'
    BY <1>2
       DEF VerifyMarksReady, CanMarkReady, Ready, Event, VerifyGoes, TypeOK,
          Item, ItemsSound
  <2>12. AwaitingHasItem'
    BY <1>2
       DEF VerifyMarksReady, CanMarkReady, Ready, Event, VerifyGoes, TypeOK,
          Item, AwaitingHasItem
  <2> QED
    BY <2>1, <2>2, <2>3, <2>4, <2>5, <2>6, <2>7, <2>8, <2>9, <2>10, <2>11,
       <2>12
<1>3. CASE VerifyMarkFails
  <2>1. TypeOK'
    <3>1. ver' \in VerState
      BY <1>3, IdleStates
         DEF VerifyMarkFails, CanMarkReady, VerifyGoes, VerState, TypeOK
    <3> QED
      BY <1>3, <3>1 DEF VerifyMarkFails, CanMarkReady, VerifyGoes, TypeOK
  <2>2. StartsAlone'
    BY <1>3 DEF VerifyMarkFails, VerifyGoes
  <2>3. BusyInside'
    BY <1>3 DEF VerifyMarkFails, VerifyGoes, OneFinished, OneEnd
  <2>4. OneEnd'
    BY <1>3 DEF VerifyMarkFails, VerifyGoes, OneEnd
  <2>5. VerHolds'
    BY <1>3 DEF VerifyMarkFails, CanMarkReady, VerifyGoes, TypeOK
  <2>6. /\ OneFinished' /\ RetryAlone' /\ BatchHolds' /\ BatchCrawlable'
         /\ PendingIsNew' /\ ItemsSound' /\ AwaitingHasItem'
    BY <1>3
       DEF VerifyMarkFails, VerifyGoes, OneFinished, BatchCrawlable,
          PendingIsNew, ItemsSound, AwaitingHasItem
  <2> QED
    BY <2>1, <2>2, <2>3, <2>4, <2>5, <2>6
<1>4. CASE VerifyReverts
  <2>1. TypeOK'
    <3>1. ver' \in VerState
      BY <1>4, IdleStates DEF VerifyReverts, VerifyGoes, VerState, TypeOK
    <3> QED
      BY <1>4, <3>1 DEF VerifyReverts, VerifyGoes, TypeOK
  <2>2. StartsAlone'
    BY <1>4 DEF VerifyReverts, VerifyGoes
  <2>3. BusyInside'
    BY <1>4 DEF VerifyReverts, VerifyGoes, OneFinished, OneEnd
  <2>4. OneEnd'
    BY <1>4 DEF VerifyReverts, VerifyGoes, OneEnd
  <2>5. VerHolds'
    BY <1>4 DEF VerifyReverts, VerifyGoes, TypeOK
  <2>6. AwaitingHasItem'
    BY <1>4 DEF VerifyReverts, VerifyGoes, TypeOK, AwaitingHasItem
  <2>7. /\ OneFinished' /\ RetryAlone' /\ BatchHolds' /\ BatchCrawlable'
         /\ PendingIsNew' /\ ItemsSound'
    BY <1>4
       DEF VerifyReverts, VerifyGoes, OneFinished, BatchCrawlable,
          PendingIsNew, ItemsSound
  <2> QED
    BY <2>1, <2>2, <2>3, <2>4, <2>5, <2>6, <2>7
<1>5. CASE VerifyGivesUp
  <2>1. TypeOK'
    <3>1. ver' \in VerState
      BY <1>5, IdleStates DEF VerifyGivesUp, VerifyGoes, VerState, TypeOK
    <3> QED
      BY <1>5, <3>1 DEF VerifyGivesUp, VerifyGoes, TypeOK
  <2>2. StartsAlone'
    BY <1>5 DEF VerifyGivesUp, VerifyGoes
  <2>3. BusyInside'
    BY <1>5 DEF VerifyGivesUp, VerifyGoes, OneFinished, OneEnd
  <2>4. OneEnd'
    BY <1>5 DEF VerifyGivesUp, VerifyGoes, OneEnd
  <2>5. VerHolds'
    BY <1>5 DEF VerifyGivesUp, VerifyGoes, TypeOK
  <2>6. /\ OneFinished' /\ RetryAlone' /\ BatchHolds' /\ BatchCrawlable'
         /\ PendingIsNew' /\ ItemsSound' /\ AwaitingHasItem'
    BY <1>5
       DEF VerifyGivesUp, VerifyGoes, OneFinished, BatchCrawlable,
          PendingIsNew, ItemsSound, AwaitingHasItem
  <2> QED
    BY <2>1, <2>2, <2>3, <2>4, <2>5, <2>6
<1>6. CASE VerifyDefers
  <2>1. TypeOK'
    <3>1. item' \in [Tasks -> Item]
      <4>1. ver.task \in Tasks /\ item[ver.task] \in Item
        BY <1>6 DEF VerifyDefers, TypeOK
      <4>2. item[ver.task].attempts < MaxAttempts
        BY <1>6, <4>1 DEF VerifyDefers, CanDefer, ItemsSound, Item
      <4> QED
        BY <1>6, <4>1, <4>2, DeferOp DEF VerifyDefers, TypeOK
    <3>2. ver' \in VerState
      <4>1. ver.task \in Tasks /\ item[ver.task] \in Item /\ ver \in VerState
        BY <1>6 DEF VerifyDefers, TypeOK
      <4>2. item[ver.task].attempts < MaxAttempts
        BY <1>6, <4>1 DEF VerifyDefers, CanDefer, ItemsSound, Item
      <4>3. item'[ver.task] = Deferred(item[ver.task])
        BY <1>6, <4>1 DEF VerifyDefers, TypeOK
      <4>4. item'[ver.task].status \in TaskStatus
        BY <4>1, <4>2, <4>3, DeferOp
      <4> QED
        BY <1>6, <4>1, <4>4 DEF VerifyDefers, VerState
    <3> QED
      BY <1>6, <3>1, <3>2 DEF VerifyDefers, CanDefer, TypeOK
  <2>2. StartsAlone'
    BY <1>6 DEF VerifyDefers
  <2>3. BusyInside'
    BY <1>6 DEF VerifyDefers, OneFinished, OneEnd
  <2>4. OneEnd'
    BY <1>6 DEF VerifyDefers, OneEnd
  <2>5. RetryAlone'
    BY <1>6 DEF VerifyDefers, CanDefer, Deferred, TypeOK, Item
  <2>6. BatchHolds'
    BY <1>6 DEF VerifyDefers, CanDefer, Deferred, TypeOK, Item
  <2>7. VerHolds'
    BY <1>6 DEF VerifyDefers, CanDefer, Deferred, TypeOK, Item
  <2>8. BatchCrawlable'
    BY <1>6 DEF VerifyDefers, CanDefer, Deferred, TypeOK, Item, BatchCrawlable
  <2>9. PendingIsNew'
    BY <1>6 DEF VerifyDefers, CanDefer, Deferred, TypeOK, Item, PendingIsNew
  <2>10. ItemsSound'
    BY <1>6 DEF VerifyDefers, CanDefer, Deferred, TypeOK, Item, ItemsSound
  <2>11. AwaitingHasItem'
    BY <1>6
       DEF VerifyDefers, CanDefer, Deferred, TypeOK, Item, AwaitingHasItem
  <2>12. OneFinished'
    BY <1>6 DEF VerifyDefers, OneFinished
  <2> QED
    BY <2>1, <2>2, <2>3, <2>4, <2>5, <2>6, <2>7, <2>8, <2>9, <2>10, <2>11,
       <2>12
<1>7. CASE VerifyDeferFails
  <2>1. TypeOK'
    <3>1. ver' \in VerState
      BY <1>7, IdleStates
         DEF VerifyDeferFails, CanDefer, Event, VerifyGoes, VerState, TypeOK
    <3>2. events' \in Seq(UiEvent)
      BY <1>7, IdleStates
         DEF VerifyDeferFails, CanDefer, Event, VerifyGoes, UiEvent, VerState,
            BatchState, TypeOK
    <3> QED
      BY <1>7, <3>1, <3>2
         DEF VerifyDeferFails, CanDefer, Event, VerifyGoes, TypeOK
  <2>2. StartsAlone'
    BY <1>7 DEF VerifyDeferFails, Event, VerifyGoes
  <2>3. BusyInside'
    BY <1>7 DEF VerifyDeferFails, Event, VerifyGoes, OneFinished, OneEnd
  <2>4. OneFinished'
    BY <1>7 DEF VerifyDeferFails, Event, VerifyGoes, OneFinished
  <2>5. OneEnd'
    BY <1>7 DEF VerifyDeferFails, Event, VerifyGoes, OneEnd
  <2>6. VerHolds'
    BY <1>7 DEF VerifyDeferFails, CanDefer, Event, VerifyGoes, TypeOK
  <2>7. /\ RetryAlone' /\ BatchHolds' /\ BatchCrawlable' /\ PendingIsNew'
         /\ ItemsSound' /\ AwaitingHasItem'
    BY <1>7
       DEF VerifyDeferFails, VerifyGoes, BatchCrawlable, PendingIsNew,
          ItemsSound, AwaitingHasItem
  <2> QED
    BY <2>1, <2>2, <2>3, <2>4, <2>5, <2>6, <2>7
<1>8. CASE VerifyRecords
  <2>1. TypeOK'
    <3>1. ver' \in VerState
      BY <1>8, IdleStates
         DEF VerifyRecords, Event, VerifyGoes, VerState, TypeOK
    <3>2. events' \in Seq(UiEvent)
      BY <1>8, IdleStates
         DEF VerifyRecords, Event, VerifyGoes, UiEvent, VerState, BatchState,
            TypeOK
    <3> QED
      BY <1>8, <3>1, <3>2 DEF VerifyRecords, Event, VerifyGoes, TypeOK
  <2>2. StartsAlone'
    BY <1>8 DEF VerifyRecords, Event, VerifyGoes
  <2>3. BusyInside'
    BY <1>8 DEF VerifyRecords, Event, VerifyGoes, OneFinished, OneEnd
  <2>4. OneFinished'
    BY <1>8 DEF VerifyRecords, Event, VerifyGoes, OneFinished
  <2>5. OneEnd'
    BY <1>8 DEF VerifyRecords, Event, VerifyGoes, OneEnd
  <2>6. VerHolds'
    BY <1>8 DEF VerifyRecords, Event, VerifyGoes, TypeOK
  <2>7. AwaitingHasItem'
    BY <1>8 DEF VerifyRecords, Event, VerifyGoes, TypeOK, AwaitingHasItem
  <2>8. /\ RetryAlone' /\ BatchHolds' /\ BatchCrawlable' /\ PendingIsNew'
         /\ ItemsSound'
    BY <1>8
       DEF VerifyRecords, VerifyGoes, BatchCrawlable, PendingIsNew, ItemsSound
  <2> QED
    BY <2>1, <2>2, <2>3, <2>4, <2>5, <2>6, <2>7, <2>8
<1>9. CASE VerifyExits
  <2>1. TypeOK'
    <3>1. ver' \in VerState
      BY <1>9, IdleStates DEF VerifyExits, VerState, TypeOK
    <3> QED
      BY <1>9, <3>1 DEF VerifyExits, TypeOK
  <2>2. StartsAlone'
    BY <1>9 DEF VerifyExits, IdleVer
  <2>3. BusyInside'
    BY <1>9 DEF VerifyExits, IdleVer, OneFinished, OneEnd
  <2>4. OneEnd'
    BY <1>9 DEF VerifyExits, IdleVer, OneEnd
  <2>5. VerHolds'
    BY <1>9 DEF VerifyExits, IdleVer, TypeOK
  <2>6. /\ OneFinished' /\ RetryAlone' /\ BatchHolds' /\ BatchCrawlable'
         /\ PendingIsNew' /\ ItemsSound' /\ AwaitingHasItem'
    BY <1>9
       DEF VerifyExits, OneFinished, BatchCrawlable, PendingIsNew, ItemsSound,
          AwaitingHasItem
  <2> QED
    BY <2>1, <2>2, <2>3, <2>4, <2>5, <2>6
<1> QED
  BY <1>1, <1>2, <1>3, <1>4, <1>5, <1>6, <1>7, <1>8, <1>9 DEF VerifyStep

\* A crash resets everything but the two files.
LEMMA CrashKeepsIInv ==
    IInv /\ Crash => IInv'
<1> SUFFICES ASSUME IInv, Crash PROVE IInv' OBVIOUS
<1>1. TypeOK'
  BY IdleStates DEF IInv, Crash, TypeOK
<1>2. Protocol'
  BY DEF IInv, Crash, TypeOK, Protocol, StartsAlone, BusyInside, OneFinished,
         OneEnd, RetryAlone, BatchHolds, VerHolds, BatchCrawlable, PendingIsNew,
         ItemsSound, IdleBatch, IdleVer
<1>3. AwaitingHasItem'
  BY DEF IInv, Crash, AwaitingHasItem
<1> QED
  BY <1>1, <1>2, <1>3 DEF IInv

\* The invariant holds where nothing has been saved yet.
LEMMA InitIInv ==
    Init => IInv
<1> SUFFICES ASSUME Init PROVE IInv OBVIOUS
<1>1. TypeOK
  <2>1. NoItem \in Item
    BY DEF NoItem, Item
  <2>2. item \in [Tasks -> Item]
    BY <2>1 DEF Init
  <2> QED
    BY <2>2, IdleStates DEF Init, TypeOK
<1>2. Protocol
  BY DEF Init, Protocol, StartsAlone, BusyInside, OneFinished, OneEnd, RetryAlone,
         BatchHolds, VerHolds, BatchCrawlable, PendingIsNew, ItemsSound,
         IdleBatch, IdleVer, NoItem
<1>3. AwaitingHasItem
  BY DEF Init, AwaitingHasItem, Awaiting
<1> QED
  BY <1>1, <1>2, <1>3 DEF IInv

\* A step that changes nothing keeps the invariant.
LEMMA StutterKeepsIInv ==
    IInv /\ UNCHANGED vars => IInv'
BY DEF IInv, vars, TypeOK, Protocol, StartsAlone, BusyInside, OneFinished, OneEnd,
       RetryAlone, BatchHolds, VerHolds, BatchCrawlable, PendingIsNew, ItemsSound,
       AwaitingHasItem

-----------------------------------------------------------------------------
\* The strengthened invariant holds in every reachable state, with crashes and
\* failing writes at any point of the three threads.
THEOREM Invariant == Spec => []IInv
<1>1. IInv /\ [Next]_vars => IInv'
  BY StartUpKeepsIInv, UserKeepsIInv, PumpKeepsIInv, BatchKeepsIInv,
     VerifyKeepsIInv, CrashKeepsIInv, StutterKeepsIInv DEF Next
<1> QED
  BY InitIInv, <1>1, PTL DEF Spec

\* Every variable keeps its type; in particular the attempts of an item never
\* pass the limit of VerificationQueue.defer.
THEOREM TypeCorrect == Spec => []TypeOK
<1>1. IInv => TypeOK
  BY DEF IInv
<1> QED
  BY Invariant, <1>1, PTL

\* A task that waits for verification or for its resumption has its queue item,
\* although run_tasks, VerificationService and _recover_desktop_tasks write the
\* two files one after the other.
THEOREM AwaitingHasItemHolds == Spec => []AwaitingHasItem
<1>1. IInv => AwaitingHasItem
  BY DEF IInv
<1> QED
  BY Invariant, <1>1, PTL

\* An item that can still be verified or resumed has attempts left.
THEOREM AttemptsBelowLimitHolds == Spec => []AttemptsBelowLimit
<1>1. IInv => AttemptsBelowLimit
  <2> SUFFICES ASSUME IInv, NEW t \in Tasks,
                      item[t].status \in Awaiting \cup {"fetching"}
               PROVE  item[t].attempts < MaxAttempts
    BY DEF AttemptsBelowLimit
  <2>1. item[t].attempts \in 0 .. MaxAttempts
    BY DEF IInv, TypeOK, Item
  <2>2. ~(item[t].attempts >= MaxAttempts)
    BY DEF IInv, Protocol, ItemsSound, Awaiting
  <2> QED
    BY <2>1, <2>2
<1> QED
  BY Invariant, <1>1, PTL

\* The verification browser and the crawl of the batch worker never have the
\* same task, although a verification may be started while a batch runs.
THEOREM OneWorkerPerTaskHolds == Spec => []OneWorkerPerTask
<1>1. IInv => OneWorkerPerTask
  <2> SUFFICES ASSUME IInv, VerInside, batch.pc = "crawl", batch.cur = ver.task
               PROVE  FALSE
    BY DEF OneWorkerPerTask
  <2>1. item[ver.task].status \in {"verification_required", "ready_to_resume", "failed"}
    BY DEF IInv, Protocol, VerHolds
  <2>2. item[ver.task].status \in {"none", "fetching"}
    BY DEF IInv, Protocol, BatchCrawlable
  <2> QED
    BY <2>1, <2>2
<1> QED
  BY Invariant, <1>1, PTL

-----------------------------------------------------------------------------
(* What is done stays done, and what the window opens on is whole.         *)
(*                                                                         *)
(* FinishedIsFinal needs to know that no thread holds a finished task: not *)
(* the batch worker in its list or in hand, not a verification, a retry, a *)
(* row offered for a start, nor an event on its way to make one.  Each of  *)
(* them looked some steps ago, so each is a part of Open.  The last part   *)
(* is about the start-up: what it has put right stays right until it ends. *)


Startable == {"pending", "ready_to_resume"}

\* The item of a finished task, if it is still there, waits for nobody ...
CompletedItems ==
    \A t \in Tasks : store[t] \in Completed =>
        item[t].status \in {"none", "fetching", "ready_to_resume"}

\* ... so a verification or a retry, whose item waits, is not about one.
VerWaits   == VerInside => item[ver.task].status \in {"verification_required", "failed"}
RetryWaits == retrying # NoTask => item[retrying].status = "verification_required"

\* The batch worker has no finished task before it, nor in hand ...
TodoOpen == \A t \in batch.todo : store[t] \notin Completed
InHandOpen ==
    batch.pc \in {"crawl", "enqueue", "persist"} => store[batch.cur] \notin Completed

\* ... and finishes only a task whose row and item offer no other start.
ResultFits ==
    batch.pc = "persist" /\ batch.result \in Completed =>
        Crawlable(batch.cur) /\ ui[batch.cur] \notin Startable

\* No row offers a finished task, and no event is about to.
RowsOpen == \A t \in view : ui[t] \in Startable => store[t] \notin Completed
ReadyFits ==
    \A i \in 1 .. Len(events) : events[i].kind = "ready" =>
        /\ events[i].task \in Tasks
        /\ store[events[i].task] \notin Completed
        /\ item[events[i].task].status \in {"ready_to_resume", "failed"}

\* The start-up has left no running task, and then no claim.
HalfWayGone ==
    /\ phase \in {"claims", "items", "save"} => \A t \in Tasks : store[t] # "fetching"
    /\ phase \in {"items", "save"} => \A t \in Tasks : item[t].status # "fetching"

Open ==
    /\ CompletedItems /\ VerWaits /\ RetryWaits /\ TodoOpen /\ InHandOpen
    /\ ResultFits /\ RowsOpen /\ ReadyFits /\ HalfWayGone

\* What FinishedIsFinal says of one step.
Kept ==
    \A t \in Tasks : store[t] \in Completed =>
        \/ store'[t] = store[t]
        \/ phase = "purge" /\ store'[t] = "absent"

USE DEF Startable

-----------------------------------------------------------------------------
\* The task of a verification, and that of a retry, is not finished.
LEMMA VerOpen ==
    ASSUME IInv, Open, VerInside
    PROVE  /\ ver.task \in Tasks /\ store[ver.task] \notin Completed
           /\ ~Crawlable(ver.task)
           /\ \A i \in 1 .. Len(events) : events[i].kind # "ready"
BY DEF IInv, Protocol, VerHolds, Open, VerWaits, CompletedItems, OneEnd

LEMMA RetryOpen ==
    ASSUME IInv, Open, retrying # NoTask
    PROVE  /\ retrying \in Tasks /\ store[retrying] \notin Completed
           /\ \A i \in 1 .. Len(events) : events[i].kind # "ready"
BY DEF IInv, TypeOK, Protocol, RetryAlone, Open, RetryWaits, CompletedItems, OneEnd

\* No task of the batch worker is finished.
LEMMA HandOpen ==
    ASSUME IInv, Open
    PROVE  /\ batch \in BatchState /\ batch.todo \subseteq Tasks
           /\ \A t \in batch.todo :
                 Crawlable(t) /\ store[t] \notin Completed /\ t # batch.cur
           /\ batch.pc \in {"crawl", "enqueue", "persist"} =>
                 batch.cur \in Tasks /\ store[batch.cur] \notin Completed
BY DEF IInv, TypeOK, BatchState, Protocol, BatchHolds, BatchCrawlable, Open, TodoOpen,
       InHandOpen

\* A posted event leaves those before it alone.
LEMMA ReadyAfterPost ==
    ASSUME IInv, Open,
           NEW k \in {"finished", "required", "ready", "deferred", "failed"},
           NEW t \in Tasks \cup {NoTask}, events' = Append(events, Event(k, t)),
           \A i \in 1 .. Len(events) : events[i].kind = "ready" =>
               /\ store'[events[i].task] \notin Completed
               /\ item'[events[i].task].status \in {"ready_to_resume", "failed"},
           k = "ready" => /\ t \in Tasks /\ store'[t] \notin Completed
                          /\ item'[t].status = "ready_to_resume"
    PROVE  ReadyFits'
<1>1. events \in Seq(UiEvent) /\ Event(k, t) \in UiEvent
  BY Events DEF IInv, TypeOK
<1>2. /\ Len(events') = Len(events) + 1 /\ Len(events) \in Nat
      /\ \A i \in 1 .. Len(events) : events'[i] = events[i]
      /\ events'[Len(events) + 1] = Event(k, t)
  BY <1>1, Posting
<1> SUFFICES ASSUME NEW i \in 1 .. Len(events'), events'[i].kind = "ready"
             PROVE  /\ events'[i].task \in Tasks
                    /\ store'[events'[i].task] \notin Completed
                    /\ item'[events'[i].task].status \in {"ready_to_resume", "failed"}
  BY DEF ReadyFits
<1>3. CASE i \in 1 .. Len(events)
  BY <1>2, <1>3 DEF Open, ReadyFits
<1>4. CASE i = Len(events) + 1
  BY <1>2, <1>4 DEF Event
<1> QED
  BY <1>2, <1>3, <1>4

-----------------------------------------------------------------------------
\* No step of the start-up touches what is finished but by the purge.
LEMMA StartUpKeepsOpen ==
    IInv /\ Open /\ StartUp => Open' /\ Kept
<1> SUFFICES ASSUME IInv, Open, StartUp PROVE Open' /\ Kept OBVIOUS
<1> USE DEF IInv, Protocol, Open, StartsAlone, BusyInside, RetryAlone, BatchHolds,
            VerHolds, TaskStatus, Terminal, Completed, Awaiting, CrawlResults
<1>1. CASE Launch
  <2>1. HalfWayGone'
    BY <1>1 DEF Launch, TypeOK, HalfWayGone
  <2>2. CompletedItems' /\ VerWaits' /\ RetryWaits' /\ TodoOpen' /\ InHandOpen'
        /\ ResultFits' /\ RowsOpen' /\ ReadyFits' /\ Kept
    BY <1>1 DEF Launch, CompletedItems, VerWaits, RetryWaits, TodoOpen,
       InHandOpen, ResultFits, RowsOpen, ReadyFits, Kept
  <2> QED
    BY <2>1, <2>2
<1>2. ASSUME NEW r \in Runs, PurgeItems(r) PROVE Open' /\ Kept
  <2>1. CompletedItems'
    BY <1>2 DEF PurgeItems, TasksOf, NoItem, TypeOK, CompletedItems
  <2>2. VerWaits'
    BY <1>2 DEF PurgeItems, TasksOf, NoItem, TypeOK, VerWaits
  <2>3. RetryWaits'
    BY <1>2 DEF PurgeItems, TasksOf, NoItem, TypeOK, RetryWaits
  <2>4. ResultFits'
    BY <1>2 DEF PurgeItems, TasksOf, NoItem, TypeOK, ResultFits
  <2>5. ReadyFits'
    BY <1>2 DEF PurgeItems, TasksOf, NoItem, TypeOK, ReadyFits
  <2>6. HalfWayGone'
    BY <1>2 DEF PurgeItems, TasksOf, NoItem, TypeOK, HalfWayGone
  <2>7. TodoOpen' /\ InHandOpen' /\ RowsOpen' /\ Kept
    BY <1>2 DEF PurgeItems, TodoOpen, InHandOpen, RowsOpen, Kept
  <2> QED
    BY <2>1, <2>2, <2>3, <2>4, <2>5, <2>6, <2>7
<1>3. CASE PurgeFile
  <2>1. CompletedItems'
    BY <1>3 DEF PurgeFile, TypeOK, CompletedItems
  <2>2. TodoOpen'
    BY <1>3 DEF PurgeFile, TypeOK, TodoOpen
  <2>3. InHandOpen'
    BY <1>3 DEF PurgeFile, TypeOK, InHandOpen
  <2>4. RowsOpen'
    BY <1>3 DEF PurgeFile, TypeOK, RowsOpen
  <2>5. ReadyFits'
    BY <1>3 DEF PurgeFile, TypeOK, ReadyFits
  <2>6. HalfWayGone'
    BY <1>3 DEF PurgeFile, TypeOK, HalfWayGone
  <2>7. Kept
    BY <1>3 DEF PurgeFile, TypeOK, Kept
  <2>8. VerWaits' /\ RetryWaits' /\ ResultFits'
    BY <1>3 DEF PurgeFile, VerWaits, RetryWaits, ResultFits
  <2> QED
    BY <2>1, <2>2, <2>3, <2>4, <2>5, <2>6, <2>7, <2>8
<1>4. CASE PurgeEnds
  <2>1. HalfWayGone'
    BY <1>4 DEF PurgeEnds, TypeOK, HalfWayGone
  <2>2. CompletedItems' /\ VerWaits' /\ RetryWaits' /\ TodoOpen' /\ InHandOpen'
        /\ ResultFits' /\ RowsOpen' /\ ReadyFits' /\ Kept
    BY <1>4 DEF PurgeEnds, CompletedItems, VerWaits, RetryWaits, TodoOpen,
       InHandOpen, ResultFits, RowsOpen, ReadyFits, Kept
  <2> QED
    BY <2>1, <2>2
<1>5. ASSUME NEW r \in Runs, RecoverRun(r) PROVE Open' /\ Kept
  <2>1. CompletedItems'
    BY <1>5 DEF RecoverRun, TasksOf, TypeOK, CompletedItems
  <2>2. TodoOpen'
    BY <1>5 DEF RecoverRun, TasksOf, TypeOK, TodoOpen
  <2>3. InHandOpen'
    BY <1>5 DEF RecoverRun, TasksOf, TypeOK, InHandOpen
  <2>4. RowsOpen'
    BY <1>5 DEF RecoverRun, TasksOf, TypeOK, RowsOpen
  <2>5. ReadyFits'
    BY <1>5 DEF RecoverRun, TasksOf, TypeOK, ReadyFits
  <2>6. HalfWayGone'
    BY <1>5 DEF RecoverRun, TasksOf, TypeOK, HalfWayGone
  <2>7. Kept
    BY <1>5 DEF RecoverRun, TasksOf, TypeOK, Kept
  <2>8. VerWaits' /\ RetryWaits' /\ ResultFits'
    BY <1>5 DEF RecoverRun, VerWaits, RetryWaits, ResultFits
  <2> QED
    BY <2>1, <2>2, <2>3, <2>4, <2>5, <2>6, <2>7, <2>8
<1>6. CASE TasksRecovered
  <2>1. HalfWayGone'
    BY <1>6 DEF TasksRecovered, TypeOK, HalfWayGone
  <2>2. CompletedItems' /\ VerWaits' /\ RetryWaits' /\ TodoOpen' /\ InHandOpen'
        /\ ResultFits' /\ RowsOpen' /\ ReadyFits' /\ Kept
    BY <1>6 DEF TasksRecovered, CompletedItems, VerWaits, RetryWaits, TodoOpen,
       InHandOpen, ResultFits, RowsOpen, ReadyFits, Kept
  <2> QED
    BY <2>1, <2>2
<1>7. CASE RecoverClaims
  <2>1. CompletedItems'
    BY <1>7 DEF RecoverClaims, Unclaimed, Ready, TypeOK, CompletedItems
  <2>2. VerWaits'
    BY <1>7 DEF RecoverClaims, Unclaimed, Ready, TypeOK, VerWaits
  <2>3. RetryWaits'
    BY <1>7 DEF RecoverClaims, Unclaimed, Ready, TypeOK, RetryWaits
  <2>4. ResultFits'
    BY <1>7 DEF RecoverClaims, Unclaimed, Ready, TypeOK, ResultFits
  <2>5. ReadyFits'
    BY <1>7 DEF RecoverClaims, Unclaimed, Ready, TypeOK, ReadyFits
  <2>6. HalfWayGone'
    BY <1>7 DEF RecoverClaims, Unclaimed, Ready, TypeOK, HalfWayGone
  <2>7. TodoOpen' /\ InHandOpen' /\ RowsOpen' /\ Kept
    BY <1>7 DEF RecoverClaims, TodoOpen, InHandOpen, RowsOpen, Kept
  <2> QED
    BY <2>1, <2>2, <2>3, <2>4, <2>5, <2>6, <2>7
<1>8. ASSUME NEW t \in Tasks, ReconcileItem(t) PROVE Open' /\ Kept
  <2>1. CompletedItems'
    BY <1>8 DEF ReconcileItem, Orphaned, Disowned, Leftover, CanMarkFailed,
       Failed, NoItem, TypeOK, CompletedItems
  <2>2. VerWaits'
    BY <1>8 DEF ReconcileItem, Orphaned, Disowned, Leftover, CanMarkFailed,
       Failed, NoItem, TypeOK, VerWaits
  <2>3. RetryWaits'
    BY <1>8 DEF ReconcileItem, Orphaned, Disowned, Leftover, CanMarkFailed,
       Failed, NoItem, TypeOK, RetryWaits
  <2>4. ResultFits'
    BY <1>8 DEF ReconcileItem, Orphaned, Disowned, Leftover, CanMarkFailed,
       Failed, NoItem, TypeOK, ResultFits
  <2>5. ReadyFits'
    BY <1>8 DEF ReconcileItem, Orphaned, Disowned, Leftover, CanMarkFailed,
       Failed, NoItem, TypeOK, ReadyFits
  <2>6. HalfWayGone'
    <3>1. Failed(item[t]).status = "failed" /\ NoItem.status = "none"
      BY DEF Failed, NoItem, TypeOK, Item
    <3>2. /\ item' \in {[item EXCEPT ![t] = Failed(item[t])], [item EXCEPT ![t] = NoItem]}
          /\ UNCHANGED <<store, phase>> /\ phase = "items"
      BY <1>8 DEF ReconcileItem
    <3>3. ASSUME NEW u \in Tasks
          PROVE  item'[u].status # "fetching"
      BY <3>1, <3>2 DEF HalfWayGone, TypeOK
    <3> QED
      BY <3>2, <3>3 DEF HalfWayGone
  <2>7. TodoOpen' /\ InHandOpen' /\ RowsOpen' /\ Kept
    BY <1>8 DEF ReconcileItem, TodoOpen, InHandOpen, RowsOpen, Kept
  <2> QED
    BY <2>1, <2>2, <2>3, <2>4, <2>5, <2>6, <2>7
<1>9. CASE ItemsReconciled
  <2>1. HalfWayGone'
    BY <1>9 DEF ItemsReconciled, TypeOK, HalfWayGone
  <2>2. CompletedItems' /\ VerWaits' /\ RetryWaits' /\ TodoOpen' /\ InHandOpen'
        /\ ResultFits' /\ RowsOpen' /\ ReadyFits' /\ Kept
    BY <1>9 DEF ItemsReconciled, CompletedItems, VerWaits, RetryWaits, TodoOpen,
       InHandOpen, ResultFits, RowsOpen, ReadyFits, Kept
  <2> QED
    BY <2>1, <2>2
<1>10. ASSUME NEW r \in Runs, SaveReconciled(r) PROVE Open' /\ Kept
  <2>1. CompletedItems'
    BY <1>10 DEF SaveReconciled, TasksOf, Reconciled, TypeOK, CompletedItems,
       Item, QueueStatus
  <2>2. TodoOpen'
    BY <1>10 DEF SaveReconciled, TasksOf, Reconciled, TypeOK, TodoOpen
  <2>3. InHandOpen'
    BY <1>10 DEF SaveReconciled, TasksOf, Reconciled, TypeOK, InHandOpen
  <2>4. RowsOpen'
    BY <1>10 DEF SaveReconciled, TasksOf, Reconciled, TypeOK, RowsOpen, Item,
       QueueStatus
  <2>5. ReadyFits'
    BY <1>10 DEF SaveReconciled, TasksOf, Reconciled, TypeOK, ReadyFits
  <2>6. HalfWayGone'
    BY <1>10 DEF SaveReconciled, TasksOf, Reconciled, TypeOK, HalfWayGone
  <2>7. Kept
    BY <1>10 DEF SaveReconciled, TasksOf, Reconciled, TypeOK, Kept
  <2>8. VerWaits' /\ RetryWaits' /\ ResultFits'
    BY <1>10 DEF SaveReconciled, VerWaits, RetryWaits, ResultFits
  <2> QED
    BY <2>1, <2>2, <2>3, <2>4, <2>5, <2>6, <2>7, <2>8
<1>11. CASE RecoveryEnds
  <2>1. ResultFits'
    BY <1>11 DEF RecoveryEnds, Loaded, TypeOK, ResultFits
  <2>2. RowsOpen'
    BY <1>11 DEF RecoveryEnds, Loaded, TypeOK, RowsOpen
  <2>3. HalfWayGone'
    BY <1>11 DEF RecoveryEnds, Loaded, TypeOK, HalfWayGone
  <2>4. CompletedItems' /\ VerWaits' /\ RetryWaits' /\ TodoOpen' /\ InHandOpen'
        /\ ReadyFits' /\ Kept
    BY <1>11 DEF RecoveryEnds, CompletedItems, VerWaits, RetryWaits, TodoOpen,
       InHandOpen, ReadyFits, Kept
  <2> QED
    BY <2>1, <2>2, <2>3, <2>4
<1>12. CASE RecoveryAborts
  <2>1. HalfWayGone'
    BY <1>12 DEF RecoveryAborts, TypeOK, HalfWayGone
  <2>2. CompletedItems' /\ VerWaits' /\ RetryWaits' /\ TodoOpen' /\ InHandOpen'
        /\ ResultFits' /\ RowsOpen' /\ ReadyFits' /\ Kept
    BY <1>12 DEF RecoveryAborts, CompletedItems, VerWaits, RetryWaits, TodoOpen,
       InHandOpen, ResultFits, RowsOpen, ReadyFits, Kept
  <2> QED
    BY <2>1, <2>2
<1> QED
  BY <1>1, <1>2, <1>3, <1>4, <1>5, <1>6, <1>7, <1>8, <1>9, <1>10, <1>11, <1>12 DEF StartUp

-----------------------------------------------------------------------------
\* No command of the user takes up a finished task.
LEMMA UserKeepsOpen ==
    IInv /\ Open /\ User => Open' /\ Kept
<1> SUFFICES ASSUME IInv, Open, User PROVE Open' /\ Kept OBVIOUS
<1> USE DEF IInv, Protocol, Open, StartsAlone, BusyInside, RetryAlone, BatchHolds,
            VerHolds, TaskStatus, Terminal, Completed, Awaiting, CrawlResults
<1>1. CASE Prepare
  <2>1. ResultFits'
    BY <1>1 DEF Prepare, TypeOK, ResultFits
  <2>2. RowsOpen'
    BY <1>1 DEF Prepare, TypeOK, RowsOpen
  <2>3. CompletedItems' /\ VerWaits' /\ RetryWaits' /\ TodoOpen' /\ InHandOpen'
        /\ ReadyFits' /\ HalfWayGone' /\ Kept
    BY <1>1 DEF Prepare, CompletedItems, VerWaits, RetryWaits, TodoOpen,
       InHandOpen, ReadyFits, HalfWayGone, Kept
  <2> QED
    BY <2>1, <2>2, <2>3
<1>2. CASE StopAfterCurrent
  <2>1. CompletedItems' /\ VerWaits' /\ RetryWaits' /\ TodoOpen' /\ InHandOpen'
        /\ ResultFits' /\ RowsOpen' /\ ReadyFits' /\ HalfWayGone' /\ Kept
    BY <1>2 DEF StopAfterCurrent, CompletedItems, VerWaits, RetryWaits, TodoOpen,
       InHandOpen, ResultFits, RowsOpen, ReadyFits, HalfWayGone, Kept
  <2> QED
    BY <2>1
<1>3. ASSUME NEW r \in Runs, NewBatch(r) PROVE Open' /\ Kept
  <2>1. CompletedItems'
    BY <1>3 DEF NewBatch, TasksOf, StartWorker, LaunchRefused, IdleBatch, TypeOK,
       CompletedItems
  <2>2. TodoOpen'
    BY <1>3, ZenonT(60) DEF NewBatch, TasksOf, StartWorker, LaunchRefused, IdleBatch, TypeOK,
       TodoOpen
  <2>3. InHandOpen'
    BY <1>3 DEF NewBatch, TasksOf, StartWorker, LaunchRefused, IdleBatch, TypeOK,
       InHandOpen
  <2>4. ResultFits'
    BY <1>3 DEF NewBatch, TasksOf, StartWorker, LaunchRefused, IdleBatch, TypeOK,
       ResultFits
  <2>5. RowsOpen'
    BY <1>3 DEF NewBatch, TasksOf, StartWorker, LaunchRefused, IdleBatch, TypeOK,
       RowsOpen
  <2>6. ReadyFits'
    BY <1>3 DEF NewBatch, TasksOf, StartWorker, LaunchRefused, IdleBatch, TypeOK,
       ReadyFits, OneEnd
  <2>7. HalfWayGone'
    BY <1>3 DEF NewBatch, TasksOf, StartWorker, LaunchRefused, IdleBatch, TypeOK,
       HalfWayGone
  <2>8. Kept
    BY <1>3 DEF NewBatch, TasksOf, StartWorker, LaunchRefused, IdleBatch, TypeOK,
       Kept
  <2>9. VerWaits' /\ RetryWaits'
    BY <1>3 DEF NewBatch, VerWaits, RetryWaits
  <2> QED
    BY <2>1, <2>2, <2>3, <2>4, <2>5, <2>6, <2>7, <2>8, <2>9
<1>4. ASSUME NEW t \in Tasks, StartPending(t) PROVE Open' /\ Kept
  <2>1. TodoOpen'
    BY <1>4 DEF StartPending, StartWorker, IdleBatch, TypeOK, TodoOpen, RowsOpen
  <2>2. InHandOpen'
    BY <1>4 DEF StartPending, StartWorker, IdleBatch, TypeOK, InHandOpen
  <2>3. ResultFits'
    BY <1>4 DEF StartPending, StartWorker, IdleBatch, TypeOK, ResultFits
  <2>4. CompletedItems' /\ VerWaits' /\ RetryWaits' /\ RowsOpen' /\ ReadyFits'
        /\ HalfWayGone' /\ Kept
    BY <1>4 DEF StartPending, StartWorker, IdleBatch, CompletedItems, VerWaits,
       RetryWaits, RowsOpen, ReadyFits, HalfWayGone, Kept
  <2> QED
    BY <2>1, <2>2, <2>3, <2>4
<1>5. ASSUME NEW t \in Tasks, Resume(t) PROVE Open' /\ Kept
  <2>1. CompletedItems'
    BY <1>5 DEF Resume, StartWorker, LaunchRefused, IdleBatch, CanBeginResume,
       Claimed, TypeOK, CompletedItems
  <2>2. VerWaits'
    BY <1>5 DEF Resume, StartWorker, LaunchRefused, IdleBatch, CanBeginResume,
       Claimed, TypeOK, VerWaits
  <2>3. RetryWaits'
    BY <1>5 DEF Resume, StartWorker, LaunchRefused, IdleBatch, CanBeginResume,
       Claimed, TypeOK, RetryWaits
  <2>4. TodoOpen'
    <3>1. store[t] \notin Completed /\ store' = store
      BY <1>5 DEF Resume, RowsOpen
    <3>2. CASE batch' = batch
      BY <3>1, <3>2 DEF TodoOpen
    <3>3. CASE StartWorker({t}, t)
      BY <3>1, <3>3 DEF StartWorker, IdleBatch, TodoOpen
    <3> QED
      BY <1>5, <3>2, <3>3 DEF Resume
  <2>5. InHandOpen'
    BY <1>5 DEF Resume, StartWorker, LaunchRefused, IdleBatch, CanBeginResume,
       Claimed, TypeOK, InHandOpen
  <2>6. ResultFits'
    BY <1>5 DEF Resume, StartWorker, LaunchRefused, IdleBatch, CanBeginResume,
       Claimed, TypeOK, ResultFits
  <2>7. ReadyFits'
    BY <1>5 DEF Resume, StartWorker, LaunchRefused, IdleBatch, CanBeginResume,
       Claimed, TypeOK, ReadyFits, OneEnd
  <2>8. HalfWayGone'
    BY <1>5 DEF Resume, StartWorker, LaunchRefused, IdleBatch, CanBeginResume,
       Claimed, TypeOK, HalfWayGone
  <2>9. RowsOpen' /\ Kept
    BY <1>5 DEF Resume, RowsOpen, Kept
  <2> QED
    BY <2>1, <2>2, <2>3, <2>4, <2>5, <2>6, <2>7, <2>8, <2>9
<1>6. ASSUME NEW t \in Tasks, RetryFailed(t) PROVE Open' /\ Kept
  <2>1. CompletedItems'
    BY <1>6 DEF RetryFailed, CanRetry, Retried, TypeOK, CompletedItems
  <2>2. VerWaits'
    BY <1>6 DEF RetryFailed, CanRetry, Retried, TypeOK, VerWaits
  <2>3. RetryWaits'
    BY <1>6 DEF RetryFailed, CanRetry, Retried, TypeOK, RetryWaits
  <2>4. ResultFits'
    BY <1>6 DEF RetryFailed, CanRetry, Retried, TypeOK, ResultFits
  <2>5. ReadyFits'
    BY <1>6 DEF RetryFailed, CanRetry, Retried, TypeOK, ReadyFits, OneEnd
  <2>6. HalfWayGone'
    BY <1>6 DEF RetryFailed, CanRetry, Retried, TypeOK, HalfWayGone
  <2>7. TodoOpen' /\ InHandOpen' /\ RowsOpen' /\ Kept
    BY <1>6 DEF RetryFailed, TodoOpen, InHandOpen, RowsOpen, Kept
  <2> QED
    BY <2>1, <2>2, <2>3, <2>4, <2>5, <2>6, <2>7
<1>7. ASSUME NEW t \in Tasks, StartVerification(t) PROVE Open' /\ Kept
  <2>1. VerWaits'
    BY <1>7 DEF StartVerification, IsPending, TypeOK, VerWaits
  <2>2. CompletedItems' /\ RetryWaits' /\ TodoOpen' /\ InHandOpen' /\ ResultFits'
        /\ RowsOpen' /\ ReadyFits' /\ HalfWayGone' /\ Kept
    BY <1>7 DEF StartVerification, CompletedItems, RetryWaits, TodoOpen,
       InHandOpen, ResultFits, RowsOpen, ReadyFits, HalfWayGone, Kept
  <2> QED
    BY <2>1, <2>2
<1> QED
  BY <1>1, <1>2, <1>3, <1>4, <1>5, <1>6, <1>7 DEF User

-----------------------------------------------------------------------------
\* No event shows a finished task as one to start.
LEMMA PumpKeepsOpen ==
    IInv /\ Open /\ Pump => Open' /\ Kept
<1> SUFFICES ASSUME IInv, Open, Pump PROVE Open' /\ Kept OBVIOUS
<1> USE DEF IInv, Protocol, Open, StartsAlone, BusyInside, RetryAlone, BatchHolds,
            VerHolds, TaskStatus, Terminal, Completed, Awaiting, CrawlResults
<1>1. CASE HandleEvent
  <2>1. /\ Head(events).kind = "ready" =>
              /\ Head(events).task \in Tasks /\ store[Head(events).task] \notin Completed
              /\ ~Crawlable(Head(events).task)
    <3>1. Head(events) = events[1] /\ 1 \in 1 .. Len(events)
      BY <1>1, Taking DEF HandleEvent, TypeOK
    <3> QED
      BY <3>1 DEF ReadyFits
  <2>2. ResultFits'
    BY <1>1, <2>1 DEF HandleEvent, ShownStatus, TypeOK, ResultFits
  <2>3. RowsOpen'
    BY <1>1, <2>1 DEF HandleEvent, ShownStatus, TypeOK, RowsOpen
  <2>4. ReadyFits'
    BY <1>1, <2>1 DEF HandleEvent, ShownStatus, TypeOK, ReadyFits
  <2>5. CompletedItems' /\ VerWaits' /\ RetryWaits' /\ TodoOpen' /\ InHandOpen'
        /\ HalfWayGone' /\ Kept
    BY <1>1 DEF HandleEvent, CompletedItems, VerWaits, RetryWaits, TodoOpen,
       InHandOpen, HalfWayGone, Kept
  <2> QED
    BY <2>2, <2>3, <2>4, <2>5
<1>2. CASE RetryRecorded
  <2>1. /\ retrying \in Tasks /\ store[retrying] \notin Completed
        /\ \A i \in 1 .. Len(events) : events[i].kind # "ready"
    BY <1>2, RetryOpen DEF RetryRecorded
  <2>2. CompletedItems'
    BY <1>2, <2>1 DEF RetryRecorded, TypeOK, CompletedItems
  <2>3. RetryWaits'
    BY <1>2, <2>1 DEF RetryRecorded, TypeOK, RetryWaits
  <2>4. TodoOpen'
    BY <1>2, <2>1 DEF RetryRecorded, TypeOK, TodoOpen
  <2>5. InHandOpen'
    BY <1>2, <2>1 DEF RetryRecorded, TypeOK, InHandOpen
  <2>6. ResultFits'
    BY <1>2, <2>1 DEF RetryRecorded, TypeOK, ResultFits
  <2>7. RowsOpen'
    BY <1>2, <2>1 DEF RetryRecorded, TypeOK, RowsOpen
  <2>8. ReadyFits'
    BY <1>2, <2>1 DEF RetryRecorded, TypeOK, ReadyFits
  <2>9. HalfWayGone'
    BY <1>2, <2>1 DEF RetryRecorded, TypeOK, HalfWayGone
  <2>10. Kept
    BY <1>2, <2>1 DEF RetryRecorded, TypeOK, Kept
  <2>11. VerWaits'
    BY <1>2 DEF RetryRecorded, VerWaits
  <2> QED
    BY <2>2, <2>3, <2>4, <2>5, <2>6, <2>7, <2>8, <2>9, <2>10, <2>11
<1> QED
  BY <1>1, <1>2 DEF Pump

-----------------------------------------------------------------------------
\* The batch worker finishes only what is not finished.
LEMMA BatchKeepsOpen ==
    IInv /\ Open /\ BatchStep => Open' /\ Kept
<1> SUFFICES ASSUME IInv, Open, BatchStep PROVE Open' /\ Kept OBVIOUS
<1> USE DEF IInv, Protocol, Open, StartsAlone, BusyInside, RetryAlone, BatchHolds,
            VerHolds, TaskStatus, Terminal, Completed, Awaiting, CrawlResults
<1>1. ASSUME NEW t \in Tasks, BatchCancels(t) PROVE Open' /\ Kept
  <2>1. /\ t \in batch.todo /\ Crawlable(t) /\ store[t] \notin Completed
        /\ batch.todo \subseteq Tasks /\ batch \in BatchState
    BY <1>1, HandOpen DEF BatchCancels
  <2>2. /\ batch'.todo \subseteq batch.todo /\ batch'.pc \in {"next", "aborted"}
        /\ \/ store' = store
           \/ store' = [store EXCEPT ![t] = "cancelled"] /\ t \notin batch'.todo
    BY <1>1, <2>1 DEF BatchCancels, Persist, Aborted, BatchState
  <2>3. CompletedItems'
    BY <1>1, <2>1, <2>2 DEF BatchCancels, Persist, Aborted, TypeOK, CompletedItems
  <2>4. TodoOpen'
    BY <1>1, <2>1, <2>2 DEF BatchCancels, Persist, Aborted, TypeOK, TodoOpen
  <2>5. InHandOpen'
    BY <1>1, <2>1, <2>2 DEF BatchCancels, Persist, Aborted, TypeOK, InHandOpen
  <2>6. ResultFits'
    BY <1>1, <2>1, <2>2 DEF BatchCancels, Persist, Aborted, TypeOK, ResultFits
  <2>7. RowsOpen'
    BY <1>1, <2>1, <2>2 DEF BatchCancels, Persist, Aborted, TypeOK, RowsOpen
  <2>8. ReadyFits'
    BY <1>1, <2>1, <2>2 DEF BatchCancels, Persist, Aborted, TypeOK, ReadyFits
  <2>9. HalfWayGone'
    BY <1>1, <2>1, <2>2 DEF BatchCancels, Persist, Aborted, TypeOK, HalfWayGone
  <2>10. Kept
    BY <1>1, <2>1, <2>2 DEF BatchCancels, Persist, Aborted, TypeOK, Kept
  <2>11. VerWaits' /\ RetryWaits'
    BY <1>1 DEF BatchCancels, VerWaits, RetryWaits
  <2> QED
    BY <2>3, <2>4, <2>5, <2>6, <2>7, <2>8, <2>9, <2>10, <2>11
<1>2. ASSUME NEW t \in Tasks, BatchTakes(t) PROVE Open' /\ Kept
  <2>1. /\ t \in batch.todo /\ Crawlable(t) /\ store[t] \notin Completed
        /\ batch.todo \subseteq Tasks /\ batch \in BatchState
    BY <1>2, HandOpen DEF BatchTakes
  <2>2. /\ batch'.todo \subseteq batch.todo
        /\ \/ store' = store /\ batch'.pc = "aborted"
           \/ /\ store' = [store EXCEPT ![t] = "fetching"]
              /\ batch'.pc = "crawl" /\ batch'.cur = t
    BY <1>2, <2>1, ZenonT(60) DEF BatchTakes, Persist, Aborted, BatchState
  <2>3. CompletedItems'
    BY <1>2, <2>1, <2>2 DEF BatchTakes, Persist, Aborted, TypeOK, CompletedItems
  <2>4. TodoOpen'
    BY <1>2, <2>1, <2>2 DEF BatchTakes, Persist, Aborted, TypeOK, TodoOpen
  <2>5. InHandOpen'
    BY <1>2, <2>1, <2>2 DEF BatchTakes, Persist, Aborted, TypeOK, InHandOpen
  <2>6. ResultFits'
    BY <1>2, <2>1, <2>2 DEF BatchTakes, Persist, Aborted, TypeOK, ResultFits
  <2>7. RowsOpen'
    BY <1>2, <2>1, <2>2 DEF BatchTakes, Persist, Aborted, TypeOK, RowsOpen
  <2>8. ReadyFits'
    BY <1>2, <2>1, <2>2 DEF BatchTakes, Persist, Aborted, TypeOK, ReadyFits
  <2>9. HalfWayGone'
    BY <1>2, <2>1, <2>2 DEF BatchTakes, Persist, Aborted, TypeOK, HalfWayGone
  <2>10. Kept
    BY <1>2, <2>1, <2>2 DEF BatchTakes, Persist, Aborted, TypeOK, Kept
  <2>11. VerWaits' /\ RetryWaits'
    BY <1>2 DEF BatchTakes, VerWaits, RetryWaits
  <2> QED
    BY <2>3, <2>4, <2>5, <2>6, <2>7, <2>8, <2>9, <2>10, <2>11
<1>3. ASSUME NEW result \in CrawlResults, BatchCrawls(result) PROVE Open' /\ Kept
  <2>1. /\ batch.cur \in Tasks /\ store[batch.cur] \notin Completed
        /\ batch \in BatchState /\ Crawlable(batch.cur)
    BY <1>3, HandOpen DEF BatchCrawls, BatchCrawlable
  <2>2. /\ batch'.todo = batch.todo /\ batch'.cur = batch.cur
        /\ \/ batch'.pc = "enqueue"
           \/ /\ batch'.pc = "persist" /\ batch'.result = result
              /\ ui' = [ui EXCEPT ![batch.cur] = result]
    BY <1>3, <2>1 DEF BatchCrawls, BatchState
  <2>3. TodoOpen'
    BY <1>3, <2>1, <2>2 DEF BatchCrawls, TypeOK, TodoOpen
  <2>4. InHandOpen'
    BY <1>3, <2>1, <2>2 DEF BatchCrawls, TypeOK, InHandOpen
  <2>5. ResultFits'
    BY <1>3, <2>1, <2>2 DEF BatchCrawls, TypeOK, ResultFits
  <2>6. RowsOpen'
    BY <1>3, <2>1, <2>2 DEF BatchCrawls, TypeOK, RowsOpen
  <2>7. CompletedItems' /\ VerWaits' /\ RetryWaits' /\ ReadyFits' /\ HalfWayGone'
        /\ Kept
    BY <1>3 DEF BatchCrawls, CompletedItems, VerWaits, RetryWaits, ReadyFits,
       HalfWayGone, Kept
  <2> QED
    BY <2>3, <2>4, <2>5, <2>6, <2>7
<1>4. CASE BatchEnqueues
  <2>1. CompletedItems'
    BY <1>4 DEF BatchEnqueues, CanEnqueue, Enqueued, TypeOK, CompletedItems,
       InHandOpen
  <2>2. VerWaits'
    BY <1>4 DEF BatchEnqueues, CanEnqueue, Enqueued, TypeOK, VerWaits
  <2>3. RetryWaits'
    BY <1>4 DEF BatchEnqueues, CanEnqueue, Enqueued, TypeOK, RetryWaits
  <2>4. TodoOpen'
    BY <1>4 DEF BatchEnqueues, CanEnqueue, Enqueued, TypeOK, TodoOpen
  <2>5. InHandOpen'
    BY <1>4 DEF BatchEnqueues, CanEnqueue, Enqueued, TypeOK, InHandOpen
  <2>6. ResultFits'
    BY <1>4 DEF BatchEnqueues, CanEnqueue, Enqueued, TypeOK, ResultFits
  <2>7. RowsOpen'
    BY <1>4 DEF BatchEnqueues, CanEnqueue, Enqueued, TypeOK, RowsOpen
  <2>8. ReadyFits'
    BY <1>4 DEF BatchEnqueues, CanEnqueue, Enqueued, TypeOK, ReadyFits
  <2>9. HalfWayGone'
    BY <1>4 DEF BatchEnqueues, CanEnqueue, Enqueued, TypeOK, HalfWayGone
  <2>10. Kept
    BY <1>4 DEF BatchEnqueues, Kept
  <2> QED
    BY <2>1, <2>2, <2>3, <2>4, <2>5, <2>6, <2>7, <2>8, <2>9, <2>10
<1>5. CASE BatchEnqueueFails
  <2>1. TodoOpen'
    BY <1>5 DEF BatchEnqueueFails, TypeOK, TodoOpen
  <2>2. InHandOpen'
    BY <1>5 DEF BatchEnqueueFails, TypeOK, InHandOpen
  <2>3. ResultFits'
    BY <1>5 DEF BatchEnqueueFails, TypeOK, ResultFits
  <2>4. RowsOpen'
    BY <1>5 DEF BatchEnqueueFails, TypeOK, RowsOpen
  <2>5. CompletedItems' /\ VerWaits' /\ RetryWaits' /\ ReadyFits' /\ HalfWayGone'
        /\ Kept
    BY <1>5 DEF BatchEnqueueFails, CompletedItems, VerWaits, RetryWaits,
       ReadyFits, HalfWayGone, Kept
  <2> QED
    BY <2>1, <2>2, <2>3, <2>4, <2>5
<1>6. CASE BatchPersists
  <2>1. /\ batch.cur \in Tasks /\ store[batch.cur] \notin Completed
        /\ batch \in BatchState /\ batch.todo \subseteq Tasks /\ batch.cur \notin batch.todo
    BY <1>6, HandOpen DEF BatchPersists
  <2>2. /\ batch'.todo = batch.todo
        /\ \/ /\ store' = [store EXCEPT ![batch.cur] = batch.result]
              /\ batch'.pc = "next" /\ UNCHANGED ui
           \/ /\ UNCHANGED store /\ batch'.pc = "persist" /\ batch'.result = "failed"
              /\ batch'.cur = batch.cur /\ ui' = [ui EXCEPT ![batch.cur] = "failed"]
           \/ UNCHANGED <<store, ui>> /\ batch'.pc = "aborted"
    BY <1>6, <2>1 DEF BatchPersists, Aborted, BatchState
  <2>3. CompletedItems'
    BY <1>6, <2>1, <2>2 DEF BatchPersists, Aborted, TypeOK, CompletedItems,
       ResultFits
  <2>4. TodoOpen'
    BY <1>6, <2>1, <2>2 DEF BatchPersists, Aborted, TypeOK, TodoOpen
  <2>5. InHandOpen'
    BY <1>6, <2>1, <2>2 DEF BatchPersists, Aborted, TypeOK, InHandOpen
  <2>6. ResultFits'
    BY <1>6, <2>1, <2>2 DEF BatchPersists, Aborted, TypeOK, ResultFits
  <2>7. RowsOpen'
    BY <1>6, <2>1, <2>2 DEF BatchPersists, Aborted, TypeOK, RowsOpen, ResultFits
  <2>8. ReadyFits'
    <3>1. item' = item /\ \A i \in 1 .. Len(events) : events[i].kind = "ready" =>
              store'[events[i].task] \notin Completed
      BY <1>6, <2>1, <2>2 DEF BatchPersists, ReadyFits, ResultFits, TypeOK
    <3>2. CASE events' = events
      BY <3>1, <3>2 DEF ReadyFits
    <3>3. CASE events' = Append(events, Event("required", batch.cur))
      BY <2>1, <3>1, <3>3, ReadyAfterPost DEF ReadyFits
    <3> QED
      BY <1>6, <3>2, <3>3 DEF BatchPersists
  <2>9. HalfWayGone'
    BY <1>6, <2>1, <2>2 DEF BatchPersists, Aborted, TypeOK, HalfWayGone
  <2>10. Kept
    BY <1>6, <2>1, <2>2 DEF BatchPersists, Aborted, TypeOK, Kept
  <2>11. VerWaits' /\ RetryWaits'
    BY <1>6 DEF BatchPersists, VerWaits, RetryWaits
  <2> QED
    BY <2>3, <2>4, <2>5, <2>6, <2>7, <2>8, <2>9, <2>10, <2>11
<1>7. CASE BatchFinishes
  <2>1. CompletedItems'
    <3>1. ASSUME NEW u \in Tasks, store[u] \in Completed
          PROVE  item'[u] \in {item[u], NoItem}
      BY <1>7, <3>1 DEF BatchFinishes, Settled, TypeOK
    <3> QED
      BY <1>7, <3>1 DEF BatchFinishes, CompletedItems, NoItem
  <2>2. VerWaits'
    <3> SUFFICES ASSUME VerInside
                 PROVE  item'[ver.task].status \in {"verification_required", "failed"}
      BY <1>7 DEF BatchFinishes, VerWaits
    <3>1. ver.task \in Tasks /\ item[ver.task].status \in {"verification_required", "failed"}
      BY DEF VerWaits
    <3>2. item'[ver.task] \in {item[ver.task], Failed(item[ver.task])}
      BY <1>7, <3>1 DEF BatchFinishes, Settled, CanCompleteResume, TypeOK
    <3>3. Failed(item[ver.task]).status = "failed"
      BY <3>1 DEF Failed, TypeOK, Item
    <3> QED
      BY <3>1, <3>2, <3>3
  <2>3. RetryWaits'
    BY <1>7 DEF BatchFinishes, Settled, IdleBatch, CanCompleteResume,
       CanMarkFailed, NoItem, Failed, TypeOK, RetryWaits
  <2>4. TodoOpen'
    BY <1>7 DEF BatchFinishes, Settled, IdleBatch, CanCompleteResume,
       CanMarkFailed, NoItem, Failed, TypeOK, TodoOpen
  <2>5. InHandOpen'
    BY <1>7 DEF BatchFinishes, Settled, IdleBatch, CanCompleteResume,
       CanMarkFailed, NoItem, Failed, TypeOK, InHandOpen
  <2>6. ResultFits'
    BY <1>7 DEF BatchFinishes, Settled, IdleBatch, CanCompleteResume,
       CanMarkFailed, NoItem, Failed, TypeOK, ResultFits
  <2>7. ReadyFits'
    <3>1. events' = Append(events, Event("finished", NoTask)) /\ store' = store
      BY <1>7 DEF BatchFinishes
    <3>2. ASSUME NEW u \in Tasks, item[u].status \in {"ready_to_resume", "failed"}
          PROVE  item'[u].status \in {"ready_to_resume", "failed"}
      <4>1. item'[u] \in {item[u], Failed(item[u])}
        BY <1>7, <3>2 DEF BatchFinishes, Settled, CanCompleteResume, TypeOK
      <4>2. Failed(item[u]).status = "failed"
        BY DEF Failed, TypeOK, Item
      <4> QED
        BY <3>2, <4>1, <4>2
    <3> QED
      BY <3>1, <3>2, ReadyAfterPost DEF ReadyFits
  <2>8. HalfWayGone'
    BY <1>7 DEF BatchFinishes, Settled, IdleBatch, CanCompleteResume,
       CanMarkFailed, NoItem, Failed, TypeOK, HalfWayGone
  <2>9. RowsOpen' /\ Kept
    BY <1>7 DEF BatchFinishes, RowsOpen, Kept
  <2> QED
    BY <2>1, <2>2, <2>3, <2>4, <2>5, <2>6, <2>7, <2>8, <2>9
<1>8. CASE BatchExits
  <2>1. TodoOpen'
    BY <1>8 DEF BatchExits, IdleBatch, TypeOK, TodoOpen
  <2>2. InHandOpen'
    BY <1>8 DEF BatchExits, IdleBatch, TypeOK, InHandOpen
  <2>3. ResultFits'
    BY <1>8 DEF BatchExits, IdleBatch, TypeOK, ResultFits
  <2>4. CompletedItems' /\ VerWaits' /\ RetryWaits' /\ RowsOpen' /\ ReadyFits'
        /\ HalfWayGone' /\ Kept
    BY <1>8 DEF BatchExits, CompletedItems, VerWaits, RetryWaits, RowsOpen,
       ReadyFits, HalfWayGone, Kept
  <2> QED
    BY <2>1, <2>2, <2>3, <2>4
<1> QED
  BY <1>1, <1>2, <1>3, <1>4, <1>5, <1>6, <1>7, <1>8 DEF BatchStep

-----------------------------------------------------------------------------
\* A verification writes only the task its item waits for.
LEMMA VerifyKeepsOpen ==
    IInv /\ Open /\ VerifyStep => Open' /\ Kept
<1> SUFFICES ASSUME IInv, Open, VerifyStep PROVE Open' /\ Kept OBVIOUS
<1> USE DEF IInv, Protocol, Open, StartsAlone, BusyInside, RetryAlone, BatchHolds,
            VerHolds, TaskStatus, Terminal, Completed, Awaiting, CrawlResults
<1>1. CASE VerifyConfirmed
  <2>1. /\ ver.task \in Tasks /\ store[ver.task] \notin Completed
        /\ \A i \in 1 .. Len(events) : events[i].kind # "ready"
        /\ batch.todo \subseteq Tasks
    BY <1>1, VerOpen, HandOpen DEF VerifyConfirmed
  <2>2. CompletedItems'
    BY <1>1, <2>1 DEF VerifyConfirmed, VerifyGoes, TypeOK, CompletedItems
  <2>3. VerWaits'
    BY <1>1, <2>1 DEF VerifyConfirmed, VerifyGoes, TypeOK, VerWaits, VerState
  <2>4. TodoOpen'
    BY <1>1, <2>1 DEF VerifyConfirmed, VerifyGoes, TypeOK, TodoOpen
  <2>5. InHandOpen'
    BY <1>1, <2>1 DEF VerifyConfirmed, VerifyGoes, TypeOK, InHandOpen
  <2>6. RowsOpen'
    BY <1>1, <2>1 DEF VerifyConfirmed, VerifyGoes, TypeOK, RowsOpen
  <2>7. ReadyFits'
    BY <1>1, <2>1 DEF VerifyConfirmed, VerifyGoes, TypeOK, ReadyFits
  <2>8. HalfWayGone'
    BY <1>1, <2>1 DEF VerifyConfirmed, VerifyGoes, TypeOK, HalfWayGone
  <2>9. Kept
    BY <1>1, <2>1 DEF VerifyConfirmed, VerifyGoes, TypeOK, Kept
  <2>10. RetryWaits' /\ ResultFits'
    BY <1>1 DEF VerifyConfirmed, RetryWaits, ResultFits
  <2> QED
    BY <2>2, <2>3, <2>4, <2>5, <2>6, <2>7, <2>8, <2>9, <2>10
<1>2. CASE VerifyMarksReady
  <2>1. CompletedItems'
    BY <1>2 DEF VerifyMarksReady, VerifyGoes, CanMarkReady, Ready, TypeOK,
       CompletedItems
  <2>2. VerWaits'
    BY <1>2 DEF VerifyMarksReady, VerifyGoes, CanMarkReady, Ready, TypeOK,
       VerWaits
  <2>3. RetryWaits'
    BY <1>2 DEF VerifyMarksReady, VerifyGoes, CanMarkReady, Ready, TypeOK,
       RetryWaits
  <2>4. ResultFits'
    BY <1>2 DEF VerifyMarksReady, VerifyGoes, CanMarkReady, Ready, TypeOK,
       ResultFits
  <2>5. ReadyFits'
    <3>1. /\ ver.task \in Tasks /\ store[ver.task] \notin Completed
          /\ \A i \in 1 .. Len(events) : events[i].kind # "ready"
      BY <1>2, VerOpen DEF VerifyMarksReady
    <3>2. /\ events' = Append(events, Event("ready", ver.task)) /\ store' = store
          /\ item'[ver.task].status = "ready_to_resume"
      BY <1>2, <3>1 DEF VerifyMarksReady, Ready, TypeOK, Item
    <3> QED
      BY <3>1, <3>2, ReadyAfterPost
  <2>6. HalfWayGone'
    BY <1>2 DEF VerifyMarksReady, VerifyGoes, CanMarkReady, Ready, TypeOK,
       HalfWayGone
  <2>7. TodoOpen' /\ InHandOpen' /\ RowsOpen' /\ Kept
    BY <1>2 DEF VerifyMarksReady, TodoOpen, InHandOpen, RowsOpen, Kept
  <2> QED
    BY <2>1, <2>2, <2>3, <2>4, <2>5, <2>6, <2>7
<1>3. CASE VerifyMarkFails
  <2>1. VerWaits'
    BY <1>3 DEF VerifyMarkFails, VerifyGoes, TypeOK, VerWaits
  <2>2. CompletedItems' /\ RetryWaits' /\ TodoOpen' /\ InHandOpen' /\ ResultFits'
        /\ RowsOpen' /\ ReadyFits' /\ HalfWayGone' /\ Kept
    BY <1>3 DEF VerifyMarkFails, CompletedItems, RetryWaits, TodoOpen, InHandOpen,
       ResultFits, RowsOpen, ReadyFits, HalfWayGone, Kept
  <2> QED
    BY <2>1, <2>2
<1>4. CASE VerifyReverts
  <2>1. /\ ver.task \in Tasks /\ store[ver.task] \notin Completed
        /\ \A i \in 1 .. Len(events) : events[i].kind # "ready"
        /\ batch.todo \subseteq Tasks
    BY <1>4, VerOpen, HandOpen DEF VerifyReverts
  <2>2. CompletedItems'
    BY <1>4, <2>1 DEF VerifyReverts, VerifyGoes, TypeOK, CompletedItems
  <2>3. VerWaits'
    BY <1>4, <2>1 DEF VerifyReverts, VerifyGoes, TypeOK, VerWaits, VerState
  <2>4. TodoOpen'
    BY <1>4, <2>1 DEF VerifyReverts, VerifyGoes, TypeOK, TodoOpen
  <2>5. InHandOpen'
    BY <1>4, <2>1 DEF VerifyReverts, VerifyGoes, TypeOK, InHandOpen
  <2>6. RowsOpen'
    BY <1>4, <2>1 DEF VerifyReverts, VerifyGoes, TypeOK, RowsOpen
  <2>7. ReadyFits'
    BY <1>4, <2>1 DEF VerifyReverts, VerifyGoes, TypeOK, ReadyFits
  <2>8. HalfWayGone'
    BY <1>4, <2>1 DEF VerifyReverts, VerifyGoes, TypeOK, HalfWayGone
  <2>9. Kept
    BY <1>4, <2>1 DEF VerifyReverts, VerifyGoes, TypeOK, Kept
  <2>10. RetryWaits' /\ ResultFits'
    BY <1>4 DEF VerifyReverts, RetryWaits, ResultFits
  <2> QED
    BY <2>2, <2>3, <2>4, <2>5, <2>6, <2>7, <2>8, <2>9, <2>10
<1>5. CASE VerifyGivesUp
  <2>1. VerWaits'
    BY <1>5 DEF VerifyGivesUp, VerifyGoes, TypeOK, VerWaits
  <2>2. CompletedItems' /\ RetryWaits' /\ TodoOpen' /\ InHandOpen' /\ ResultFits'
        /\ RowsOpen' /\ ReadyFits' /\ HalfWayGone' /\ Kept
    BY <1>5 DEF VerifyGivesUp, CompletedItems, RetryWaits, TodoOpen, InHandOpen,
       ResultFits, RowsOpen, ReadyFits, HalfWayGone, Kept
  <2> QED
    BY <2>1, <2>2
<1>6. CASE VerifyDefers
  <2>1. CompletedItems'
    BY <1>6 DEF VerifyDefers, CanDefer, Deferred, TypeOK, CompletedItems
  <2>2. VerWaits'
    BY <1>6 DEF VerifyDefers, CanDefer, Deferred, TypeOK, VerWaits
  <2>3. RetryWaits'
    BY <1>6 DEF VerifyDefers, CanDefer, Deferred, TypeOK, RetryWaits
  <2>4. ResultFits'
    BY <1>6 DEF VerifyDefers, CanDefer, Deferred, TypeOK, ResultFits
  <2>5. ReadyFits'
    BY <1>6 DEF VerifyDefers, CanDefer, Deferred, TypeOK, ReadyFits
  <2>6. HalfWayGone'
    BY <1>6 DEF VerifyDefers, CanDefer, Deferred, TypeOK, HalfWayGone
  <2>7. TodoOpen' /\ InHandOpen' /\ RowsOpen' /\ Kept
    BY <1>6 DEF VerifyDefers, TodoOpen, InHandOpen, RowsOpen, Kept
  <2> QED
    BY <2>1, <2>2, <2>3, <2>4, <2>5, <2>6, <2>7
<1>7. CASE VerifyDeferFails
  <2>1. VerWaits'
    BY <1>7 DEF VerifyDeferFails, VerifyGoes, TypeOK, VerWaits
  <2>2. ReadyFits'
    <3>1. ver.task \in Tasks /\ events' = Append(events, Event("deferred", ver.task))
          /\ \A i \in 1 .. Len(events) : events[i].kind # "ready"
      BY <1>7, VerOpen DEF VerifyDeferFails
    <3> QED
      BY <3>1, ReadyAfterPost
  <2>3. CompletedItems' /\ RetryWaits' /\ TodoOpen' /\ InHandOpen' /\ ResultFits'
        /\ RowsOpen' /\ HalfWayGone' /\ Kept
    BY <1>7 DEF VerifyDeferFails, CompletedItems, RetryWaits, TodoOpen,
       InHandOpen, ResultFits, RowsOpen, HalfWayGone, Kept
  <2> QED
    BY <2>1, <2>2, <2>3
<1>8. CASE VerifyRecords
  <2>1. /\ ver.task \in Tasks /\ store[ver.task] \notin Completed
        /\ \A i \in 1 .. Len(events) : events[i].kind # "ready"
        /\ batch.todo \subseteq Tasks
    BY <1>8, VerOpen, HandOpen DEF VerifyRecords
  <2>2. CompletedItems'
    BY <1>8, <2>1 DEF VerifyRecords, VerifyGoes, TypeOK, CompletedItems
  <2>3. VerWaits'
    BY <1>8, <2>1 DEF VerifyRecords, VerifyGoes, TypeOK, VerWaits, VerState
  <2>4. TodoOpen'
    BY <1>8, <2>1 DEF VerifyRecords, VerifyGoes, TypeOK, TodoOpen
  <2>5. InHandOpen'
    BY <1>8, <2>1 DEF VerifyRecords, VerifyGoes, TypeOK, InHandOpen
  <2>6. RowsOpen'
    BY <1>8, <2>1 DEF VerifyRecords, VerifyGoes, TypeOK, RowsOpen
  <2>7. ReadyFits'
    <3>1. PICK k \in {"failed", "deferred"} : events' = Append(events, Event(k, ver.task))
      BY <1>8 DEF VerifyRecords
    <3> QED
      BY <2>1, <3>1, ReadyAfterPost
  <2>8. HalfWayGone'
    BY <1>8, <2>1 DEF VerifyRecords, VerifyGoes, TypeOK, HalfWayGone
  <2>9. Kept
    BY <1>8, <2>1 DEF VerifyRecords, VerifyGoes, TypeOK, Kept
  <2>10. RetryWaits' /\ ResultFits'
    BY <1>8 DEF VerifyRecords, RetryWaits, ResultFits
  <2> QED
    BY <2>2, <2>3, <2>4, <2>5, <2>6, <2>7, <2>8, <2>9, <2>10
<1>9. CASE VerifyExits
  <2>1. VerWaits'
    BY <1>9 DEF VerifyExits, IdleVer, TypeOK, VerWaits
  <2>2. CompletedItems' /\ RetryWaits' /\ TodoOpen' /\ InHandOpen' /\ ResultFits'
        /\ RowsOpen' /\ ReadyFits' /\ HalfWayGone' /\ Kept
    BY <1>9 DEF VerifyExits, CompletedItems, RetryWaits, TodoOpen, InHandOpen,
       ResultFits, RowsOpen, ReadyFits, HalfWayGone, Kept
  <2> QED
    BY <2>1, <2>2
<1> QED
  BY <1>1, <1>2, <1>3, <1>4, <1>5, <1>6, <1>7, <1>8, <1>9 DEF VerifyStep

-----------------------------------------------------------------------------
\* A crash ends every thread and leaves the files.
LEMMA CrashKeepsOpen ==
    Open /\ Crash => Open' /\ Kept
<1> SUFFICES ASSUME Open, Crash PROVE Open' /\ Kept OBVIOUS
<1>1. CompletedItems' /\ Kept
  BY DEF Crash, Open, CompletedItems, Kept
<1>2. VerWaits' /\ RetryWaits' /\ TodoOpen' /\ InHandOpen' /\ ResultFits'
  BY DEF Crash, IdleVer, IdleBatch, VerWaits, RetryWaits, TodoOpen, InHandOpen, ResultFits
<1>3. RowsOpen' /\ ReadyFits' /\ HalfWayGone'
  BY DEF Crash, RowsOpen, ReadyFits, HalfWayGone
<1> QED
  BY <1>1, <1>2, <1>3 DEF Open

LEMMA InitOpen == Init => Open
BY DEF Init, IdleVer, IdleBatch, NoItem, Open, CompletedItems, VerWaits, RetryWaits,
       TodoOpen, InHandOpen, ResultFits, RowsOpen, ReadyFits, HalfWayGone, Completed

LEMMA StutterKeepsOpen ==
    Open /\ UNCHANGED vars => Open' /\ Kept
BY DEF vars, Open, Kept, CompletedItems, VerWaits, RetryWaits, TodoOpen, InHandOpen,
       ResultFits, RowsOpen, ReadyFits, HalfWayGone

LEMMA StepsKeepOpen ==
    IInv /\ Open /\ [Next]_vars => Open' /\ Kept
BY StartUpKeepsOpen, UserKeepsOpen, PumpKeepsOpen, BatchKeepsOpen, VerifyKeepsOpen,
   CrashKeepsOpen, StutterKeepsOpen DEF Next

\* Who is about to overwrite a status has a task that is not finished, through crashes too.
THEOREM OpenInvariant == Spec => []Open
<1>1. IInv /\ Open /\ [Next]_vars => Open'
  BY StepsKeepOpen
<1> QED
  BY Invariant, InitOpen, <1>1, PTL DEF Spec

\* A finished task keeps its status on disk until the retention purge removes its run,
\* whatever the other worker, the recovery or a crash does.
THEOREM FinishedIsFinalHolds == Spec => FinishedIsFinal
<1>1. IInv /\ Open /\ [Next]_vars =>
        [\A t \in Tasks : store[t] \in Completed =>
            \/ store'[t] = store[t]
            \/ phase = "purge" /\ store'[t] = "absent"]_vars
  BY StepsKeepOpen DEF Kept
<1> QED
  BY Invariant, OpenInvariant, <1>1, PTL DEF Spec, FinishedIsFinal

\* What a recovery leaves when it ends: no running task, no claim, and every other
\* unfinished task with the status of its item and a row.
LEMMA RecoveryReconciles ==
    IInv /\ Open /\ RecoveryEnds =>
        \A t \in Tasks :
           /\ item[t].status # "fetching"
           /\ store[t] \in Awaiting => item[t].status = store[t]
           /\ store[t] \notin Terminal \cup {"absent"} =>
                 t \in view' /\ ui'[t] \in {"pending"} \cup Awaiting
<1> SUFFICES ASSUME IInv, Open, RecoveryEnds, NEW t \in Tasks
             PROVE  /\ item[t].status # "fetching"
                    /\ store[t] \in Awaiting => item[t].status = store[t]
                    /\ store[t] \notin Terminal \cup {"absent"} =>
                          t \in view' /\ ui'[t] \in {"pending"} \cup Awaiting
  OBVIOUS
<1>1. item[t].status # "fetching" /\ store[t] # "fetching"
  BY DEF RecoveryEnds, Open, HalfWayGone
<1>2. store[t] \in Awaiting => HasItem(t)
  BY DEF IInv, AwaitingHasItem
<1>3. store[t] \in Awaiting => item[t].status = store[t]
  BY <1>2 DEF RecoveryEnds, Reconciled, Awaiting, Terminal, Completed
<1>4. store[t] \notin Terminal \cup {"absent"} => t \in Loaded
  BY TasksAssumption DEF Loaded, Terminal, TasksOf
<1>5. store[t] \in TaskStatus \cup {"absent"}
  BY DEF IInv, TypeOK
<1> QED
  BY <1>1, <1>3, <1>4, <1>5 DEF RecoveryEnds, TaskStatus

\* When a recovery ends, the two files tell one story.
THEOREM OpensReconciledHolds == Spec => OpensReconciled
<1>1. IInv /\ Open =>
        [RecoveryEnds =>
          \A t \in Tasks :
             /\ item[t].status # "fetching"
             /\ store[t] \in Awaiting => item[t].status = store[t]
             /\ store[t] \notin Terminal \cup {"absent"} =>
                   t \in view' /\ ui'[t] \in {"pending"} \cup Awaiting]_vars
  BY RecoveryReconciles
<1> QED
  BY Invariant, OpenInvariant, <1>1, PTL DEF Spec, OpensReconciled

-----------------------------------------------------------------------------
(* The outcome a row shows is the one on disk.                             *)
(*                                                                         *)
(* A row takes its outcome from the batch worker at once and from the      *)
(* events later, so the events on their way are about tasks that wait, and *)
(* those of a batch come before its end.  A failing write would leave an   *)
(* outcome in the window only: the results below assume that none fails.   *)

Waits(i) == i.status \in {"verification_required", "ready_to_resume", "failed"}

\* The window opens empty.
StartsEmpty == phase # "up" => view = {}

\* An event on its way is about a task that waits, whatever was done since.
EventsWait ==
    \A i \in 1 .. Len(events) : events[i].kind # "finished" =>
        events[i].task \in Tasks /\ Waits(item[events[i].task]) /\ store[events[i].task] \notin Completed

\* What a batch tells of its tasks comes before it tells that it is done.
ToldFirst ==
    \A i \in 1 .. Len(events) : events[i].kind = "required" =>
        running /\ \A j \in 1 .. i : events[j].kind # "finished"

\* What the batch worker is about to record is shown already.
HandWaits == batch.pc = "persist" /\ batch.result = "verification_required" => Waits(item[batch.cur])
HandShows ==
    batch.pc = "persist" /\ batch.cur \in view =>
        IF batch.result \in Completed THEN ui[batch.cur] = batch.result ELSE ui[batch.cur] \notin Completed

\* The other rows show the outcome on disk.
Agrees(t)  == ui[t] \in Completed \/ store[t] \in Completed => ui[t] = store[t]
RowsAgree  == \A t \in view : (batch.pc = "persist" => t # batch.cur) => Agrees(t)

Told == StartsEmpty /\ EventsWait /\ ToldFirst /\ HandWaits /\ HandShows /\ RowsAgree

USE DEF Waits

\* A posted event leaves those before it alone.
LEMMA ToldAfterPost ==
    ASSUME IInv, Told, NEW k \in {"finished", "required", "ready", "deferred", "failed"},
           NEW t \in Tasks \cup {NoTask}, events' = Append(events, Event(k, t)), running' = running,
           \A u \in Tasks : Waits(item[u]) /\ store[u] \notin Completed => Waits(item'[u]) /\ store'[u] \notin Completed,
           k # "finished" => t \in Tasks /\ Waits(item'[t]) /\ store'[t] \notin Completed,
           k = "required" => running /\ \A i \in 1 .. Len(events) : events[i].kind # "finished"
    PROVE  EventsWait' /\ ToldFirst'
<1>1. events \in Seq(UiEvent) /\ Event(k, t) \in UiEvent
  BY Events DEF IInv, TypeOK
<1>2. /\ Len(events') = Len(events) + 1 /\ Len(events) \in Nat
      /\ \A i \in 1 .. Len(events) : events'[i] = events[i]
      /\ events'[Len(events) + 1] = Event(k, t)
      /\ Event(k, t).kind = k /\ Event(k, t).task = t
  BY <1>1, Posting DEF Event
<1>3. EventsWait'
  <2> SUFFICES ASSUME NEW i \in 1 .. Len(events'), events'[i].kind # "finished"
               PROVE  events'[i].task \in Tasks /\ Waits(item'[events'[i].task])
                      /\ store'[events'[i].task] \notin Completed
    BY DEF EventsWait
  <2>1. CASE i \in 1 .. Len(events)
    BY <1>2, <2>1 DEF Told, EventsWait
  <2>2. CASE i = Len(events) + 1
    BY <1>2, <2>2
  <2> QED
    BY <1>2, <2>1, <2>2
<1>4. ToldFirst'
  <2> SUFFICES ASSUME NEW i \in 1 .. Len(events'), events'[i].kind = "required"
               PROVE  running' /\ \A j \in 1 .. i : events'[j].kind # "finished"
    BY DEF ToldFirst
  <2>1. CASE i \in 1 .. Len(events)
    BY <1>2, <2>1 DEF Told, ToldFirst
  <2>2. CASE i = Len(events) + 1
    BY <1>2, <2>2
  <2> QED
    BY <1>2, <2>1, <2>2
<1> QED
  BY <1>3, <1>4

\* The events on their way stay true while what waits does.
LEMMA ToldUnposted ==
    ASSUME Told, events' = events, running' = running \/ running',
           \A u \in Tasks : Waits(item[u]) /\ store[u] \notin Completed => Waits(item'[u]) /\ store'[u] \notin Completed
    PROVE  EventsWait' /\ ToldFirst'
BY DEF Told, EventsWait, ToldFirst

LEMMA StartUpTells ==
    ASSUME ~WritesMayFail, IInv, Told, StartUp
    PROVE  Told'
<1>1. /\ phase # "up" /\ UNCHANGED <<batch, events>>
      /\ (UNCHANGED <<view, ui>> /\ phase' # "up")
            \/ (view' = Loaded /\ phase' = "up" /\ store' = store
                /\ ui' = [t \in Tasks |-> IF t \in Loaded THEN store[t] ELSE "none"])
  BY DEF StartUp, Launch, PurgeItems, PurgeFile, PurgeEnds, RecoverRun, TasksRecovered, RecoverClaims,
         ReconcileItem, ItemsReconciled, SaveReconciled, RecoveryEnds, RecoveryAborts
<1>2. view = {} /\ events = <<>> /\ batch.pc = "idle"
  BY <1>1 DEF Told, StartsEmpty, IInv, Protocol, StartsAlone
<1>3. EventsWait' /\ ToldFirst' /\ HandWaits' /\ HandShows'
  BY <1>1, <1>2 DEF EventsWait, ToldFirst, HandWaits, HandShows
<1>4. StartsEmpty' /\ RowsAgree'
  BY <1>1, <1>2 DEF StartsEmpty, RowsAgree, Agrees, Loaded
<1> QED
  BY <1>3, <1>4 DEF Told

LEMMA UserTells ==
    ASSUME ~WritesMayFail, IInv, Open, Told, User
    PROVE  Told'
<1>0. phase = "up" /\ phase' = "up" /\ StartsEmpty'
  BY DEF User, Prepare, StopAfterCurrent, NewBatch, StartPending, Resume, RetryFailed, StartVerification,
         StartsEmpty
<1>1. CASE Prepare
  <2>1. UNCHANGED <<store, item, events, running, batch>> /\ view' = {}
    BY <1>1 DEF Prepare
  <2> QED
    BY <1>0, <2>1, ToldUnposted DEF Told, HandWaits, HandShows, RowsAgree
<1>2. CASE StopAfterCurrent \/ \E t \in Tasks : StartVerification(t)
  <2>1. UNCHANGED <<store, item, events, running, batch, view, ui>>
    BY <1>2 DEF StopAfterCurrent, StartVerification
  <2> QED
    BY <1>0, <2>1, ToldUnposted DEF Told, HandWaits, HandShows, RowsAgree, Agrees
\* A start finds the worker outside and no event of an earlier batch on its way.
<1>3. MayStart => batch.pc \in {"idle", "exiting"} /\ \A i \in 1 .. Len(events) : FALSE
  <2> SUFFICES ASSUME MayStart, NEW i \in 1 .. Len(events) PROVE FALSE
    BY DEF IInv, Protocol, BusyInside, TypeOK, BatchState
  <2>1. events[i].kind \in {"finished", "required", "ready", "deferred", "failed"}
    <3>1. events[i] \in UiEvent
      BY DEF IInv, TypeOK
    <3> QED
      BY <3>1 DEF UiEvent
  <2> QED
    BY <2>1 DEF IInv, Protocol, OneFinished, OneEnd, Told, ToldFirst
<1>4. ASSUME MayStart, events' = events PROVE EventsWait' /\ ToldFirst'
  BY <1>3, <1>4 DEF EventsWait, ToldFirst
<1>5. ASSUME NEW r \in Runs, NewBatch(r) PROVE Told'
  <2>1. /\ MayStart /\ UNCHANGED <<events, item>> /\ view' = TasksOf(r)
        /\ store' = [t \in Tasks |-> IF RunOf[t] = r THEN "pending" ELSE store[t]]
        /\ ui' = [t \in Tasks |-> IF RunOf[t] = r THEN "pending" ELSE "none"]
        /\ batch'.pc \in {"idle", "exiting", "next"}
    BY <1>3, <1>5 DEF NewBatch, StartWorker, IdleBatch
  <2>2. RowsAgree'
    BY <2>1 DEF RowsAgree, Agrees, TasksOf, Completed
  <2> QED
    BY <1>0, <1>4, <2>1, <2>2 DEF Told, HandWaits, HandShows
<1>6. ASSUME NEW t \in Tasks, StartPending(t) \/ Resume(t) PROVE Told'
  <2>1. /\ MayStart /\ UNCHANGED <<events, store, view, ui>>
        /\ batch'.pc \in {"idle", "exiting", "next"}
    BY <1>3, <1>6 DEF StartPending, Resume, StartWorker, IdleBatch
  <2>2. RowsAgree'
    BY <1>3, <2>1 DEF RowsAgree, Agrees, Told
  <2> QED
    BY <1>0, <1>4, <2>1, <2>2 DEF Told, HandWaits, HandShows
<1>7. ASSUME NEW t \in Tasks, RetryFailed(t) PROVE Told'
  <2>1. MayStart /\ UNCHANGED <<events, store, view, ui, batch>>
    BY <1>7 DEF RetryFailed
  <2>2. RowsAgree' /\ batch'.pc # "persist"
    BY <1>3, <2>1 DEF RowsAgree, Agrees, Told
  <2> QED
    BY <1>0, <1>4, <2>1, <2>2 DEF Told, HandWaits, HandShows
<1> QED
  BY <1>1, <1>2, <1>5, <1>6, <1>7 DEF User

LEMMA PumpTells ==
    ASSUME ~WritesMayFail, IInv, Open, Told, Pump
    PROVE  Told'
<1>1. CASE HandleEvent
  <2>0. PICK e : e = Head(events)
    OBVIOUS
  <2>1. /\ e = events[1] /\ 1 \in 1 .. Len(events) /\ e \in UiEvent /\ Len(events) \in Nat
        /\ Len(events') = Len(events) - 1
        /\ \A i \in 1 .. Len(events') : events'[i] = events[i + 1] /\ i + 1 \in 1 .. Len(events)
    <3>1. events \in Seq(UiEvent) /\ events # <<>> /\ events' = Tail(events)
      BY <1>1 DEF HandleEvent, IInv, TypeOK
    <3>2. Len(events) \in Nat \ {0} /\ Len(events') = Len(events) - 1
      BY <3>1, Taking
    <3> QED
      BY <2>0, <3>1, <3>2, Taking
  <2>2. /\ UNCHANGED <<store, item, view, batch>> /\ phase = "up" /\ phase' = "up"
        /\ running' = (running /\ e.kind # "finished")
        /\ \/ ui' = ui
           \/ /\ e.kind # "finished" /\ ui' = [ui EXCEPT ![e.task] = ShownStatus(e.kind)]
    BY <1>1, <2>0 DEF HandleEvent
  <2>3. EventsWait'
    BY <2>1, <2>2 DEF Told, EventsWait
  <2>4. ToldFirst'
    <3> SUFFICES ASSUME NEW i \in 1 .. Len(events'), events'[i].kind = "required"
                 PROVE  running' /\ \A j \in 1 .. i : events'[j].kind # "finished"
      BY DEF ToldFirst
    <3>1. running /\ \A j \in 1 .. i + 1 : events[j].kind # "finished"
      BY <2>1 DEF Told, ToldFirst
    <3>2. 1 \in 1 .. i + 1
      BY <2>1
    <3>4. e.kind # "finished"
      BY <2>1, <3>1, <3>2
    <3>5. running'
      BY <2>2, <3>1, <3>4, Zenon
    <3>3. \A j \in 1 .. i : j + 1 \in 1 .. i + 1 /\ events'[j] = events[j + 1]
      BY <2>1
    <3> QED
      BY <3>1, <3>3, <3>5
  <2>5. ASSUME e.kind # "finished"
        PROVE  e.task \in Tasks /\ Waits(item[e.task]) /\ store[e.task] \notin Completed
    BY <2>1, <2>5 DEF Told, EventsWait
  <2>6. ShownStatus(e.kind) \notin Completed
    BY DEF ShownStatus, Completed
  <2>7. ui \in [Tasks -> TaskStatus \cup {"none", "running"}]
    BY DEF IInv, TypeOK
  <2>8. \A t \in Tasks : ui'[t] = ui[t] \/ (t = e.task /\ e.kind # "finished" /\ ui'[t] \notin Completed)
    BY <2>2, <2>5, <2>6, <2>7
  <2>9. HandShows'
    <3> SUFFICES ASSUME batch.pc = "persist", batch.cur \in view
                 PROVE  IF batch.result \in Completed THEN ui'[batch.cur] = batch.result
                                                       ELSE ui'[batch.cur] \notin Completed
      BY <2>2 DEF HandShows
    <3>1. batch.cur \in Tasks
      BY DEF IInv, Protocol, BatchHolds
    <3>2. CASE ui'[batch.cur] = ui[batch.cur]
      BY <3>2 DEF Told, HandShows
    <3>3. CASE batch.cur = e.task /\ e.kind # "finished" /\ ui'[batch.cur] \notin Completed
      BY <2>5, <3>1, <3>3 DEF Open, ResultFits
    <3> QED
      BY <2>8, <3>1, <3>2, <3>3
  <2>10. RowsAgree'
    <3>1. view \subseteq Tasks
      BY DEF IInv, TypeOK
    <3>2. \A t \in view : Agrees(t) => Agrees(t)'
      BY <2>2, <2>5, <2>8, <3>1 DEF Agrees
    <3> QED
      BY <2>2, <3>2 DEF Told, RowsAgree
  <2> QED
    BY <2>2, <2>3, <2>4, <2>9, <2>10 DEF Told, StartsEmpty, HandWaits
<1>2. CASE RetryRecorded
  <2>1. /\ retrying \in Tasks /\ store[retrying] \notin Completed /\ ~running
        /\ item[retrying].status = "verification_required"
    BY <1>2, RetryOpen DEF RetryRecorded, IInv, Protocol, RetryAlone, Open, RetryWaits
  <2>2. /\ UNCHANGED <<item, view, batch, events, running>> /\ phase = "up" /\ phase' = "up"
        /\ store' = [store EXCEPT ![retrying] = "verification_required"]
        /\ ui' = [ui EXCEPT ![retrying] = "verification_required"]
    BY <1>2 DEF RetryRecorded
  <2>3. store \in [Tasks -> TaskStatus \cup {"absent"}] /\ ui \in [Tasks -> TaskStatus \cup {"none", "running"}]
    BY DEF IInv, TypeOK
  <2>4. EventsWait' /\ ToldFirst'
    BY <2>2, <2>3, ToldUnposted DEF Completed
  <2>5. batch.pc # "persist"
    BY <2>1 DEF IInv, Protocol, BusyInside
  <2>6. RowsAgree'
    BY <2>1, <2>2, <2>3, <2>5 DEF Told, RowsAgree, Agrees, Completed
  <2> QED
    BY <2>2, <2>4, <2>5, <2>6 DEF Told, StartsEmpty, HandWaits, HandShows
<1> QED
  BY <1>1, <1>2 DEF Pump

\* A verification is about a task that waits, and leaves it so.
LEMMA VerifyTells ==
    ASSUME ~WritesMayFail, IInv, Open, Told, VerifyStep
    PROVE  Told'
<1>0. /\ store \in [Tasks -> TaskStatus \cup {"absent"}] /\ item \in [Tasks -> Item]
      /\ UNCHANGED <<view, ui, batch, running>>
      /\ phase' = phase
  BY DEF IInv, TypeOK, VerifyStep, VerifyConfirmed, VerifyMarksReady, VerifyMarkFails, VerifyReverts,
         VerifyGivesUp, VerifyDefers, VerifyDeferFails, VerifyRecords, VerifyExits
<1>1. CASE VerifyExits
  <2>1. UNCHANGED <<store, item, events>>
    BY <1>1 DEF VerifyExits
  <2> QED
    BY <1>0, <2>1, ToldUnposted DEF Told, StartsEmpty, HandWaits, HandShows, RowsAgree, Agrees
<1>2. CASE ~VerifyExits
  <2>1. VerInside
    BY <1>2 DEF VerifyStep, VerifyConfirmed, VerifyMarksReady, VerifyMarkFails, VerifyReverts,
         VerifyGivesUp, VerifyDefers, VerifyDeferFails, VerifyRecords
  <2>2. PICK t : t = ver.task
    OBVIOUS
  <2>3. t \in Tasks /\ store[t] \notin Completed /\ Waits(item[t])
    BY <2>1, <2>2, VerOpen DEF IInv, Protocol, VerHolds
  <2>4. /\ store' = store \/ \E s \in {"ready_to_resume", "verification_required", "failed"} :
                                store' = [store EXCEPT ![t] = s]
        /\ item' = item \/ \E i \in {Ready(item[t]), Deferred(item[t])} : item' = [item EXCEPT ![t] = i]
        /\ events' = events \/ \E k \in EndKinds : events' = Append(events, Event(k, t))
    BY <1>2, <2>1, <2>2 DEF VerifyStep, VerifyConfirmed, VerifyMarksReady, VerifyMarkFails, VerifyReverts,
         VerifyGivesUp, VerifyDefers, VerifyDeferFails, VerifyRecords, IInv, Protocol, VerHolds
  <2>5. Waits(Ready(item[t])) /\ Waits(Deferred(item[t]))
    BY <1>0, <2>3 DEF Ready, Deferred, Item
  <2>6. Waits(item'[t]) /\ store'[t] \notin Completed
    BY <1>0, <2>3, <2>4, <2>5 DEF Completed
  <2>7. \A u \in Tasks : u # t => store'[u] = store[u] /\ item'[u] = item[u]
    BY <1>0, <2>3, <2>4
  <2>8. EventsWait' /\ ToldFirst'
    <3>1. \A u \in Tasks : Waits(item[u]) /\ store[u] \notin Completed => Waits(item'[u]) /\ store'[u] \notin Completed
      BY <2>6, <2>7
    <3>2. CASE events' = events
      BY <1>0, <3>1, <3>2, ToldUnposted
    <3>3. ASSUME NEW k \in EndKinds, events' = Append(events, Event(k, t)) PROVE EventsWait' /\ ToldFirst'
      BY <1>0, <2>3, <2>6, <3>1, <3>3, ToldAfterPost
    <3> QED
      BY <2>4, <3>2, <3>3
  <2>9. batch.pc = "persist" => batch.cur \in Tasks
    BY DEF IInv, Protocol, BatchHolds
  <2>10. HandWaits' /\ HandShows'
    BY <1>0, <2>6, <2>7, <2>9 DEF Told, HandWaits, HandShows
  <2>11. RowsAgree'
    <3>1. view \subseteq Tasks
      BY DEF IInv, TypeOK
    <3> QED
      BY <1>0, <2>3, <2>6, <2>7, <3>1 DEF Told, RowsAgree, Agrees
  <2> QED
    BY <1>0, <2>8, <2>10, <2>11 DEF Told, StartsEmpty
<1> QED
  BY <1>1, <1>2

LEMMA CrashTells == ASSUME Crash PROVE Told'
BY DEF Crash, IdleBatch, Told, StartsEmpty, EventsWait, ToldFirst, HandWaits, HandShows, RowsAgree

\* The batch worker shows what it is about to record, and records it.
LEMMA BatchTells ==
    ASSUME ~WritesMayFail, IInv, Open, Told, BatchStep
    PROVE  Told'
<1>0. /\ store \in [Tasks -> TaskStatus \cup {"absent"}] /\ item \in [Tasks -> Item]
      /\ ui \in [Tasks -> TaskStatus \cup {"none", "running"}] /\ batch \in BatchState
      /\ view \subseteq Tasks /\ UNCHANGED <<phase, view, running>>
  BY DEF IInv, TypeOK, BatchStep, BatchCancels, BatchTakes, BatchCrawls, BatchEnqueues, BatchEnqueueFails,
         BatchPersists, BatchFinishes, BatchExits
<1>1. StartsEmpty'
  BY <1>0 DEF Told, StartsEmpty
<1>2. batch.pc \in {"crawl", "enqueue", "persist"} => batch.cur \in Tasks /\ store[batch.cur] \notin Completed
  BY HandOpen
<1>3. CASE \E t \in Tasks : BatchCancels(t) \/ BatchTakes(t)
  <2>1. PICK t \in Tasks : BatchCancels(t) \/ BatchTakes(t)
    BY <1>3
  <2>2. Crawlable(t) /\ batch.pc = "next"
    BY <2>1, HandOpen DEF BatchCancels, BatchTakes
  <2>3. /\ UNCHANGED <<item, events>> /\ batch'.pc \in {"next", "crawl"}
        /\ \/ ui' = [ui EXCEPT ![t] = "cancelled"] /\ store' = [store EXCEPT ![t] = "cancelled"]
           \/ ui' = [ui EXCEPT ![t] = "running"] /\ store' = [store EXCEPT ![t] = "fetching"]
    BY <1>0, <2>1, <2>2 DEF BatchCancels, BatchTakes, Persist, BatchState
  <2>4. EventsWait' /\ ToldFirst'
    BY <1>0, <2>2, <2>3, ToldUnposted
  <2>5. RowsAgree'
    BY <1>0, <2>2, <2>3 DEF Told, RowsAgree, Agrees, Completed
  <2> QED
    BY <1>1, <2>3, <2>4, <2>5 DEF Told, HandWaits, HandShows
<1>4. CASE \E result \in CrawlResults : BatchCrawls(result)
  <2>1. PICK result \in CrawlResults : BatchCrawls(result)
    BY <1>4
  <2>2. UNCHANGED <<store, item, events>> /\ batch.pc = "crawl" /\ batch.cur \in Tasks
    BY <1>2, <2>1 DEF BatchCrawls
  <2>3. EventsWait' /\ ToldFirst'
    BY <1>0, <2>2, ToldUnposted
  <2>4. CASE result = "verification_required"
    <3>1. batch'.pc = "enqueue" /\ ui' = ui
      BY <1>0, <2>1, <2>4 DEF BatchCrawls, BatchState
    <3> QED
      BY <1>0, <1>1, <2>2, <2>3, <3>1 DEF Told, HandWaits, HandShows, RowsAgree, Agrees
  <2>5. CASE result # "verification_required"
    <3>1. /\ batch'.pc = "persist" /\ batch'.result = result /\ batch'.cur = batch.cur
          /\ ui' = [ui EXCEPT ![batch.cur] = result]
      BY <1>0, <2>1, <2>5 DEF BatchCrawls, BatchState
    <3> QED
      BY <1>0, <1>1, <2>2, <2>3, <2>5, <3>1 DEF Told, HandWaits, HandShows, RowsAgree, Agrees
  <2> QED
    BY <2>4, <2>5
<1>5. CASE BatchEnqueues \/ BatchEnqueueFails
  <2>1. batch.cur \in Tasks /\ batch.pc = "enqueue" /\ UNCHANGED <<store, events>>
    BY <1>2, <1>5 DEF BatchEnqueues, BatchEnqueueFails
  <2>2. /\ batch'.pc = "persist" /\ batch'.cur = batch.cur
        /\ \/ /\ item' = [item EXCEPT ![batch.cur] = Enqueued(item[batch.cur])]
              /\ ui' = [ui EXCEPT ![batch.cur] = "verification_required"]
              /\ batch'.result = "verification_required"
           \/ item' = item /\ ui' = [ui EXCEPT ![batch.cur] = "failed"] /\ batch'.result = "failed"
    BY <1>0, <1>5 DEF BatchEnqueues, BatchEnqueueFails, BatchState
  <2>3. Waits(Enqueued(item[batch.cur]))
    BY <1>0, <2>1 DEF Enqueued, Item
  <2>4. \A u \in Tasks : Waits(item[u]) => Waits(item'[u])
    BY <1>0, <2>1, <2>2, <2>3
  <2>5. EventsWait' /\ ToldFirst'
    BY <1>0, <2>1, <2>4, ToldUnposted
  <2>6. HandWaits'
    BY <1>0, <2>1, <2>2, <2>3 DEF HandWaits
  <2>7. HandShows' /\ RowsAgree'
    BY <1>0, <2>1, <2>2 DEF Told, HandShows, RowsAgree, Agrees, Completed
  <2> QED
    BY <1>1, <2>5, <2>6, <2>7 DEF Told
<1>6. CASE BatchPersists
  <2>1. batch.cur \in Tasks /\ batch.pc = "persist" /\ UNCHANGED <<item, ui>>
    BY <1>2, <1>6 DEF BatchPersists
  <2>2. /\ store' = [store EXCEPT ![batch.cur] = batch.result] /\ batch'.pc = "next"
        /\ events' = IF batch.result = "verification_required"
                     THEN Append(events, Event("required", batch.cur)) ELSE events
    BY <1>0, <1>6 DEF BatchPersists, BatchState
  <2>3. \A u \in Tasks : Waits(item[u]) /\ store[u] \notin Completed => Waits(item'[u]) /\ store'[u] \notin Completed
    BY <1>0, <2>1, <2>2 DEF Open, ResultFits
  <2>4. EventsWait' /\ ToldFirst'
    <3>1. CASE batch.result # "verification_required"
      BY <1>0, <2>2, <2>3, <3>1, ToldUnposted
    <3>2. CASE batch.result = "verification_required"
      <4>1. running /\ \A i \in 1 .. Len(events) : events[i].kind # "finished"
        BY <2>1 DEF IInv, Protocol, BusyInside, OneFinished
      <4>2. PICK t : t = batch.cur
        OBVIOUS
      <4>3. t \in Tasks /\ Waits(item'[t]) /\ store'[t] \notin Completed
        BY <1>0, <2>1, <2>2, <3>2, <4>2 DEF Told, HandWaits, Completed
      <4>4. events' = Append(events, Event("required", t))
        BY <2>2, <3>2, <4>2
      <4> QED
        BY <1>0, <2>3, <4>1, <4>3, <4>4, ToldAfterPost
    <3> QED
      BY <3>1, <3>2
  <2>5. RowsAgree'
    <3>1. PICK t : t = batch.cur
      OBVIOUS
    <3>2. t \in view => (ui[t] \in Completed \/ batch.result \in Completed => ui[t] = batch.result)
      BY <2>1, <3>1 DEF Told, HandShows
    <3>3. t \in view => Agrees(t)'
      BY <1>0, <2>1, <2>2, <3>1, <3>2 DEF Agrees
    <3>4. \A u \in view : u # t => Agrees(u)'
      BY <1>0, <2>1, <2>2, <3>1 DEF Told, RowsAgree, Agrees
    <3> QED
      BY <1>0, <3>3, <3>4 DEF RowsAgree
  <2> QED
    BY <1>1, <2>2, <2>4, <2>5 DEF Told, HandWaits, HandShows
<1>7. CASE BatchFinishes
  <2>1. UNCHANGED <<store, ui>> /\ batch.pc # "persist" /\ batch'.pc = "exiting"
        /\ events' = Append(events, Event("finished", NoTask))
    BY <1>7 DEF BatchFinishes, IdleBatch
  <2>2. ASSUME NEW u \in Tasks, Waits(item[u]) PROVE Waits(item'[u])
    <3>1. item'[u] \in {item[u], Failed(item[u])}
      BY <1>0, <1>7, <2>2 DEF BatchFinishes, Settled, CanCompleteResume
    <3>2. Failed(item[u]).status = "failed"
      BY <1>0 DEF Failed, Item
    <3> QED
      BY <2>2, <3>1, <3>2
  <2>3. EventsWait' /\ ToldFirst'
    BY <1>0, <2>1, <2>2, ToldAfterPost
  <2> QED
    BY <1>0, <1>1, <2>1, <2>3 DEF Told, HandWaits, HandShows, RowsAgree, Agrees
<1>8. CASE BatchExits
  <2>1. UNCHANGED <<store, item, ui, events>> /\ batch.pc = "exiting" /\ batch'.pc = "idle"
    BY <1>8 DEF BatchExits, IdleBatch, window, durable
  <2> QED
    BY <1>0, <1>1, <2>1, ToldUnposted DEF Told, HandWaits, HandShows, RowsAgree, Agrees
<1> QED
  BY <1>3, <1>4, <1>5, <1>6, <1>7, <1>8 DEF BatchStep

\* A row that differs from the disk is that of an event or a worker still to come.
THEOREM ToldInvariant == ASSUME ~WritesMayFail PROVE Spec => []Told
<1>1. Init => Told
  BY DEF Init, IdleBatch, Told, StartsEmpty, EventsWait, ToldFirst, HandWaits, HandShows, RowsAgree
<1>2. IInv /\ Open /\ Told /\ [Next]_vars => Told'
  <2> SUFFICES ASSUME IInv, Open, Told, [Next]_vars PROVE Told'
    OBVIOUS
  <2>1. CASE UNCHANGED vars
    BY <2>1 DEF vars, Told, StartsEmpty, EventsWait, ToldFirst, HandWaits, HandShows, RowsAgree, Agrees
  <2> QED
    BY <2>1, StartUpTells, UserTells, PumpTells, BatchTells, VerifyTells, CrashTells DEF Next
<1> QED
  BY Invariant, OpenInvariant, <1>1, <1>2, PTL DEF Spec

\* Where no write fails, the outcome a row shows at rest is the one on disk, although the
\* batch worker, the verification worker and the events each change one of the two.
THEOREM OutcomesAgreeHolds == ASSUME ~WritesMayFail PROVE Spec => []OutcomesAgree
<1>1. Told => OutcomesAgree
  BY DEF Told, RowsAgree, Agrees, OutcomesAgree
<1> QED
  BY ToldInvariant, <1>1, PTL

=============================================================================
