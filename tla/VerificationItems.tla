------------------------- MODULE VerificationItems -------------------------
(***************************************************************************)
(* The statuses a task can have on disk and the transitions the           *)
(* verification queue (crawler/verification.py) makes on one of its items. *)
(* A queue file holds at most one item per task, so the queue is a         *)
(* function from tasks to items, NoItem where the file has none.           *)
(***************************************************************************)
EXTENDS Naturals

CONSTANT MaxAttempts   \* MAX_VERIFICATION_ATTEMPTS
ASSUME MaxAttemptsAssumption == MaxAttempts \in Nat \ {0}

Completed == {"succeeded", "review_recommended", "cancelled"}
Terminal  == Completed \cup {"failed"}
Awaiting  == {"verification_required", "ready_to_resume"}

\* What run_tasks, the verification service and the recovery ever persist.
TaskStatus == {"pending", "fetching"} \cup Awaiting \cup Terminal

QueueStatus == Awaiting \cup {"fetching", "failed"}

Item   == [status : QueueStatus \cup {"none"}, attempts : 0 .. MaxAttempts]
NoItem == [status |-> "none", attempts |-> 0]

-----------------------------------------------------------------------------
\* enqueue refuses an item that is ready or failed, and a challenge met again
\* while resuming keeps the attempts already spent.
CanEnqueue(i) == i.status \in {"none", "verification_required", "fetching"}
Enqueued(i)   == [i EXCEPT !.status = "verification_required"]

\* defer: one more attempt spent, the last one fails the item.
CanDefer(i) == i.status = "verification_required"

\* Mutant of Deferred: the limit is off by one.
DeferredOnceMore(i) ==
    [status   |-> IF i.attempts + 1 > MaxAttempts
                  THEN "failed" ELSE "verification_required",
     attempts |-> i.attempts + 1]

Deferred(i) ==
    [status   |-> IF i.attempts + 1 >= MaxAttempts
                  THEN "failed" ELSE "verification_required",
     attempts |-> i.attempts + 1]

\* Mutant of IsPending: pending() also lists items a worker has claimed.
IsPendingOrClaimed(i) == i.status \in {"verification_required", "fetching"}

IsPending(i) == i.status = "verification_required"

\* mark_ready, begin_resume, mark_failed, retry_failed, complete_resume.
CanMarkReady(i)      == i.status = "verification_required"
CanBeginResume(i)    == i.status = "ready_to_resume"
CanMarkFailed(i)     == i.status \in Awaiting \cup {"fetching"}
CanRetry(i)          == i.status = "failed"
CanCompleteResume(i) == i.status = "fetching"

Ready(i)   == [i EXCEPT !.status = "ready_to_resume"]
Claimed(i) == [i EXCEPT !.status = "fetching"]
Failed(i)  == [i EXCEPT !.status = "failed"]
Retried(i) == [status |-> "verification_required", attempts |-> 0]

\* Mutants of Unclaimed: the claim is left, or is sent back to verification.
StillClaimed(i) == i

\* recover_interrupted_resumes: a claim whose worker died is ready again.
Unclaimed(i) == IF i.status = "fetching" THEN Ready(i) ELSE i
=============================================================================
