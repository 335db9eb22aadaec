---------------------------- MODULE DesktopWindow ----------------------------
(***************************************************************************)
(* The Qt desktop: desktop_ui/main_window.py with its serial WorkerPool    *)
(* (workers.py), the VerificationExecutor that owns the visible browser of *)
(* faculty_workflow/fetcher.py, and the session it saves.                  *)
(*                                                                         *)
(* Three threads: the GUI thread submits commands and takes the events the *)
(* pool posts, one at a time; the pool's only thread runs the commands in  *)
(* order; begin, finish and defer are handed to the executor's thread, and *)
(* the pool's waits for them.                                              *)
(***************************************************************************)
EXTENDS SavedSession, Naturals, Sequences, FiniteSets

CONSTANT MaxCommands        \* commands the user asks for

ASSUME DesktopAssumption == MaxCommands \in Nat

VerificationActions == {"begin", "finish", "defer"}

\* run_task, the creation of a direct task, the three actions, clear_session.
Commands == {"run", "create", "clear"} \cup VerificationActions

Nothing == "nothing"

VARIABLES
    asked,      \* how many commands the user has asked for
    queue,      \* the commands of the pool not yet begun
    running,    \* the command of the pool's thread
    active,     \* WorkerPool._active
    stop,       \* WorkerPool._stop_event
    events,     \* what was posted to the pool's QObject: <<kind, command>>
    executor,   \* what the executor's thread does; "ended" after shutdown
    browser,    \* PageFetcher._interactive is set
    leaked,     \* a browser was opened that nothing refers to
    review,     \* the status of the access review
    gui,        \* what the GUI thread does: "ready", or a step of refresh
    then,       \* what follows the refresh
    window,     \* the flags of MainWindow
    saved       \* history: finish saved the session and nobody cleared it

poolVars == <<queue, running, active, stop, events>>
executorVars == <<executor, browser, leaked, review, saved, sessionFiles>>
guiVars == <<asked, gui, then, window>>
desktopVars == <<poolVars, executorVars, guiVars>>

DesktopInit ==
    /\ asked = 0 /\ queue = <<>> /\ running = Nothing /\ active = 0 /\ stop = FALSE /\ events = <<>>
    /\ executor = Nothing /\ browser = FALSE /\ leaked = FALSE
    /\ review \in {"none", "pending"}
    /\ gui = "ready" /\ then = Nothing
    /\ window = [open |-> TRUE, dialog |-> FALSE, tray |-> FALSE, closeWhenIdle |-> FALSE,
                 waiting |-> FALSE, startPending |-> FALSE,
                 shown |-> review = "pending"]
    /\ data = "none" /\ meta = "none" /\ saved = FALSE

-----------------------------------------------------------------------------
(* WorkerPool.                                                             *)

\* submit: the count, and then the queue.
Submit(command) ==
    /\ active' = active + 1
    /\ queue' = Append(queue, command)
    /\ UNCHANGED <<running, stop, events>>

\* has_active_work.
HasActiveWork == active > 0

\* Mutant of SkipCommand: a command that is not begun posts nothing.
SkipSilently ==
    /\ running = Nothing /\ queue # <<>> /\ stop
    /\ queue' = Tail(queue)
    /\ UNCHANGED <<running, active, stop, events, executorVars, guiVars>>

\* _Runnable.run of a command that may not start any more: the finally clause posts.
SkipCommand ==
    /\ running = Nothing /\ queue # <<>> /\ stop
    /\ queue' = Tail(queue)
    /\ events' = Append(events, <<"finished", Head(queue)>>)
    /\ UNCHANGED <<running, active, stop, executorVars, guiVars>>

StartCommand ==
    /\ running = Nothing /\ queue # <<>> /\ ~stop
    /\ running' = Head(queue) /\ queue' = Tail(queue)
    /\ UNCHANGED <<active, stop, events, executorVars, guiVars>>

\* The last lines of run: the result, then "finished".
PoolPosts(kind) ==
    /\ running' = Nothing
    /\ events' = events \o <<<<kind, running>>, <<"finished", running>>>>
    /\ UNCHANGED <<queue, active, stop>>

\* A crawl may leave a site for the user to verify (create_access_review).
CommandEndsItself ==
    /\ running \in {"run", "create"}
    /\ \E kind \in {"succeeded", "failed"} : PoolPosts(kind)
    /\ review' \in IF running = "run" THEN {review, "pending"} ELSE {review}
    /\ UNCHANGED <<executor, browser, leaked, saved, sessionFiles, guiVars>>

\* clear_session: the executor saves nothing meanwhile, and what list removes is gone too.
ClearSession ==
    /\ running = "clear"
    /\ data' = "none" /\ meta' = "none" /\ saved' = FALSE
    /\ PoolPosts("succeeded")
    /\ UNCHANGED <<executor, browser, leaked, review, guiVars>>

-----------------------------------------------------------------------------
(* VerificationExecutor, and the interactive verification of PageFetcher.  *)

HandOver ==
    /\ running \in VerificationActions /\ executor = Nothing
    /\ executor' = running
    /\ UNCHANGED <<poolVars, browser, leaked, review, saved, sessionFiles, guiVars>>

\* The future has its result, and the command that waits for it ends.
Answers(kind) == executor' = Nothing /\ PoolPosts(kind)

\* begin_interactive_verification: a launch that fails late leaves its browser behind.
Begin ==
    /\ executor = "begin"
    /\ \/ Answers("failed") /\ UNCHANGED <<browser, leaked>>
       \/ ~browser /\ Answers("failed") /\ leaked' = TRUE /\ UNCHANGED browser
       \/ ~browser /\ Answers("succeeded") /\ browser' = TRUE /\ UNCHANGED leaked
    /\ UNCHANGED <<review, saved, sessionFiles, guiVars>>

\* finish_interactive_verification without a browser, or on a page that still asks.
FinishRefused ==
    /\ executor = "finish"
    /\ Answers("failed") /\ browser' = FALSE
    /\ UNCHANGED <<leaked, review, saved, sessionFiles, guiVars>>

FinishSaves ==
    /\ executor = "finish" /\ browser
    /\ executor' = "save" /\ saved' = FALSE
    /\ UNCHANGED <<poolVars, browser, leaked, review, sessionFiles, guiVars>>

SaveContinues ==
    /\ \E to \in {"save data", "save meta", "save ends", "saved"} : SaveStep(executor, to) /\ executor' = to
    /\ UNCHANGED <<poolVars, browser, leaked, review, saved, guiVars>>

\* The browser is closed and the review resolved, when its row can be written.
FinishEnds ==
    /\ executor = "saved"
    /\ browser' = FALSE /\ saved' = TRUE
    /\ \/ Answers("succeeded") /\ review' = "ready_to_retry"
       \/ Answers("failed") /\ UNCHANGED review
    /\ UNCHANGED <<leaked, sessionFiles, guiVars>>

\* cancel_interactive_verification.
Defer ==
    /\ executor = "defer"
    /\ browser' = FALSE /\ Answers("succeeded")
    /\ UNCHANGED <<leaked, review, saved, sessionFiles, guiVars>>

-----------------------------------------------------------------------------
(* MainWindow: what the user asks for.                                     *)

Ready == window.open /\ gui = "ready"

\* The buttons of the pages: those of a review need its row on show.
Ask(command) ==
    /\ Ready /\ ~window.dialog /\ asked < MaxCommands
    /\ command \in VerificationActions => window.shown
    /\ asked' = asked + 1
    /\ Submit(command)
    /\ window' = CASE command = "begin" -> [window EXCEPT !.waiting = TRUE, !.startPending = TRUE]
                   [] command = "finish" -> [window EXCEPT !.waiting = FALSE]
                   [] OTHER -> window
    /\ UNCHANGED <<gui, then, executorVars>>

\* _refresh_after_command: the pages read the database and the sessions.
Refresh(next) ==
    /\ gui' = "list" /\ then' = next

\* _cancel_task refreshes on the spot.
CancelTask ==
    /\ Ready /\ ~window.dialog
    /\ Refresh(Nothing)
    /\ window' = [window EXCEPT !.shown = review = "pending"]
    /\ UNCHANGED <<asked, poolVars, executorVars>>

\* shutdown: the executor closes the browser and ends, then the pool.
Close ==
    /\ window' = [window EXCEPT !.open = FALSE, !.closeWhenIdle = FALSE]
    /\ executor' = "ended" /\ browser' = FALSE
    /\ stop' = TRUE

\* request_close: at once, or after a choice of the user.
AskToClose ==
    /\ Ready /\ ~window.dialog
    /\ IF HasActiveWork
       THEN /\ window' = [window EXCEPT !.dialog = TRUE]
            /\ UNCHANGED <<executor, browser, stop>>
       ELSE Close
    /\ UNCHANGED <<asked, gui, then, queue, running, active, events, leaked, review, saved, sessionFiles>>

ChooseMinimize ==
    /\ Ready /\ window.dialog
    /\ \E tray \in {window.tray, TRUE} : window' = [window EXCEPT !.dialog = FALSE, !.tray = tray]
    /\ UNCHANGED <<asked, gui, then, poolVars, executorVars>>

ExitAfterCurrent ==
    /\ window' = [window EXCEPT !.dialog = FALSE, !.closeWhenIdle = TRUE]
    /\ stop' = TRUE
    /\ UNCHANGED <<queue, running, active, events>>

\* The dialog runs an event loop of its own: the work may have ended by now.
ChooseExit ==
    /\ Ready /\ window.dialog
    /\ ExitAfterCurrent
    /\ UNCHANGED <<asked, gui, then, executorVars>>

\* exit_after_current, in the menu of the tray.
TrayExit ==
    /\ Ready /\ window.tray /\ ~window.dialog
    /\ IF HasActiveWork
       THEN ExitAfterCurrent /\ UNCHANGED <<executor, browser>>
       ELSE Close /\ UNCHANGED <<queue, running, active, events>>
    /\ UNCHANGED <<asked, gui, then, leaked, review, saved, sessionFiles>>

-----------------------------------------------------------------------------
(* MainWindow: the events of the pool.                                     *)

\* _worker_succeeded and _worker_failed.
TakeResult ==
    /\ Ready /\ events # <<>> /\ Head(events)[1] # "finished"
    /\ LET kind == Head(events)[1] command == Head(events)[2] IN
       /\ events' = Tail(events)
       /\ window' = [window EXCEPT
             !.waiting = IF window.startPending THEN kind = "succeeded" ELSE @,
             !.startPending = FALSE,
             !.shown = review = "pending"]
       /\ Refresh(IF command = "create" /\ kind = "succeeded" THEN "run" ELSE Nothing)
    /\ UNCHANGED <<asked, queue, running, active, stop, executorVars>>

RefreshStep ==
    /\ window.open /\ gui \notin {"ready", "done", "error"}
    /\ \E to \in {"done", "error", "read", "load", "load data", "unlink", "clear", "clear data"} :
           ListStep(gui, to) /\ gui' = to
    /\ UNCHANGED <<asked, then, window, poolVars, executor, browser, leaked, review, saved>>

\* Mutant of RefreshEnds: the task that was created is not run.
RefreshEndsOnly ==
    /\ gui = "done" /\ gui' = "ready" /\ then' = Nothing
    /\ UNCHANGED <<asked, window, poolVars, executorVars>>

\* A direct task is run when its creation has been shown.
RefreshEnds ==
    /\ gui = "done" /\ gui' = "ready" /\ then' = Nothing
    /\ IF then = "run" THEN Submit("run") ELSE UNCHANGED poolVars
    /\ UNCHANGED <<asked, window, executorVars>>

\* Mutant of TakeFinished: the window closes with the first command that ends.
TakeFinishedCloses ==
    /\ Ready /\ events # <<>> /\ Head(events)[1] = "finished"
    /\ events' = Tail(events) /\ active' = active - 1
    /\ IF window.closeWhenIdle
       THEN Close
       ELSE UNCHANGED <<window, executor, browser, stop>>
    /\ UNCHANGED <<asked, gui, then, queue, running, leaked, review, saved, sessionFiles>>

\* Mutant of TakeFinished: the wish to close is forgotten.
TakeFinishedStays ==
    /\ Ready /\ events # <<>> /\ Head(events)[1] = "finished"
    /\ events' = Tail(events) /\ active' = active - 1
    /\ window' = IF active = 1 THEN [window EXCEPT !.closeWhenIdle = FALSE] ELSE window
    /\ UNCHANGED <<asked, gui, then, queue, running, stop, executorVars>>

\* _finished and _update_background_status.
TakeFinished ==
    /\ Ready /\ events # <<>> /\ Head(events)[1] = "finished"
    /\ events' = Tail(events) /\ active' = active - 1
    /\ IF active = 1 /\ window.closeWhenIdle
       THEN Close
       ELSE UNCHANGED <<window, executor, browser, stop>>
    /\ UNCHANGED <<asked, gui, then, queue, running, leaked, review, saved, sessionFiles>>

\* An error of list leaves _worker_succeeded where it stands, and the event loop goes on.
RefreshFails ==
    /\ gui = "error" /\ gui' = "ready" /\ then' = Nothing
    /\ UNCHANGED <<asked, window, poolVars, executorVars>>

-----------------------------------------------------------------------------
PoolStep == SkipCommand \/ StartCommand \/ CommandEndsItself \/ ClearSession \/ HandOver

ExecutorStep == Begin \/ FinishRefused \/ FinishSaves \/ SaveContinues \/ FinishEnds \/ Defer

TakeEvent == TakeResult \/ TakeFinished

GuiStep == RefreshStep \/ RefreshEnds \/ RefreshFails

UserStep ==
    \/ \E command \in Commands \ {"run"} : Ask(command)
    \/ CancelTask \/ AskToClose \/ ChooseMinimize \/ ChooseExit \/ TrayExit

DesktopNext == PoolStep \/ ExecutorStep \/ TakeEvent \/ GuiStep \/ UserStep

\* The threads go on with what they do, and the event queue is first in, first out: an
\* event is taken whatever the user does in between.  The user need not do anything.
DesktopSpec ==
    /\ DesktopInit /\ [][DesktopNext]_desktopVars
    /\ WF_desktopVars(PoolStep) /\ WF_desktopVars(ExecutorStep) /\ WF_desktopVars(GuiStep)
    /\ SF_desktopVars(TakeEvent)

-----------------------------------------------------------------------------
(* Properties.                                                             *)

\* A window that has closed leaves no command begun or waiting, no result nobody took,
\* and no browser of a verification open: it never closes under a thread.
ClosedLeavesNothing ==
    ~window.open => running = Nothing /\ queue = <<>> /\ events = <<>> /\ ~browser

\* Every command comes back to the window, also those skipped after a stop.
CommandsComeBack == active > 0 ~> (active = 0 \/ ~window.open)

\* "Exit after the current task", chosen while there is work, closes the window.
ExitFollowsWork == (window.closeWhenIdle /\ HasActiveWork) ~> ~window.open

\* A direct task that was created is run, unless a stop was asked for or the refresh that
\* shows it meets a session file that is being saved or was just removed.
CreatedIsRun ==
    \A i \in 1 .. 2 :
        (i <= Len(events) /\ events[i] = <<"succeeded", "create">>)
            ~> (running = "run" \/ stop \/ (gui = "error" /\ then = "run"))

=============================================================================
