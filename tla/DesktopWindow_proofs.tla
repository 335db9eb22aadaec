-------------------------- MODULE DesktopWindow_proofs --------------------------
(***************************************************************************)
(* Proofs about DesktopWindow, for any number of commands in any order:    *)
(* the window never closes under a thread.                                 *)
(*                                                                         *)
(* WorkerPool._active is raised by submit and lowered by the window when   *)
(* it takes a "finished" (Counted); the last event posted is always one of *)
(* those (EndsFinished).  So when the count is zero nothing is queued,     *)
(* begun or left to take, and when the last "finished" is taken that leads *)
(* to a close, it was the only event.                                      *)
(***************************************************************************)
EXTENDS DesktopWindow, FiniteSetTheorems, SequenceTheorems, TLAPS

Events == {"succeeded", "failed", "finished"} \X Commands

Ends(s) == {i \in DOMAIN s : s[i][1] = "finished"}
Finished(s) == Cardinality(Ends(s))

Busy == IF running = Nothing THEN 0 ELSE 1

Window == [open : BOOLEAN, dialog : BOOLEAN, tray : BOOLEAN, closeWhenIdle : BOOLEAN,
           waiting : BOOLEAN, startPending : BOOLEAN, shown : BOOLEAN]

Typed ==
    /\ queue \in Seq(Commands) /\ events \in Seq(Events)
    /\ running \in Commands \cup {Nothing} /\ active \in Nat
    /\ window \in Window

Counted == active = Len(queue) + Busy + Finished(events)

EndsFinished == events # <<>> => events[Len(events)][1] = "finished"

\* The executor works for the command that waits for it.
ExecutorServes == executor \notin {Nothing, "ended"} => running \in VerificationActions

Closed == ~window.open => gui = "ready" /\ active = 0 /\ executor = "ended" /\ ~browser

IInv == Typed /\ Counted /\ EndsFinished /\ ExecutorServes /\ Closed

-----------------------------------------------------------------------------
(* The events that end a command.                                          *)

LEMMA EndsFinite ==
    ASSUME NEW s \in Seq(Events)
    PROVE  IsFiniteSet(Ends(s)) /\ Finished(s) \in Nat
<1>1. Ends(s) \subseteq 1 .. Len(s) /\ Len(s) \in Nat
  BY DEF Ends
<1>2. IsFiniteSet(1 .. Len(s))
  BY <1>1, FS_Interval
<1>3. IsFiniteSet(Ends(s))
  BY <1>1, <1>2, FS_Subset
<1> QED BY <1>3, FS_CardinalityType DEF Finished

LEMMA FinishedAppend ==
    ASSUME NEW s \in Seq(Events), NEW e \in Events
    PROVE  Finished(Append(s, e)) = Finished(s) + (IF e[1] = "finished" THEN 1 ELSE 0)
<1> DEFINE new == Append(s, e)
<1>1. /\ DOMAIN new = DOMAIN s \cup {Len(s) + 1} /\ Len(s) + 1 \notin DOMAIN s
      /\ \A i \in DOMAIN s : new[i] = s[i]
      /\ new[Len(s) + 1] = e
  OBVIOUS
<1> HIDE DEF new
<1>2. IsFiniteSet(Ends(s)) /\ Finished(s) \in Nat
  BY EndsFinite
<1>3. CASE e[1] = "finished"
  <2>1. Ends(new) = Ends(s) \cup {Len(s) + 1} /\ Len(s) + 1 \notin Ends(s)
    BY <1>1, <1>3 DEF Ends
  <2> QED BY <1>2, <1>3, <2>1, FS_AddElement DEF Finished, new
<1>4. CASE e[1] # "finished"
  <2>1. Ends(new) = Ends(s)
    BY <1>1, <1>4 DEF Ends
  <2> QED BY <1>2, <1>4, <2>1 DEF Finished, new
<1> QED BY <1>3, <1>4

LEMMA FinishedTail ==
    ASSUME NEW s \in Seq(Events), s # <<>>
    PROVE  Finished(Tail(s)) = Finished(s) - (IF Head(s)[1] = "finished" THEN 1 ELSE 0)
<1> DEFINE t == Tail(s)
           later == Ends(s) \ {1}
           f == [i \in Ends(t) |-> i + 1]
<1>1. /\ t \in Seq(Events) /\ Len(t) = Len(s) - 1 /\ Len(s) \in Nat \ {0}
      /\ \A i \in 1 .. Len(t) : t[i] = s[i + 1]
  OBVIOUS
<1>2. IsFiniteSet(Ends(s)) /\ IsFiniteSet(Ends(t)) /\ Finished(s) \in Nat
  BY <1>1, EndsFinite
<1>3. f \in Bijection(Ends(t), later)
  <2>1. Ends(t) \subseteq 1 .. Len(t) /\ Ends(s) \subseteq 1 .. Len(s)
    BY <1>1 DEF Ends
  <2>2. \A i \in Ends(t) : f[i] \in later
    BY <1>1, <2>1 DEF Ends
  <2>3. \A i, j \in Ends(t) : f[i] = f[j] => i = j
    BY <2>1
  <2>4. \A j \in later : j - 1 \in Ends(t) /\ f[j - 1] = j
    <3> TAKE j \in later
    <3>1. j \in 2 .. Len(s) /\ s[j][1] = "finished"
      BY <1>1, <2>1 DEF Ends
    <3>2. j - 1 \in 1 .. Len(t) /\ t[j - 1] = s[j]
      BY <1>1, <3>1
    <3>3. j - 1 \in Ends(t)
      BY <1>1, <3>1, <3>2 DEF Ends
    <3> QED BY <3>1, <3>3
  <2> HIDE DEF f, later
  <2>5. f \in [Ends(t) -> later]
    BY <2>2 DEF f
  <2>6. f \in Surjection(Ends(t), later) /\ f \in Injection(Ends(t), later)
    BY <2>3, <2>4, <2>5 DEF Surjection, Injection, IsInjective
  <2> QED BY <2>6 DEF Bijection
<1>4. Finished(t) = Cardinality(later)
  BY <1>2, <1>3, FS_Bijection DEF ExistsBijection, Finished
<1>5. Cardinality(later) = IF 1 \in Ends(s) THEN Finished(s) - 1 ELSE Finished(s)
  BY <1>2, FS_RemoveElement DEF Finished
<1>6. 1 \in Ends(s) <=> Head(s)[1] = "finished"
  BY <1>1 DEF Ends
<1> QED BY <1>2, <1>4, <1>5, <1>6

\* Nothing is left to take when no end is.
LEMMA NoEndNoEvent ==
    ASSUME events \in Seq(Events), EndsFinished
    PROVE  /\ Finished(events) = 0 => events = <<>>
           /\ events # <<>> /\ Head(events)[1] = "finished" /\ Finished(events) = 1 => Tail(events) = <<>>
<1>1. ASSUME events # <<>> PROVE Len(events) \in Ends(events) /\ Len(events) \in Nat \ {0}
  BY <1>1 DEF EndsFinished, Ends
<1>2. IsFiniteSet(Ends(events))
  BY EndsFinite
<1>3. Finished(events) = 0 => events = <<>>
  BY <1>1, <1>2, FS_EmptySet DEF Finished
<1>4. ASSUME events # <<>>, Head(events)[1] = "finished", Finished(events) = 1
      PROVE  Tail(events) = <<>>
  <2>1. 1 \in Ends(events) /\ Len(events) \in Ends(events)
    BY <1>1, <1>4 DEF Ends
  <2>2. PICK x : Ends(events) = {x}
    BY <1>2, <1>4, FS_Singleton DEF Finished
  <2>3. Len(events) = 1
    BY <2>1, <2>2
  <2>4. Tail(events) \in Seq(Events) /\ Len(Tail(events)) = 0
    BY <1>4, <2>3
  <2> QED BY <2>4, EmptySeq
<1> QED BY <1>3, <1>4

-----------------------------------------------------------------------------
(* The steps.                                                              *)

\* A command that has ended has posted its result and its end.
LEMMA PostsKeeps ==
    ASSUME IInv, running # Nothing, NEW kind \in {"succeeded", "failed"}, PoolPosts(kind),
           executor' \in {executor, Nothing}, executor = "ended" => executor' = "ended",
           executor' = executor => executor \in {Nothing, "ended"}, UNCHANGED <<gui, window>>,
           browser' = browser \/ window.open
    PROVE  IInv'
<1> DEFINE result == <<kind, running>>
           end == <<"finished", running>>
<1>1. /\ result \in Events /\ end \in Events /\ events \in Seq(Events) /\ running \in Commands
      /\ result[1] # "finished" /\ end[1] = "finished"
  BY DEF IInv, Typed, Events
<1> HIDE DEF result, end
<1>2. events' = Append(Append(events, result), end) /\ Append(events, result) \in Seq(Events)
  BY <1>1, SMTT(30) DEF PoolPosts, result, end
<1>3. Finished(events') = Finished(events) + 1 /\ Finished(events) \in Nat
  <2>1. Finished(Append(events, result)) = Finished(events)
    BY <1>1, FinishedAppend, EndsFinite
  <2>2. Finished(events') = Finished(Append(events, result)) + 1
    BY <1>1, <1>2, FinishedAppend
  <2> QED BY <1>1, <2>1, <2>2, EndsFinite
<1>4. Typed'
  <2>1. events' \in Seq(Events)
    BY <1>1, <1>2
  <2> QED BY <2>1 DEF IInv, Typed, PoolPosts
<1>5. Counted'
  BY <1>3 DEF IInv, Typed, Counted, Busy, PoolPosts
<1>6. EndsFinished'
  <2>1. events'[Len(events')] = end
    BY <1>1, <1>2
  <2> QED BY <1>1, <2>1 DEF EndsFinished
<1>7. ExecutorServes' /\ Closed'
  BY DEF IInv, ExecutorServes, Closed, PoolPosts
<1> QED BY <1>4, <1>5, <1>6, <1>7 DEF IInv

LEMMA SubmitKeeps ==
    ASSUME IInv, NEW command \in Commands, Submit(command), window.open, window' \in Window, window'.open,
           UNCHANGED <<executor, browser>>
    PROVE  IInv'
<1>1. /\ queue' \in Seq(Commands) /\ Len(queue') = Len(queue) + 1 /\ Len(queue) \in Nat
      /\ active' = active + 1 /\ UNCHANGED <<running, events>>
  BY DEF IInv, Typed, Submit
<1>2. Finished(events) \in Nat
  BY EndsFinite DEF IInv, Typed
<1>3. Typed'
  BY <1>1 DEF IInv, Typed
<1>4. Counted'
  BY <1>1, <1>2 DEF IInv, Typed, Counted, Busy, Finished, Ends
<1>5. EndsFinished' /\ ExecutorServes' /\ Closed'
  BY <1>1 DEF IInv, EndsFinished, ExecutorServes, Closed
<1> QED BY <1>3, <1>4, <1>5 DEF IInv

\* Steps that leave the pool and the executor alone.
LEMMA ElsewhereKeeps ==
    ASSUME IInv, UNCHANGED <<queue, running, active, events, executor, browser>>, window' \in Window,
           window.open => window'.open, ~window.open => UNCHANGED <<window, gui>>
    PROVE  IInv'
<1>1. Typed' /\ Counted' /\ EndsFinished' /\ ExecutorServes'
  BY DEF IInv, Typed, Counted, Busy, Finished, Ends, EndsFinished, ExecutorServes
<1>2. Closed'
  BY DEF IInv, Closed, Window
<1> QED BY <1>1, <1>2 DEF IInv

\* The window closes on an empty pool.
LEMMA CloseKeeps ==
    ASSUME IInv, Close, queue' \in Seq(Commands), events' = <<>>, UNCHANGED running, gui' = "ready",
           active' = 0, queue = <<>>, running = Nothing, UNCHANGED queue
    PROVE  IInv'
<1>1. window' \in Window
  BY DEF IInv, Typed, Close, Window
<1>2. Finished(events') = 0
  <2>1. Ends(events') = {}
    BY DEF Ends
  <2> QED BY <2>1, FS_EmptySet DEF Finished
<1>3. Typed' /\ EndsFinished'
  BY <1>1 DEF IInv, Typed, EndsFinished
<1>4. Counted'
  BY <1>2 DEF Counted, Busy
<1>5. ExecutorServes' /\ Closed'
  BY DEF Close, ExecutorServes, Closed
<1> QED BY <1>3, <1>4, <1>5 DEF IInv

LEMMA PoolKeeps ==
    ASSUME IInv, PoolStep
    PROVE  IInv'
<1>0. Finished(events) \in Nat /\ Len(queue) \in Nat
  BY EndsFinite DEF IInv, Typed
<1>1. CASE SkipCommand
  <2> DEFINE end == <<"finished", Head(queue)>>
  <2>1. /\ queue' \in Seq(Commands) /\ Head(queue) \in Commands /\ Len(queue') = Len(queue) - 1
        /\ end \in Events /\ events \in Seq(Events)
    BY <1>1 DEF SkipCommand, IInv, Typed, Events
  <2>2. events' = Append(events, end) /\ UNCHANGED <<running, active, executor, browser, gui, window>>
    BY <1>1 DEF SkipCommand, executorVars, guiVars
  <2>3. Finished(events') = Finished(events) + 1
    BY <2>1, <2>2, FinishedAppend
  <2>4. events'[Len(events')][1] = "finished" /\ events' \in Seq(Events)
    BY <2>1, <2>2
  <2>5. Counted'
    <3>1. active = Len(queue) + Busy + Finished(events) /\ Busy \in Nat
      BY DEF IInv, Counted, Busy
    <3>2. Busy' = Busy
      BY <2>2 DEF Busy
    <3>3. Len(queue) + Busy + Finished(events) = (Len(queue) - 1) + Busy + (Finished(events) + 1)
      BY <1>0, <3>1
    <3> QED BY <2>1, <2>2, <2>3, <3>1, <3>2, <3>3 DEF Counted
  <2> QED BY <2>1, <2>2, <2>4, <2>5 DEF IInv, Typed, EndsFinished, ExecutorServes, Closed
<1>2. CASE StartCommand
  <2>1. /\ queue' \in Seq(Commands) /\ Head(queue) \in Commands /\ Len(queue') = Len(queue) - 1
        /\ running' = Head(queue) /\ running = Nothing
        /\ UNCHANGED <<active, events, executor, browser, gui, window>>
    BY <1>2 DEF StartCommand, IInv, Typed, executorVars, guiVars
  <2>2. running' # Nothing
    BY <2>1 DEF Commands, VerificationActions, Nothing
  <2>3. Counted'
    BY <1>0, <2>1, <2>2 DEF IInv, Typed, Counted, Busy, Finished, Ends
  <2>4. executor \in {Nothing, "ended"}
    BY <2>1 DEF IInv, ExecutorServes, VerificationActions, Nothing
  <2>5. Typed' /\ EndsFinished'
    BY <2>1 DEF IInv, Typed, EndsFinished
  <2> QED BY <2>1, <2>3, <2>4, <2>5 DEF IInv, ExecutorServes, Closed
<1>3. CASE CommandEndsItself
  <2>1. PICK kind \in {"succeeded", "failed"} : PoolPosts(kind)
    BY <1>3 DEF CommandEndsItself
  <2>2. UNCHANGED <<executor, browser, gui, window>> /\ running \in {"run", "create"}
    BY <1>3 DEF CommandEndsItself, guiVars
  <2>3. running # Nothing /\ executor \in {Nothing, "ended"}
    BY <2>2 DEF IInv, ExecutorServes, VerificationActions, Nothing
  <2> QED BY <2>1, <2>2, <2>3, PostsKeeps
<1>4. CASE ClearSession
  <2>1. PoolPosts("succeeded") /\ UNCHANGED <<executor, browser, gui, window>> /\ running = "clear"
    BY <1>4 DEF ClearSession, guiVars
  <2>2. running # Nothing /\ executor \in {Nothing, "ended"}
    BY <2>1 DEF IInv, ExecutorServes, VerificationActions, Nothing
  <2> QED BY <2>1, <2>2, PostsKeeps
<1>5. CASE HandOver
  <2>1. running \in VerificationActions
    BY <1>5 DEF HandOver
  <2>2. UNCHANGED <<queue, running, active, events, browser, gui, window>> /\ executor = Nothing /\ executor' = running
    BY <1>5 DEF HandOver, poolVars, guiVars
  <2> QED BY <2>1, <2>2 DEF IInv, Typed, Counted, Busy, Finished, Ends, EndsFinished, ExecutorServes, Closed, Nothing
<1> QED BY <1>1, <1>2, <1>3, <1>4, <1>5 DEF PoolStep

LEMMA ExecutorKeeps ==
    ASSUME IInv, ExecutorStep
    PROVE  IInv'
<1>1. executor \notin {Nothing, "ended"}
  BY DEF ExecutorStep, Begin, FinishRefused, FinishSaves, SaveContinues, SaveStep, FinishEnds, Defer, Nothing
<1>2. running \in VerificationActions /\ running # Nothing /\ window.open
  BY <1>1 DEF IInv, ExecutorServes, Closed, VerificationActions, Nothing
<1>3. ASSUME NEW kind \in {"succeeded", "failed"}, Answers(kind), UNCHANGED guiVars
      PROVE  IInv'
  BY <1>1, <1>2, <1>3, PostsKeeps DEF Answers, guiVars
<1>4. CASE FinishSaves \/ SaveContinues
  <2>1. UNCHANGED <<poolVars, browser, guiVars>> /\ executor' \notin {Nothing, "ended"}
    BY <1>4 DEF FinishSaves, SaveContinues, Nothing
  <2> QED BY <1>2, <2>1 DEF IInv, Typed, Counted, Busy, Finished, Ends, EndsFinished, ExecutorServes, Closed, poolVars,
                            guiVars
<1> QED BY <1>3, <1>4 DEF ExecutorStep, Begin, FinishRefused, FinishEnds, Defer

LEMMA EventsKeep ==
    ASSUME IInv, TakeEvent
    PROVE  IInv'
<1> DEFINE kind == Head(events)[1]
<1>0. /\ window.open /\ gui = "ready" /\ events \in Seq(Events) /\ events # <<>> /\ Len(queue) \in Nat
      /\ Tail(events) \in Seq(Events) /\ events' = Tail(events)
      /\ UNCHANGED <<queue, running>>
  BY DEF TakeEvent, TakeResult, TakeFinished, Ready, IInv, Typed
<1>1. /\ Finished(events') = Finished(events) - (IF kind = "finished" THEN 1 ELSE 0)
      /\ Finished(events) \in Nat /\ Finished(events') \in Nat
  BY <1>0, FinishedTail, EndsFinite
<1>2. EndsFinished'
  <2> SUFFICES ASSUME events' # <<>> PROVE events'[Len(events')] = events[Len(events)]
    BY <1>0 DEF IInv, EndsFinished
  <2>1. Len(events') \in Nat \ {0} /\ Len(events') = Len(events) - 1
    BY <1>0, EmptySeq
  <2> QED BY <1>0, <2>1
<1>3. CASE TakeResult
  <2>1. UNCHANGED <<active, executor, browser>> /\ kind # "finished"
    BY <1>3 DEF TakeResult, executorVars
  <2>2. window' \in Window /\ window'.open
    <3>1. PICK w \in BOOLEAN, sh \in BOOLEAN :
             window' = [window EXCEPT !.waiting = w, !.startPending = FALSE, !.shown = sh]
      BY <1>3 DEF TakeResult, IInv, Typed, Window
    <3> QED BY <1>0, <3>1 DEF IInv, Typed, Window
  <2>3. Counted'
    BY <1>0, <1>1, <2>1 DEF IInv, Counted, Busy
  <2> QED BY <1>0, <1>2, <2>1, <2>2, <2>3 DEF IInv, Typed, ExecutorServes, Closed
<1>4. CASE TakeFinished
  <2>1. kind = "finished" /\ active' = active - 1
    BY <1>4 DEF TakeFinished
  <2>2. active = Len(queue) + Busy + Finished(events) /\ Busy \in {0, 1} /\ active \in Nat
    BY DEF IInv, Counted, Typed, Busy
  <2>3. Counted' /\ active' \in Nat
    <3>1. Busy' = Busy
      BY <1>0 DEF Busy
    <3> QED BY <1>0, <1>1, <2>1, <2>2, <3>1 DEF Counted
  <2>4. CASE active = 1 /\ window.closeWhenIdle
    <3>1. Finished(events) = 1 /\ Len(queue) = 0 /\ Busy = 0
      BY <1>0, <1>1, <2>1, <2>2, <2>4
    <3>2. running = Nothing
      BY <3>1 DEF Busy
    <3>3. queue = <<>>
      BY <3>1, EmptySeq DEF IInv, Typed
    <3>4. Tail(events) = <<>>
      BY <1>0, <2>1, <3>1, NoEndNoEvent DEF IInv
    <3>5. Close /\ gui' = "ready" /\ active' = 0
      BY <1>0, <1>4, <2>1, <2>4 DEF TakeFinished
    <3> QED BY <1>0, <3>2, <3>3, <3>4, <3>5, CloseKeeps DEF IInv, Typed
  <2>5. CASE ~(active = 1 /\ window.closeWhenIdle)
    <3>1. UNCHANGED <<window, executor, browser, gui>>
      BY <1>4, <2>5 DEF TakeFinished
    <3> QED BY <1>0, <1>2, <2>3, <3>1 DEF IInv, Typed, ExecutorServes, Closed
  <2> QED BY <2>4, <2>5
<1> QED BY <1>3, <1>4 DEF TakeEvent

\* Nothing runs, waits or is left to take when the count is zero.
LEMMA IdleIsEmpty ==
    ASSUME IInv, active = 0
    PROVE  running = Nothing /\ queue = <<>> /\ events = <<>>
<1>1. Finished(events) \in Nat /\ Len(queue) \in Nat /\ Busy \in {0, 1}
  BY EndsFinite DEF IInv, Typed, Busy
<1>2. Finished(events) = 0 /\ Len(queue) = 0 /\ Busy = 0
  BY <1>1 DEF IInv, Counted
<1>3. events = <<>>
  BY <1>2, NoEndNoEvent DEF IInv, Typed
<1> QED BY <1>2, <1>3, EmptySeq DEF IInv, Typed, Busy

LEMMA GuiKeeps ==
    ASSUME IInv, GuiStep
    PROVE  IInv'
<1>1. CASE RefreshStep
  BY <1>1, ElsewhereKeeps DEF RefreshStep, poolVars, IInv, Typed
<1>2. CASE RefreshEnds
  <2>1. window.open /\ window' = window /\ window' \in Window /\ UNCHANGED <<executor, browser>>
    BY <1>2 DEF RefreshEnds, IInv, Closed, Typed, executorVars
  <2>2. Submit("run") \/ UNCHANGED poolVars
    BY <1>2 DEF RefreshEnds
  <2> QED BY <2>1, <2>2, SubmitKeeps, ElsewhereKeeps DEF poolVars, Commands
<1>3. CASE RefreshFails
  BY <1>3, ElsewhereKeeps DEF RefreshFails, poolVars, executorVars, IInv, Typed, Closed
<1> QED BY <1>1, <1>2, <1>3 DEF GuiStep

LEMMA UserKeeps ==
    ASSUME IInv, UserStep
    PROVE  IInv'
<1>0. window \in Window /\ (active = 0 => running = Nothing /\ queue = <<>> /\ events = <<>>)
  BY IdleIsEmpty DEF IInv, Typed
<1>1. ASSUME NEW command \in Commands, Ask(command) PROVE IInv'
  <2>1. window.open /\ Submit(command) /\ UNCHANGED <<executor, browser>>
    BY <1>1 DEF Ask, Ready, executorVars
  <2>2. window' \in Window /\ window'.open
    BY <1>0, <1>1, <2>1 DEF Ask, Window
  <2> QED BY <2>1, <2>2, SubmitKeeps
<1>2. CASE CancelTask
  <2>1. window' \in Window /\ window.open /\ window'.open
    <3>1. PICK sh \in BOOLEAN : window' = [window EXCEPT !.shown = sh]
      BY <1>2 DEF CancelTask
    <3> QED BY <1>0, <1>2, <3>1 DEF CancelTask, Ready, Window
  <2> QED BY <1>2, <2>1, ElsewhereKeeps DEF CancelTask, poolVars, executorVars
<1>3. ASSUME Close, active = 0, UNCHANGED <<gui, queue, running, active, events>>, gui = "ready"
      PROVE  IInv'
  BY <1>0, <1>3, CloseKeeps DEF IInv, Typed
<1>4. ASSUME window.open, window' \in Window, window'.open,
             UNCHANGED <<queue, running, active, events, executor, browser>>
      PROVE  IInv'
  BY <1>4, ElsewhereKeeps
<1>5. CASE AskToClose
  <2>1. CASE HasActiveWork
    <3>1. window' = [window EXCEPT !.dialog = TRUE]
      BY <1>5, <2>1 DEF AskToClose
    <3>2. window' \in Window /\ window'.open /\ window.open
      BY <1>0, <1>5, <3>1 DEF AskToClose, Ready, Window
    <3> QED BY <1>4, <1>5, <2>1, <3>2 DEF AskToClose
  <2>2. CASE ~HasActiveWork
    <3>1. active = 0
      BY <2>2 DEF HasActiveWork, IInv, Typed
    <3> QED BY <1>3, <1>5, <2>2, <3>1 DEF AskToClose, Ready
  <2> QED BY <2>1, <2>2
<1>6. CASE ChooseMinimize
  <2>1. PICK tray \in {window.tray, TRUE} : window' = [window EXCEPT !.dialog = FALSE, !.tray = tray]
    BY <1>6 DEF ChooseMinimize
  <2>2. window' \in Window /\ window'.open /\ window.open
    BY <1>0, <1>6, <2>1 DEF ChooseMinimize, Ready, Window
  <2> QED BY <1>4, <1>6, <2>2 DEF ChooseMinimize, poolVars, executorVars
<1>7. ASSUME ExitAfterCurrent, window.open, UNCHANGED <<executor, browser>> PROVE IInv'
  <2>1. window' = [window EXCEPT !.dialog = FALSE, !.closeWhenIdle = TRUE]
    BY <1>7 DEF ExitAfterCurrent
  <2>2. window' \in Window /\ window'.open
    BY <1>0, <1>7, <2>1 DEF Window
  <2> QED BY <1>4, <1>7, <2>2 DEF ExitAfterCurrent
<1>8. CASE ChooseExit
  BY <1>7, <1>8 DEF ChooseExit, Ready, executorVars
<1>9. CASE TrayExit
  <2>1. CASE HasActiveWork
    BY <1>7, <1>9, <2>1 DEF TrayExit, Ready
  <2>2. CASE ~HasActiveWork
    <3>1. active = 0
      BY <2>2 DEF HasActiveWork, IInv, Typed
    <3> QED BY <1>3, <1>9, <2>2, <3>1 DEF TrayExit, Ready
  <2> QED BY <2>1, <2>2
<1> QED BY <1>1, <1>2, <1>5, <1>6, <1>8, <1>9 DEF UserStep

LEMMA DesktopStepKeeps ==
    ASSUME IInv, [DesktopNext]_desktopVars
    PROVE  IInv'
<1>1. CASE UNCHANGED desktopVars
  BY <1>1 DEF desktopVars, poolVars, executorVars, guiVars, IInv, Typed, Counted, Busy, Finished, Ends, EndsFinished,
              ExecutorServes, Closed
<1> QED BY <1>1, PoolKeeps, ExecutorKeeps, EventsKeep, GuiKeeps, UserKeeps DEF DesktopNext

\* A window that has closed leaves no command, no result and no browser of a
\* verification behind (main_window.py: request_close, exit_after_current, _finished).
THEOREM ClosedLeavesNothingHolds == DesktopSpec => []ClosedLeavesNothing
<1>1. DesktopInit => IInv
  <2> SUFFICES ASSUME DesktopInit PROVE IInv
    OBVIOUS
  <2>1. Finished(events) = 0
    <3>1. Ends(events) = {}
      BY DEF DesktopInit, Ends
    <3> QED BY <3>1, FS_EmptySet DEF Finished
  <2>2. window \in Window /\ window.open
    BY DEF DesktopInit, Window
  <2> QED BY <2>1, <2>2 DEF DesktopInit, IInv, Typed, Counted, Busy, EndsFinished, ExecutorServes, Closed
<1>2. IInv => ClosedLeavesNothing
  BY IdleIsEmpty DEF IInv, Closed, ClosedLeavesNothing
<1> QED BY <1>1, <1>2, DesktopStepKeeps, PTL DEF DesktopSpec
===============================================================================
