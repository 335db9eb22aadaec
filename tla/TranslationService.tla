-------------------------- MODULE TranslationService --------------------------
(***************************************************************************)
(* crawler/local_translation_service.py: the LibreTranslate child process  *)
(* of one desktop session, started when the window is built and stopped    *)
(* when it closes (desktop_app.py), and the address in the translation     *)
(* settings, which the settings page writes too.                           *)
(*                                                                         *)
(* The child is outside the program: it comes up, hangs or ends as it      *)
(* likes.  The deadline of the start is a number of health checks.         *)
(***************************************************************************)
EXTENDS Naturals

CONSTANT MaxChecks          \* health checks before the deadline of start

ASSUME MaxChecksAssumption == MaxChecks \in Nat \ {0}

\* The endpoints: the one in the settings file and the one start chose.
Configured == "configured"
Managed == "managed"
NoEndpoint == "no endpoint"

Alive == {"starting", "up", "hung"}

VARIABLES
    child,      \* the child process
    survives,   \* the child does not end even when it is killed
    outside,    \* a service of the user answers at the configured endpoint
    app,        \* what the window does
    stage,      \* how far stop is
    checks,     \* health checks made by start
    process,    \* LocalTranslationService._process is set
    endpoint,   \* LocalTranslationService._endpoint
    address     \* translation_settings.endpoint of the window

serviceVars == <<child, survives, outside, app, stage, checks, process, endpoint, address>>

ServiceInit ==
    /\ child = "none" /\ survives \in BOOLEAN /\ outside \in BOOLEAN
    /\ app = "launch" /\ stage = "forget" /\ checks = 0
    /\ process = FALSE /\ endpoint = NoEndpoint /\ address = Configured

\* What the child does by itself.
ChildChanges ==
    /\ child \in Alive
    /\ child' \in {"up", "hung", "dead"} \ {child}
    /\ UNCHANGED <<survives, outside, app, stage, checks, process, endpoint, address>>

\* A request to a service: an answer, no answer in time, or no connection.
Responses(at) ==
    IF at = Managed
    THEN CASE child = "up"             -> {"answer", "timeout"}
           [] child \in {"starting", "hung"} -> {"timeout", "refused"}
           [] OTHER                    -> {"refused"}
    ELSE IF outside THEN {"answer", "timeout"} ELSE {"refused"}

\* Popen, which may fail.
Launch ==
    /\ app = "launch"
    /\ \/ /\ child' = "starting" /\ process' = TRUE /\ app' = "wait"
       \/ /\ app' = "ready" /\ UNCHANGED <<child, process>>
    /\ UNCHANGED <<survives, outside, stage, checks, endpoint, address>>

\* start returns, and the window takes the endpoint.
Started ==
    /\ endpoint' = Managed /\ address' = Managed /\ app' = "ready"
    /\ UNCHANGED <<child, survives, outside, stage, checks, process>>

\* Mutant of CheckHealth: there is no deadline.
CheckForever ==
    /\ app = "wait"
    /\ \/ /\ child = "dead" /\ app' = "give up"
          /\ UNCHANGED <<child, survives, outside, stage, checks, process, endpoint, address>>
       \/ /\ child # "dead" /\ "answer" \in Responses(Managed)
          /\ Started

\* One round of _wait_until_healthy.
CheckHealth ==
    /\ app = "wait"
    /\ \/ /\ child = "dead" /\ app' = "give up"
          /\ UNCHANGED <<child, survives, outside, stage, checks, process, endpoint, address>>
       \/ /\ child # "dead" /\ "answer" \in Responses(Managed)
          /\ Started
       \/ /\ child # "dead" /\ Responses(Managed) # {"answer"}
          /\ checks' = checks + 1
          /\ app' = IF checks + 1 = MaxChecks THEN "give up" ELSE "wait"
          /\ UNCHANGED <<child, survives, outside, stage, process, endpoint, address>>

\* Where stop leads: start gives up, or the window closes.
After(step) == IF step = "give up" THEN "ready" ELSE "closed"

Stopping == app \in {"give up", "close"}

\* stop forgets the process before it ends it.
StopBegins ==
    /\ Stopping /\ stage = "forget"
    /\ process' = FALSE /\ endpoint' = NoEndpoint
    /\ IF process /\ child # "dead"
       THEN stage' = "terminate" /\ UNCHANGED app
       ELSE app' = After(app) /\ UNCHANGED stage
    /\ UNCHANGED <<child, survives, outside, checks, address>>

\* terminate, and a wait that may run out; another error ends stop.
Terminate ==
    /\ Stopping /\ stage = "terminate"
    /\ \/ child' = "dead" /\ app' = After(app) /\ stage' = "forget"
       \/ child \in Alive /\ stage' = "kill" /\ UNCHANGED <<child, app>>
       \/ survives /\ app' = After(app) /\ stage' = "forget" /\ UNCHANGED child
    /\ UNCHANGED <<survives, outside, checks, process, endpoint, address>>

\* Mutant of Kill: a child that did not end in time is left.
LeaveChild ==
    /\ Stopping /\ stage = "kill" /\ app' = After(app) /\ stage' = "forget"
    /\ UNCHANGED <<child, survives, outside, checks, process, endpoint, address>>

\* kill, whose errors are passed over.
Kill ==
    /\ Stopping /\ stage = "kill" /\ app' = After(app) /\ stage' = "forget"
    /\ child' = IF survives THEN child ELSE "dead"
    /\ UNCHANGED <<survives, outside, checks, process, endpoint, address>>

StopService == StopBegins \/ Terminate \/ Kill

Close ==
    /\ app = "ready" /\ app' = "close"
    /\ UNCHANGED <<child, survives, outside, stage, checks, process, endpoint, address>>

\* _save_settings with what the page shows: the endpoint of the settings file.
SaveSettings ==
    /\ app = "ready" /\ address' = Configured
    /\ UNCHANGED <<child, survives, outside, app, stage, checks, process, endpoint>>

ServiceStep == Launch \/ CheckHealth \/ StopService

ServiceNext == ChildChanges \/ ServiceStep \/ Close \/ SaveSettings

-----------------------------------------------------------------------------
(* Properties.                                                             *)

\* The window opens without the service, or closes: no child of it is left, unless the
\* system refused to kill it.  A start that fails half way is the hard case.
NoChildIsLeft ==
    app \in {"ready", "closed"} /\ ~process /\ child \in Alive => survives

\* Start and stop come to an end, whatever the child does.
WindowIsNotHeld == app \notin {"ready", "closed"} ~> app \in {"ready", "closed"}

=============================================================================
