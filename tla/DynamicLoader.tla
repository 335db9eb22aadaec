---------------------------- MODULE DynamicLoader ----------------------------
(***************************************************************************)
(* crawler/dynamic_loader.py: collect_dynamic_snapshots clicks the "load   *)
(* more" control of a people list, then scrolls it, and keeps a snapshot   *)
(* of every round that shows a profile link it has not seen.               *)
(*                                                                         *)
(* A view is what one HTML text shows: its size, and a row for each        *)
(* person with the class the title pipeline puts it in.  The site decides  *)
(* what every round shows.                                                 *)
(***************************************************************************)
EXTENDS Integers, SequencesExt

CONSTANTS
    People,
    Linked,         \* the people whose rows have a profile link
    Views,          \* what the pages of the site may show
    MaxRounds       \* max_clicks and max_scrolls

Sizes == {"empty", "blank", "short", "full"}
Classes == {"include", "review", "exclude", "pending"}

ASSUME LoaderAssumption ==
    /\ Linked \subseteq People
    /\ \A v \in Views :
           /\ v.size \in Sizes
           /\ \E shown \in SUBSET People : v.rows \in [shown -> Classes]
           /\ v.size # "full" => DOMAIN v.rows = {}
    /\ MaxRounds \in Nat \ {0}

VARIABLES
    loader,     \* the phase, its rounds and the rounds without a new link
    seen,       \* the profile links seen since the page was given to the loader
    snapshots   \* the rounds that showed a new one

loaderVars == <<loader, seen, snapshots>>

\* normalized_person_profile_urls.
Links(v) == DOMAIN v.rows \cap Linked

\* unchanged_limit of each action.
Patience == [load_more |-> 2, scroll |-> 3]

LoaderOff == [phase |-> "off", rounds |-> 0, unchanged |-> 0, challenged |-> FALSE]

LoaderInit ==
    /\ loader = LoaderOff
    /\ seen = {}
    /\ snapshots = <<>>

LoaderStarts(v) ==
    /\ loader' = [LoaderOff EXCEPT !.phase = "load_more"]
    /\ seen' = Links(v)
    /\ snapshots' = <<>>

\* The loader's variables go out of scope.
LoaderIsOver == loader' = LoaderOff /\ seen' = {} /\ snapshots' = <<>>

IsLoading == loader.phase \in {"load_more", "scroll"}

\* stop_all_actions.
StopsAll(challenged) ==
    loader' = [loader EXCEPT !.phase = "done", !.challenged = challenged]

\* The end of an action: two_unchanged_clicks, round_limit or control_exhausted.
ActionEnds ==
    loader' = IF loader.phase = "load_more"
              THEN [LoaderOff EXCEPT !.phase = "scroll"]
              ELSE [loader EXCEPT !.phase = "done"]

LoaderTimesOut == IsLoading /\ StopsAll(FALSE) /\ UNCHANGED <<seen, snapshots>>

ControlExhausted == IsLoading /\ ActionEnds /\ UNCHANGED <<seen, snapshots>>

LoaderChallenged == IsLoading /\ StopsAll(TRUE) /\ UNCHANGED <<seen, snapshots>>

\* Mutant of Keeps: a round is kept only when it shows nothing the page had before.
KeepsFreshOnly(v) ==
    /\ seen' = seen \cup Links(v)
    /\ snapshots' = IF Links(v) # {} /\ Links(v) \cap seen = {}
                    THEN Append(snapshots, v) ELSE snapshots

Keeps(v) ==
    /\ seen' = seen \cup Links(v)
    /\ snapshots' = IF Links(v) \subseteq seen THEN snapshots ELSE Append(snapshots, v)

UnchangedAfter(v) == IF Links(v) \subseteq seen THEN loader.unchanged + 1 ELSE 0

\* A round: the deadline is looked at after it too.
LoaderRound(v) ==
    LET unchanged == UnchangedAfter(v)
        rounds == loader.rounds + 1
    IN
    /\ IsLoading
    /\ Keeps(v)
    /\ \/ StopsAll(FALSE)
       \/ /\ unchanged >= Patience[loader.phase] \/ rounds >= MaxRounds
          /\ ActionEnds
       \/ /\ unchanged < Patience[loader.phase] /\ rounds < MaxRounds
          /\ loader' = [loader EXCEPT !.rounds = rounds, !.unchanged = unchanged]

LoaderStep ==
    \/ LoaderTimesOut \/ ControlExhausted \/ LoaderChallenged
    \/ \E v \in Views : LoaderRound(v)

LoaderTypeOK ==
    /\ loader \in [phase : {"off", "load_more", "scroll", "done"}, rounds : 0 .. MaxRounds,
                   unchanged : 0 .. 2, challenged : BOOLEAN]
    /\ seen \subseteq Linked
    /\ snapshots \in Seq(Views)
=============================================================================
