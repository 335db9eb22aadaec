----------------------------- MODULE SessionStore -----------------------------
(***************************************************************************)
(* crawler/session_store.py: the protected browser session of each site.   *)
(* A session is a payload file, named by the digest of its metadata (its   *)
(* generation), and a manifest that holds the metadata; the manifest is    *)
(* the commit.  One operation runs at a time (the lock of _locked and the  *)
(* named mutex); it can fail, and the process can end, between any two     *)
(* changes of the directory.  Time passes between operations: each reads   *)
(* the clock once.                                                         *)
(***************************************************************************)
EXTENDS Integers, FiniteSetsExt

CONSTANTS
    Hosts, Data,
    Rare,       \* bound of the model: sites saved at time 0 and otherwise only swept
    MaxTime,    \* bound of the model: the clock stops there
    Lifetime,   \* _SESSION_LIFETIME
    None,       \* no file; the reply None
    Broken,     \* a file the code cannot decode
    Error       \* an exception

Time == 0 .. MaxTime

\* The metadata: expires_at is always saved_at + Lifetime.
Meta == [saved : Time, used : Time]

ASSUME SessionAssumption ==
    /\ MaxTime \in Nat
    /\ Lifetime \in Nat \ {0}
    /\ Rare \subseteq Hosts
    /\ Data \cap {None, Broken, Error} = {}
    /\ {None, Broken} \cap Meta = {}
    /\ None \notin [data : Data, saved : Time]
    /\ None # Broken /\ None # Error
    /\ None \notin Hosts

VARIABLES
    clock,      \* the wall clock, which does not go back
    manifest,   \* of each site: its .json file
    payload,    \* of each site and generation: its .session file
    litter,     \* sites with .tmp files that nobody is writing any more
    op,         \* the operation that holds the lock, and where it is
    answer      \* what the last operation returned

sessionVars == <<clock, manifest, payload, litter, op, answer>>

NoMeta == [saved |-> 0, used |-> 0]

NoOp == [kind |-> "none", host |-> None, data |-> None, at |-> 0,
         pc |-> "idle", meta |-> NoMeta, found |-> None, scope |-> {}, todo |-> {}]

Committed(h) == manifest[h] \in Meta

Expired(h) == op.at >= manifest[h].saved + Lifetime

SessionInit ==
    /\ clock = 0
    /\ manifest = [h \in Hosts |-> None]
    /\ payload = [h \in Hosts |-> [g \in Meta |-> None]]
    /\ litter = {}
    /\ op = NoOp
    /\ answer = None

-----------------------------------------------------------------------------
(* The clock, and the lock.                                                *)

Tick ==
    /\ op.pc = "idle" /\ clock < MaxTime
    /\ clock' = clock + 1
    /\ UNCHANGED <<manifest, payload, litter, op, answer>>

Begin(request) ==
    /\ op.pc = "idle"
    /\ op' = request
    /\ UNCHANGED <<clock, manifest, payload, litter, answer>>

Goto(pc) ==
    /\ op' = [op EXCEPT !.pc = pc]
    /\ UNCHANGED <<clock, answer>>

Return(value) ==
    /\ op' = NoOp
    /\ answer' = value
    /\ UNCHANGED clock

Operation(kind, pc) == [NoOp EXCEPT !.kind = kind, !.pc = pc, !.at = clock]

\* The metadata save writes.
SavedMeta == [saved |-> clock, used |-> clock]

Save(h, d) ==
    /\ h \in Rare => clock = 0
    /\ Begin([Operation("save", "publish") EXCEPT
           !.host = h, !.data = d, !.found = d, !.meta = SavedMeta])

Load(h) == Begin([Operation("load", "read") EXCEPT !.host = h])

ClearSite(h) == Begin([Operation("clear", "manifests") EXCEPT !.host = h, !.scope = {h}])

ClearAll == Begin([Operation("clear_all", "manifests") EXCEPT !.scope = Hosts])

\* list_sessions and purge_expired, which do the same to the directory.
Sweep == Begin([Operation("sweep", "visit") EXCEPT !.todo = Hosts])

-----------------------------------------------------------------------------
(* save and load: a generation, then the manifest.                         *)

\* Mutant of Publish: the payload follows the manifest.
PublishLater ==
    /\ op.pc = "publish"
    /\ manifest' = [manifest EXCEPT ![op.host] = op.meta]
    /\ payload' = [payload EXCEPT ![op.host][op.meta] = None]
    /\ Goto("commit")
    /\ UNCHANGED litter

\* _publish_generation: a generation is never overwritten, except by a save of the
\* same instant.
Publish ==
    LET stored == payload[op.host][op.meta] IN
    /\ op.pc = "publish"
    /\ \/ /\ \/ stored = None
             \/ stored \in Data /\ op.kind = "save"
             \/ stored = op.found
          /\ payload' = [payload EXCEPT ![op.host][op.meta] = op.found]
          /\ Goto("commit")
       \/ /\ stored = Broken \/ (stored \in Data \ {op.found} /\ op.kind = "load")
          /\ Return(Error)
          /\ UNCHANGED payload
    /\ UNCHANGED <<manifest, litter>>

Commit ==
    /\ op.pc = "commit"
    /\ manifest' = [manifest EXCEPT ![op.host] = op.meta]
    /\ Goto("done")
    /\ UNCHANGED <<payload, litter>>

Finish ==
    /\ op.pc = "done"
    /\ Return(IF op.kind = "load" THEN op.found ELSE None)
    /\ UNCHANGED <<manifest, payload, litter>>

IsReadable(h) ==
    /\ Committed(h) /\ ~Expired(h)
    /\ payload[h][manifest[h]] \in Data

UsedMeta(h) ==
    [manifest[h] EXCEPT !.used = Max({op.at, manifest[h].saved, manifest[h].used})]

ReadSession ==
    LET h == op.host IN
    /\ op.pc = "read"
    /\ \/ manifest[h] = None /\ Return(None)
       \/ /\ manifest[h] # None /\ ~IsReadable(h)
          /\ op' = [op EXCEPT !.pc = "manifests", !.scope = {h}]
          /\ UNCHANGED <<clock, answer>>
       \/ IsReadable(h) /\ UsedMeta(h) = manifest[h] /\ Return(payload[h][manifest[h]])
       \/ /\ IsReadable(h) /\ UsedMeta(h) # manifest[h]
          /\ op' = [op EXCEPT !.pc = "publish", !.meta = UsedMeta(h),
                              !.found = payload[h][manifest[h]]]
          /\ UNCHANGED <<clock, answer>>
    /\ UNCHANGED <<manifest, payload, litter>>

-----------------------------------------------------------------------------
(* Removal (_remove_group, clear_all): manifests, payloads, temporaries.   *)

RemoveManifest(h) ==
    /\ op.pc = "manifests" /\ h \in op.scope /\ manifest[h] # None
    /\ manifest' = [manifest EXCEPT ![h] = None]
    /\ UNCHANGED <<clock, payload, litter, op, answer>>

ManifestsGone ==
    /\ op.pc = "manifests"
    /\ \A h \in op.scope : manifest[h] = None
    /\ Goto("payloads")
    /\ UNCHANGED <<manifest, payload, litter>>

\* Every generation but the one its manifest names.
RemovePayload(h, g) ==
    /\ op.pc \in {"payloads", "prune", "orphans"}
    /\ h \in op.scope /\ g # manifest[h] /\ payload[h][g] # None
    /\ payload' = [payload EXCEPT ![h][g] = None]
    /\ UNCHANGED <<clock, manifest, litter, op, answer>>

PayloadsGone ==
    \A h \in op.scope : \A g \in Meta : payload[h][g] # None => g = manifest[h]

RemoveTemporaries ==
    /\ op.pc = "payloads" /\ PayloadsGone
    /\ litter' = litter \ op.scope
    /\ IF op.kind = "sweep" THEN Goto("visit") ELSE Return(None)
    /\ UNCHANGED <<manifest, payload>>

-----------------------------------------------------------------------------
(* list_sessions and purge_expired, manifest by manifest; then what no     *)
(* manifest names.                                                         *)

\* A payload only has to be there: a sweep does not decrypt.
IsListed(h) ==
    /\ Committed(h) /\ ~Expired(h)
    /\ payload[h][manifest[h]] # None

Visit(h) ==
    /\ op.pc = "visit" /\ h \in op.todo
    /\ op' = [op EXCEPT !.todo = @ \ {h}, !.scope = {h},
                        !.pc = IF manifest[h] = None THEN "visit"
                               ELSE IF IsListed(h) THEN "prune" ELSE "manifests"]
    /\ UNCHANGED <<clock, manifest, payload, litter, answer>>

Pruned ==
    /\ op.pc = "prune" /\ PayloadsGone
    /\ Goto("visit")
    /\ UNCHANGED <<manifest, payload, litter>>

VisitsEnd ==
    /\ op.pc = "visit" /\ op.todo = {}
    /\ op' = [op EXCEPT !.pc = "orphans", !.scope = {h \in Hosts : manifest[h] = None}]
    /\ UNCHANGED <<clock, manifest, payload, litter, answer>>

\* Mutant of SweepEnds: the temporaries of sites without a manifest are left.
SweepEndsEarly ==
    /\ op.pc = "orphans" /\ PayloadsGone
    /\ Return(None)
    /\ UNCHANGED <<manifest, payload, litter>>

SweepEnds ==
    /\ op.pc = "orphans" /\ PayloadsGone
    /\ litter' = {}
    /\ Return(None)
    /\ UNCHANGED <<manifest, payload>>

-----------------------------------------------------------------------------
(* Failure, the end of the process, and damage from outside.               *)

Fail ==
    /\ op.pc # "idle"
    /\ Return(Error)
    /\ UNCHANGED <<manifest, payload, litter>>

\* While a file is written its temporary may be left behind.
Crash ==
    /\ op.pc # "idle"
    /\ Return(Error)
    /\ litter' \in {litter, litter \cup ({op.host} \ {None})}
    /\ litter' # litter => op.pc \in {"publish", "commit"}
    /\ UNCHANGED <<manifest, payload>>

Spoil(h) ==
    /\ op.pc = "idle" /\ Committed(h)
    /\ \/ manifest' = [manifest EXCEPT ![h] = Broken] /\ UNCHANGED payload
       \/ \E rest \in {None, Broken} :
              payload' = [payload EXCEPT ![h][manifest[h]] = rest]
          /\ UNCHANGED manifest
    /\ UNCHANGED <<clock, litter, op, answer>>

SessionNext ==
    \/ Tick \/ ClearAll \/ Sweep
    \/ Publish \/ Commit \/ Finish \/ ReadSession
    \/ ManifestsGone \/ RemoveTemporaries \/ Pruned \/ VisitsEnd \/ SweepEnds
    \/ Fail \/ Crash
    \/ \E h \in Hosts, d \in Data : Save(h, d)
    \/ \E h \in Hosts \ Rare : Load(h) \/ ClearSite(h) \/ Spoil(h)
    \/ \E h \in Hosts : RemoveManifest(h) \/ Visit(h)
    \/ \E h \in Hosts, g \in Meta : RemovePayload(h, g)

SessionSpec == SessionInit /\ [][SessionNext]_sessionVars

-----------------------------------------------------------------------------
(* Properties.                                                             *)

OpStages ==
    {"idle", "publish", "commit", "done", "read", "manifests", "payloads", "prune", "visit", "orphans"}

Operations ==
    [kind : {"none", "save", "load", "clear", "clear_all", "sweep"},
     host : Hosts \cup {None}, data : Data \cup {None}, at : Time,
     pc : OpStages, meta : Meta, found : Data \cup {None},
     scope : SUBSET Hosts, todo : SUBSET Hosts]

\* The types of the files and of the operation in progress.
SessionTypeOK ==
    /\ clock \in Time
    /\ manifest \in [Hosts -> Meta \cup {None, Broken}]
    /\ payload \in [Hosts -> [Meta -> Data \cup {None, Broken}]]
    /\ litter \in SUBSET Hosts
    /\ op \in Operations
    /\ answer \in Data \cup {None, Error}

\* What the store holds for a site, whatever else lies in the directory.
Stored(h) ==
    IF manifest[h] \in Meta /\ payload[h][manifest[h]] \in Data
    THEN [data |-> payload[h][manifest[h]], saved |-> manifest[h].saved]
    ELSE None

Abs == INSTANCE AtomicSession WITH
    Times <- Time,
    session <- [h \in Hosts |-> Stored(h)],
    asked <- [kind |-> op.kind, host |-> op.host, data |-> op.data, at |-> op.at],
    reply <- answer

\* Every operation takes effect at once or not at all, wherever it fails and wherever
\* the process ends: the generation-then-manifest protocol of save and load and the
\* manifest-first order of every removal implement AtomicSession.
SessionsAreAtomic == Abs!Spec

\* A load never meets another session's data in the generation it publishes, so that
\* it is never refused: _publish_generation lets only a save replace a generation.
LoadFindsNoConflict ==
    op.pc = "publish" /\ op.kind = "load"
        => payload[op.host][op.meta] \notin Data \ {op.found}

\* A sweep that ends leaves of every crash before it nothing but the generation that
\* each manifest names, and no session that has expired.
SweepLeavesNoRest ==
    [][ op.kind = "sweep" /\ op'.pc = "idle" /\ answer' # Error =>
            /\ litter' = {}
            /\ \A h \in Hosts : manifest'[h] # None => manifest'[h].saved + Lifetime > op.at
            /\ \A h \in Hosts : {g \in Meta : payload'[h][g] # None} = {manifest'[h]} \ {None}
      ]_sessionVars
=============================================================================
