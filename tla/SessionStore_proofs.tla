------------------------- MODULE SessionStore_proofs -------------------------
(***************************************************************************)
(* SessionStore implements AtomicSession, for every set of sites and data, *)
(* every lifetime and every clock.                                         *)
(*                                                                         *)
(* The step-by-step protocol rests on what the operation in progress knows *)
(* of the directory (Saving, Loading, Clearing, Sweeping), on times never  *)
(* lying in the future (TimesHold), and on all generations of one session  *)
(* having the same data (Uniform), so that a load can publish a further    *)
(* one without meeting another session's.                                  *)
(***************************************************************************)
EXTENDS SessionStore, TLAPS

Past(g) == g.saved =< g.used /\ g.used =< clock

\* No file names a time to come.
TimesHold ==
    /\ \A h \in Hosts : manifest[h] \in Meta => Past(manifest[h])
    /\ \A h \in Hosts, g \in Meta : payload[h][g] # None => Past(g)

\* The generations of a session differ in when it was used, not in their data.
Uniform ==
    \A h \in Hosts : \A f, g \in Meta :
        /\ payload[h][f] \in Data /\ payload[h][g] \in Data /\ f.saved = g.saved
        => payload[h][f] = payload[h][g]


Gone == \A h \in op.scope : manifest[h] = None

Saving ==
    /\ op.kind = "save" /\ op.host \in Hosts /\ op.data \in Data /\ op.at = clock
    /\ op.found = op.data /\ op.meta = [saved |-> op.at, used |-> op.at]
    /\ op.pc \in {"publish", "commit", "done"}
    /\ op.pc \in {"commit", "done"} => payload[op.host][op.meta] = op.data
    /\ op.pc = "done" => manifest[op.host] = op.meta

\* A load that goes on has seen its session.
Seen ==
    /\ op.found \in Data
    /\ manifest[op.host] \in Meta /\ ~Expired(op.host)
    /\ payload[op.host][manifest[op.host]] = op.found
    /\ op.meta.saved = manifest[op.host].saved /\ Past(op.meta)

Loading ==
    /\ op.kind = "load" /\ op.host \in Hosts /\ op.data = None /\ op.at = clock
    /\ op.pc \in {"read", "publish", "commit", "done", "manifests", "payloads"}
    /\ op.pc \in {"publish", "commit", "done"} => Seen
    /\ op.pc = "publish" => op.meta # manifest[op.host]
    /\ op.pc \in {"commit", "done"} => payload[op.host][op.meta] = op.found
    /\ op.pc = "done" => manifest[op.host] = op.meta
    /\ op.pc \in {"manifests", "payloads"} => op.scope = {op.host}
    /\ op.pc = "manifests" => ~IsReadable(op.host)
    /\ op.pc = "payloads" => Gone

Clearing ==
    /\ \/ op.kind = "clear" /\ op.host \in Hosts /\ op.scope = {op.host}
       \/ op.kind = "clear_all" /\ op.host = None /\ op.scope = Hosts
    /\ op.data = None /\ op.at = clock
    /\ op.pc \in {"manifests", "payloads"}
    /\ op.pc = "payloads" => Gone

\* A site the sweep is through with.
Swept(h) ==
    manifest[h] # None =>
        /\ manifest[h] \in Meta /\ ~Expired(h) /\ payload[h][manifest[h]] # None
        /\ \A g \in Meta : payload[h][g] # None => g = manifest[h]

Sweeping ==
    /\ op.kind = "sweep" /\ op.host = None /\ op.data = None /\ op.at = clock
    /\ op.pc \in {"visit", "prune", "manifests", "payloads", "orphans"}
    /\ op.scope \cap op.todo = {}
    /\ \A h \in Hosts \ (op.todo \cup op.scope) : Swept(h)
    /\ op.pc = "visit" => \A h \in Hosts \ op.todo : Swept(h)
    /\ op.pc = "prune" => \A h \in op.scope : IsListed(h)
    /\ op.pc = "manifests" => \A h \in op.scope : ~IsReadable(h)
    /\ op.pc \in {"payloads", "orphans"} => Gone
    /\ op.pc = "orphans" => op.todo = {} /\ \A h \in Hosts : manifest[h] = None => h \in op.scope

OpHolds == op = NoOp \/ Saving \/ Loading \/ Clearing \/ Sweeping

SessionIInv == SessionTypeOK /\ TimesHold /\ Uniform /\ OpHolds

-----------------------------------------------------------------------------
USE SessionAssumption DEF Time, Meta, NoMeta, NoOp, OpStages, Operations

LEMMA NoMetaIsMeta == NoMeta \in Meta
OBVIOUS

LEMMA MaxIs ==
    ASSUME NEW S \in SUBSET Int, NEW m \in S, \A x \in S : m >= x
    PROVE  Max(S) = m
<1> DEFINE best == CHOOSE x \in S : \A y \in S : x >= y
<1>1. best \in S /\ \A y \in S : best >= y
  OBVIOUS
<1>2. best >= m /\ m >= best /\ best \in Int /\ m \in Int
  BY <1>1
<1>3. best = m
  BY <1>2
<1> QED
  BY <1>3 DEF Max

LEMMA UsedMetaIsNow ==
    ASSUME SessionIInv, NEW h \in Hosts, Committed(h), op.at = clock
    PROVE  UsedMeta(h) = [saved |-> manifest[h].saved, used |-> clock] /\ UsedMeta(h) \in Meta
<1> DEFINE S == {op.at, manifest[h].saved, manifest[h].used}
<1>1. manifest[h] \in Meta /\ Past(manifest[h]) /\ clock \in Time
  BY DEF SessionIInv, SessionTypeOK, TimesHold, Committed
<1>2. S \in SUBSET Int /\ op.at \in S /\ \A x \in S : op.at >= x
  BY <1>1 DEF Past
<1>3. Max(S) = op.at
  BY <1>2, MaxIs
<1> QED
  BY <1>1, <1>3 DEF UsedMeta

LEMMA InitSessionIInv == SessionInit => SessionIInv
BY DEF SessionInit, SessionIInv, SessionTypeOK, TimesHold, Uniform, OpHolds

LEMMA StepSessionIInv == SessionIInv /\ [SessionNext]_sessionVars => SessionIInv'
<1> SUFFICES ASSUME SessionIInv, [SessionNext]_sessionVars PROVE SessionIInv'
  OBVIOUS
<1> USE DEF SessionIInv, Expired, IsReadable, IsListed, Committed, Past, Gone, Swept, PayloadsGone
<1>1. CASE Tick
  <2>1. SessionTypeOK'
    BY <1>1 DEF Tick, SessionTypeOK
  <2>2. TimesHold'
    BY <1>1 DEF Tick, SessionTypeOK, TimesHold, OpHolds, Saving, Loading, Clearing, Sweeping, Seen
  <2>3. Uniform'
    BY <1>1 DEF Tick, SessionTypeOK, TimesHold, Uniform, OpHolds, Saving, Loading, Clearing, Sweeping, Seen
  <2>4. OpHolds'
    BY <1>1 DEF Tick, SessionTypeOK, TimesHold, OpHolds, Saving, Loading, Clearing, Sweeping, Seen
  <2> QED
    BY <2>1, <2>2, <2>3, <2>4
<1>2. CASE ClearAll
  <2>1. SessionTypeOK'
    <3>1. op' = [kind |-> "clear_all", host |-> None, data |-> None, at |-> clock, pc |-> "manifests",
            meta |-> NoMeta, found |-> None, scope |-> Hosts, todo |-> {}]
      BY <1>2 DEF ClearAll, Begin, Operation
    <3>2. op' \in Operations
      BY <3>1, NoMetaIsMeta DEF SessionTypeOK
    <3> QED
      BY <1>2, <3>2 DEF ClearAll, Begin, SessionTypeOK
  <2>2. TimesHold'
    BY <1>2 DEF ClearAll, Begin, Operation, SessionTypeOK, TimesHold, OpHolds, Saving, Loading, Clearing, Sweeping, Seen
  <2>3. Uniform'
    BY <1>2 DEF ClearAll, Begin, Operation, SessionTypeOK, TimesHold, Uniform, OpHolds, Saving, Loading, Clearing, Sweeping, Seen
  <2>4. OpHolds'
    BY <1>2 DEF ClearAll, Begin, Operation, SessionTypeOK, TimesHold, OpHolds, Saving, Loading, Clearing, Sweeping, Seen
  <2> QED
    BY <2>1, <2>2, <2>3, <2>4
<1>3. CASE Sweep
  <2>1. SessionTypeOK'
    <3>1. op' = [kind |-> "sweep", host |-> None, data |-> None, at |-> clock, pc |-> "visit",
            meta |-> NoMeta, found |-> None, scope |-> {}, todo |-> Hosts]
      BY <1>3 DEF Sweep, Begin, Operation
    <3>2. op' \in Operations
      BY <3>1, NoMetaIsMeta DEF SessionTypeOK
    <3> QED
      BY <1>3, <3>2 DEF Sweep, Begin, SessionTypeOK
  <2>2. TimesHold'
    BY <1>3 DEF Sweep, Begin, Operation, SessionTypeOK, TimesHold, OpHolds, Saving, Loading, Clearing, Sweeping, Seen
  <2>3. Uniform'
    BY <1>3 DEF Sweep, Begin, Operation, SessionTypeOK, TimesHold, Uniform, OpHolds, Saving, Loading, Clearing, Sweeping, Seen
  <2>4. OpHolds'
    BY <1>3 DEF Sweep, Begin, Operation, SessionTypeOK, TimesHold, OpHolds, Saving, Loading, Clearing, Sweeping, Seen
  <2> QED
    BY <2>1, <2>2, <2>3, <2>4
<1>4. CASE Publish
  <2> DEFINE host == op.host
             gen == op.meta
  <2>1. /\ host \in Hosts /\ gen \in Meta /\ Past(gen) /\ op.found \in Data /\ op.kind \in {"save", "load"}
        /\ op.kind = "save" => gen.saved = clock /\ gen.used = clock
    BY <1>4 DEF Publish, SessionTypeOK, TimesHold, OpHolds, Saving, Loading, Clearing, Sweeping, Seen
  <2>2. ASSUME Return(Error), UNCHANGED <<manifest, payload, litter>> PROVE SessionIInv'
    BY <2>2 DEF Return, Uniform, SessionTypeOK, TimesHold, OpHolds, Saving, Loading, Clearing, Sweeping, Seen
  <2>3. ASSUME /\ payload' = [payload EXCEPT ![host][gen] = op.found] /\ Goto("commit")
               /\ payload[host][gen] = None \/ op.kind = "save" \/ payload[host][gen] = op.found
               /\ UNCHANGED <<manifest, litter>>
        PROVE  SessionIInv'
    <3>1. /\ payload' \in [Hosts -> [Meta -> Data \cup {None, Broken}]]
          /\ \A h \in Hosts, g \in Meta :
                payload'[h][g] = IF h = host /\ g = gen THEN op.found ELSE payload[h][g]
      BY <2>1, <2>3 DEF SessionTypeOK
    <3>2. SessionTypeOK'
      BY <3>1, <2>3 DEF Goto, SessionTypeOK
    <3>3. TimesHold'
      BY <3>1, <2>1, <2>3 DEF Goto, SessionTypeOK, TimesHold
    <3>4. \A g \in Meta : payload[host][g] \in Data /\ g.saved = gen.saved /\ g # gen => payload[host][g] = op.found
      <4>1. CASE op.kind = "save"
        <5> SUFFICES ASSUME NEW g \in Meta, payload[host][g] \in Data, g.saved = gen.saved PROVE g = gen
          OBVIOUS
        <5>1. g.saved = gen.saved /\ g.used = gen.used /\ gen \in Meta
          BY <4>1, <2>1 DEF SessionTypeOK, TimesHold
        <5> QED
          BY <5>1
      <4>2. CASE op.kind = "load"
        BY <4>2, <2>1, <1>4 DEF Publish, Uniform, SessionTypeOK, TimesHold, OpHolds, Saving, Loading, Clearing, Sweeping, Seen
      <4> QED
        BY <4>1, <4>2, <2>1
    <3>5. Uniform'
      BY <3>1, <3>4, <2>3 DEF Goto, Uniform
    <3>6. OpHolds'
      BY <3>1, <2>1, <2>3, <1>4 DEF Publish, Goto, SessionTypeOK, TimesHold, OpHolds, Saving, Loading, Clearing, Sweeping, Seen
    <3> QED
      BY <3>2, <3>3, <3>5, <3>6
  <2> QED
    BY <1>4, <2>2, <2>3 DEF Publish
<1>5. CASE Commit
  <2>1. SessionTypeOK'
    BY <1>5 DEF Commit, Goto, SessionTypeOK
  <2>2. TimesHold'
    BY <1>5 DEF Commit, Goto, SessionTypeOK, TimesHold, OpHolds, Saving, Loading, Clearing, Sweeping, Seen
  <2>3. Uniform'
    BY <1>5 DEF Commit, Goto, SessionTypeOK, TimesHold, Uniform, OpHolds, Saving, Loading, Clearing, Sweeping, Seen
  <2>4. OpHolds'
    BY <1>5 DEF Commit, Goto, SessionTypeOK, TimesHold, OpHolds, Saving, Loading, Clearing, Sweeping, Seen
  <2> QED
    BY <2>1, <2>2, <2>3, <2>4
<1>6. CASE Finish
  <2>1. SessionTypeOK'
    BY <1>6 DEF Finish, Return, SessionTypeOK
  <2>2. TimesHold'
    BY <1>6 DEF Finish, Return, SessionTypeOK, TimesHold, OpHolds, Saving, Loading, Clearing, Sweeping, Seen
  <2>3. Uniform'
    BY <1>6 DEF Finish, Return, SessionTypeOK, TimesHold, Uniform, OpHolds, Saving, Loading, Clearing, Sweeping, Seen
  <2>4. OpHolds'
    BY <1>6 DEF Finish, Return, SessionTypeOK, TimesHold, OpHolds, Saving, Loading, Clearing, Sweeping, Seen
  <2> QED
    BY <2>1, <2>2, <2>3, <2>4
<1>7. CASE ReadSession
  <2> DEFINE h == op.host
  <2>1. h \in Hosts /\ Loading /\ op \in Operations /\ UNCHANGED <<manifest, payload, litter, clock>>
    BY <1>7 DEF ReadSession, Return, SessionTypeOK, TimesHold, OpHolds, Saving, Loading, Clearing, Sweeping, Seen
  <2>2. ASSUME NEW value \in Data \cup {None}, Return(value) PROVE SessionIInv'
    BY <2>1, <2>2 DEF Return, SessionTypeOK, TimesHold, Uniform, OpHolds
  <2>3. CASE manifest[h] # None /\ ~IsReadable(h) /\ op' = [op EXCEPT !.pc = "manifests", !.scope = {h}] /\ answer' = answer
    <3>1. SessionTypeOK'
      BY <2>1, <2>3 DEF SessionTypeOK
    <3>2. Loading'
      BY <2>1, <2>3 DEF Loading, SessionTypeOK
    <3> QED
      BY <2>1, <3>1, <3>2 DEF TimesHold, Uniform, OpHolds
  <2>4. CASE /\ IsReadable(h) /\ UsedMeta(h) # manifest[h]
             /\ op' = [op EXCEPT !.pc = "publish", !.meta = UsedMeta(h), !.found = payload[h][manifest[h]]]
             /\ answer' = answer
    <3>1. UsedMeta(h) = [saved |-> manifest[h].saved, used |-> clock] /\ UsedMeta(h) \in Meta
      BY <2>1, <2>4, UsedMetaIsNow DEF Loading
    <3>2. SessionTypeOK'
      BY <2>1, <2>4, <3>1 DEF SessionTypeOK
    <3>3. Past(UsedMeta(h)) /\ payload[h][manifest[h]] \in Data /\ manifest[h] \in Meta
      BY <2>1, <2>4, <3>1 DEF SessionTypeOK, TimesHold
    <3>4. Seen'
      BY <2>1, <2>4, <3>1, <3>3 DEF Seen, SessionTypeOK
    <3>5. Loading'
      BY <2>1, <2>4, <3>4 DEF Loading, SessionTypeOK
    <3> QED
      BY <2>1, <3>2, <3>5 DEF TimesHold, Uniform, OpHolds
  <2> QED
    BY <1>7, <2>1, <2>2, <2>3, <2>4 DEF ReadSession
<1>8. CASE ManifestsGone
  <2>1. SessionTypeOK'
    BY <1>8 DEF ManifestsGone, Goto, SessionTypeOK
  <2>2. TimesHold'
    BY <1>8 DEF ManifestsGone, Goto, SessionTypeOK, TimesHold, OpHolds, Saving, Loading, Clearing, Sweeping, Seen
  <2>3. Uniform'
    BY <1>8 DEF ManifestsGone, Goto, SessionTypeOK, TimesHold, Uniform, OpHolds, Saving, Loading, Clearing, Sweeping, Seen
  <2>4. OpHolds'
    BY <1>8 DEF ManifestsGone, Goto, SessionTypeOK, TimesHold, OpHolds, Saving, Loading, Clearing, Sweeping, Seen
  <2> QED
    BY <2>1, <2>2, <2>3, <2>4
<1>9. CASE RemoveTemporaries
  <2>1. SessionTypeOK'
    BY <1>9 DEF RemoveTemporaries, Goto, Return, SessionTypeOK
  <2>2. TimesHold'
    BY <1>9 DEF RemoveTemporaries, Goto, Return, SessionTypeOK, TimesHold, OpHolds, Saving, Loading, Clearing, Sweeping, Seen
  <2>3. Uniform'
    BY <1>9 DEF RemoveTemporaries, Goto, Return, SessionTypeOK, TimesHold, Uniform, OpHolds, Saving, Loading, Clearing, Sweeping, Seen
  <2>4. OpHolds'
    BY <1>9 DEF RemoveTemporaries, Goto, Return, SessionTypeOK, TimesHold, OpHolds, Saving, Loading, Clearing, Sweeping, Seen
  <2> QED
    BY <2>1, <2>2, <2>3, <2>4
<1>10. CASE Pruned
  <2>1. SessionTypeOK'
    BY <1>10 DEF Pruned, Goto, SessionTypeOK
  <2>2. TimesHold'
    BY <1>10 DEF Pruned, Goto, SessionTypeOK, TimesHold, OpHolds, Saving, Loading, Clearing, Sweeping, Seen
  <2>3. Uniform'
    BY <1>10 DEF Pruned, Goto, SessionTypeOK, TimesHold, Uniform, OpHolds, Saving, Loading, Clearing, Sweeping, Seen
  <2>4. OpHolds'
    BY <1>10 DEF Pruned, Goto, SessionTypeOK, TimesHold, OpHolds, Saving, Loading, Clearing, Sweeping, Seen
  <2> QED
    BY <2>1, <2>2, <2>3, <2>4
<1>11. CASE VisitsEnd
  <2>1. SessionTypeOK'
    BY <1>11 DEF VisitsEnd, SessionTypeOK
  <2>2. TimesHold'
    BY <1>11 DEF VisitsEnd, SessionTypeOK, TimesHold, OpHolds, Saving, Loading, Clearing, Sweeping, Seen
  <2>3. Uniform'
    BY <1>11 DEF VisitsEnd, SessionTypeOK, TimesHold, Uniform, OpHolds, Saving, Loading, Clearing, Sweeping, Seen
  <2>4. OpHolds'
    BY <1>11 DEF VisitsEnd, SessionTypeOK, TimesHold, OpHolds, Saving, Loading, Clearing, Sweeping, Seen
  <2> QED
    BY <2>1, <2>2, <2>3, <2>4
<1>12. CASE SweepEnds
  <2>1. SessionTypeOK'
    BY <1>12 DEF SweepEnds, Return, SessionTypeOK
  <2>2. TimesHold'
    BY <1>12 DEF SweepEnds, Return, SessionTypeOK, TimesHold, OpHolds, Saving, Loading, Clearing, Sweeping, Seen
  <2>3. Uniform'
    BY <1>12 DEF SweepEnds, Return, SessionTypeOK, TimesHold, Uniform, OpHolds, Saving, Loading, Clearing, Sweeping, Seen
  <2>4. OpHolds'
    BY <1>12 DEF SweepEnds, Return, SessionTypeOK, TimesHold, OpHolds, Saving, Loading, Clearing, Sweeping, Seen
  <2> QED
    BY <2>1, <2>2, <2>3, <2>4
<1>13. CASE Fail
  <2>1. SessionTypeOK'
    BY <1>13 DEF Fail, Return, SessionTypeOK
  <2>2. TimesHold'
    BY <1>13 DEF Fail, Return, SessionTypeOK, TimesHold, OpHolds, Saving, Loading, Clearing, Sweeping, Seen
  <2>3. Uniform'
    BY <1>13 DEF Fail, Return, SessionTypeOK, TimesHold, Uniform, OpHolds, Saving, Loading, Clearing, Sweeping, Seen
  <2>4. OpHolds'
    BY <1>13 DEF Fail, Return, SessionTypeOK, TimesHold, OpHolds, Saving, Loading, Clearing, Sweeping, Seen
  <2> QED
    BY <2>1, <2>2, <2>3, <2>4
<1>14. CASE Crash
  <2>1. SessionTypeOK'
    BY <1>14 DEF Crash, Return, SessionTypeOK
  <2>2. TimesHold'
    BY <1>14 DEF Crash, Return, SessionTypeOK, TimesHold, OpHolds, Saving, Loading, Clearing, Sweeping, Seen
  <2>3. Uniform'
    BY <1>14 DEF Crash, Return, SessionTypeOK, TimesHold, Uniform, OpHolds, Saving, Loading, Clearing, Sweeping, Seen
  <2>4. OpHolds'
    BY <1>14 DEF Crash, Return, SessionTypeOK, TimesHold, OpHolds, Saving, Loading, Clearing, Sweeping, Seen
  <2> QED
    BY <2>1, <2>2, <2>3, <2>4
<1>15. ASSUME NEW h \in Hosts, NEW d \in Data, Save(h, d) PROVE SessionIInv'
  <2>1. SessionTypeOK'
    BY <1>15 DEF Save, Begin, Operation, SavedMeta, SessionTypeOK
  <2>2. TimesHold'
    BY <1>15 DEF Save, Begin, Operation, SavedMeta, SessionTypeOK, TimesHold, OpHolds, Saving, Loading, Clearing, Sweeping, Seen
  <2>3. Uniform'
    BY <1>15 DEF Save, Begin, Operation, SavedMeta, SessionTypeOK, TimesHold, Uniform, OpHolds, Saving, Loading, Clearing, Sweeping, Seen
  <2>4. OpHolds'
    BY <1>15 DEF Save, Begin, Operation, SavedMeta, SessionTypeOK, TimesHold, OpHolds, Saving, Loading, Clearing, Sweeping, Seen
  <2> QED
    BY <2>1, <2>2, <2>3, <2>4
<1>16. ASSUME NEW h \in Hosts, Load(h) PROVE SessionIInv'
  <2>1. SessionTypeOK'
    <3>1. op' = [kind |-> "load", host |-> h, data |-> None, at |-> clock, pc |-> "read",
            meta |-> NoMeta, found |-> None, scope |-> {}, todo |-> {}]
      BY <1>16 DEF Load, Begin, Operation
    <3>2. op' \in Operations
      BY <3>1, NoMetaIsMeta DEF SessionTypeOK
    <3> QED
      BY <1>16, <3>2 DEF Load, Begin, SessionTypeOK
  <2>2. TimesHold'
    BY <1>16 DEF Load, Begin, Operation, SessionTypeOK, TimesHold, OpHolds, Saving, Loading, Clearing, Sweeping, Seen
  <2>3. Uniform'
    BY <1>16 DEF Load, Begin, Operation, SessionTypeOK, TimesHold, Uniform, OpHolds, Saving, Loading, Clearing, Sweeping, Seen
  <2>4. OpHolds'
    BY <1>16 DEF Load, Begin, Operation, SessionTypeOK, TimesHold, OpHolds, Saving, Loading, Clearing, Sweeping, Seen
  <2> QED
    BY <2>1, <2>2, <2>3, <2>4
<1>17. ASSUME NEW h \in Hosts, ClearSite(h) PROVE SessionIInv'
  <2>1. SessionTypeOK'
    <3>1. op' = [kind |-> "clear", host |-> h, data |-> None, at |-> clock, pc |-> "manifests",
            meta |-> NoMeta, found |-> None, scope |-> {h}, todo |-> {}]
      BY <1>17 DEF ClearSite, Begin, Operation
    <3>2. op' \in Operations
      BY <3>1, NoMetaIsMeta DEF SessionTypeOK
    <3> QED
      BY <1>17, <3>2 DEF ClearSite, Begin, SessionTypeOK
  <2>2. TimesHold'
    BY <1>17 DEF ClearSite, Begin, Operation, SessionTypeOK, TimesHold, OpHolds, Saving, Loading, Clearing, Sweeping, Seen
  <2>3. Uniform'
    BY <1>17 DEF ClearSite, Begin, Operation, SessionTypeOK, TimesHold, Uniform, OpHolds, Saving, Loading, Clearing, Sweeping, Seen
  <2>4. OpHolds'
    BY <1>17 DEF ClearSite, Begin, Operation, SessionTypeOK, TimesHold, OpHolds, Saving, Loading, Clearing, Sweeping, Seen
  <2> QED
    BY <2>1, <2>2, <2>3, <2>4
<1>18. ASSUME NEW h \in Hosts, Spoil(h) PROVE SessionIInv'
  <2>1. op = NoOp /\ manifest[h] \in Meta
    BY <1>18 DEF Spoil, SessionTypeOK, TimesHold, OpHolds, Saving, Loading, Clearing, Sweeping, Seen
  <2>2. OpHolds'
    BY <1>18, <2>1 DEF Spoil, OpHolds
  <2>3. CASE manifest' = [manifest EXCEPT ![h] = Broken] /\ UNCHANGED payload
    BY <1>18, <2>2, <2>3 DEF Spoil, SessionTypeOK, TimesHold, Uniform
  <2>4. ASSUME NEW rest \in {None, Broken}, payload' = [payload EXCEPT ![h][manifest[h]] = rest], UNCHANGED manifest
        PROVE  SessionIInv'
    <3>1. /\ payload' \in [Hosts -> [Meta -> Data \cup {None, Broken}]]
          /\ \A f \in Hosts, g \in Meta :
                payload'[f][g] = IF f = h /\ g = manifest[h] THEN rest ELSE payload[f][g]
      BY <2>1, <2>4 DEF SessionTypeOK
    <3>2. SessionTypeOK'
      BY <1>18, <2>4, <3>1 DEF Spoil, SessionTypeOK
    <3>3. TimesHold'
      BY <1>18, <2>1, <2>4, <3>1 DEF Spoil, SessionTypeOK, TimesHold
    <3>4. Uniform'
      BY <2>1, <2>4, <3>1 DEF Uniform
    <3> QED
      BY <2>2, <3>2, <3>3, <3>4
  <2> QED
    BY <1>18, <2>3, <2>4 DEF Spoil
<1>19. ASSUME NEW h \in Hosts, RemoveManifest(h) PROVE SessionIInv'
  <2>1. SessionTypeOK'
    BY <1>19 DEF RemoveManifest, SessionTypeOK
  <2>2. TimesHold'
    BY <1>19 DEF RemoveManifest, SessionTypeOK, TimesHold, OpHolds, Saving, Loading, Clearing, Sweeping, Seen
  <2>3. Uniform'
    BY <1>19 DEF RemoveManifest, SessionTypeOK, TimesHold, Uniform, OpHolds, Saving, Loading, Clearing, Sweeping, Seen
  <2>4. OpHolds'
    BY <1>19 DEF RemoveManifest, SessionTypeOK, TimesHold, OpHolds, Saving, Loading, Clearing, Sweeping, Seen
  <2> QED
    BY <2>1, <2>2, <2>3, <2>4
<1>20. ASSUME NEW h \in Hosts, Visit(h) PROVE SessionIInv'
  <2>1. SessionTypeOK'
    BY <1>20 DEF Visit, SessionTypeOK
  <2>2. TimesHold'
    BY <1>20 DEF Visit, SessionTypeOK, TimesHold, OpHolds, Saving, Loading, Clearing, Sweeping, Seen
  <2>3. Uniform'
    BY <1>20 DEF Visit, SessionTypeOK, TimesHold, Uniform, OpHolds, Saving, Loading, Clearing, Sweeping, Seen
  <2>4. OpHolds'
    BY <1>20 DEF Visit, SessionTypeOK, TimesHold, OpHolds, Saving, Loading, Clearing, Sweeping, Seen
  <2> QED
    BY <2>1, <2>2, <2>3, <2>4
<1>21. ASSUME NEW h \in Hosts, NEW g \in Meta, RemovePayload(h, g) PROVE SessionIInv'
  <2>1. SessionTypeOK'
    BY <1>21 DEF RemovePayload, SessionTypeOK
  <2>2. TimesHold'
    BY <1>21 DEF RemovePayload, SessionTypeOK, TimesHold, OpHolds, Saving, Loading, Clearing, Sweeping, Seen
  <2>3. Uniform'
    BY <1>21 DEF RemovePayload, SessionTypeOK, TimesHold, Uniform, OpHolds, Saving, Loading, Clearing, Sweeping, Seen
  <2>4. OpHolds'
    BY <1>21 DEF RemovePayload, SessionTypeOK, TimesHold, OpHolds, Saving, Loading, Clearing, Sweeping, Seen
  <2> QED
    BY <2>1, <2>2, <2>3, <2>4
<1>22. CASE UNCHANGED sessionVars
  BY <1>22 DEF sessionVars, SessionTypeOK, TimesHold, Uniform, OpHolds, Saving, Loading, Clearing, Sweeping, Seen
<1> QED
  BY <1>1, <1>2, <1>3, <1>4, <1>5, <1>6, <1>7, <1>8, <1>9, <1>10, <1>11, <1>12, <1>13, <1>14, <1>15, <1>16, <1>17, <1>18, <1>19, <1>20, <1>21, <1>22 DEF SessionNext

-----------------------------------------------------------------------------
(* The refinement.                                                         *)

absVars == <<[h \in Hosts |-> Stored(h)],
             [kind |-> op.kind, host |-> op.host, data |-> op.data, at |-> op.at], answer>>

Asked == [kind |-> op.kind, host |-> op.host, data |-> op.data, at |-> op.at]

LEMMA StoredIs ==
    ASSUME SessionTypeOK, NEW h \in Hosts
    PROVE  /\ Stored(h) # None <=> manifest[h] \in Meta /\ payload[h][manifest[h]] \in Data
           /\ Stored(h) # None => /\ Stored(h).data = payload[h][manifest[h]]
                                  /\ Stored(h).saved = manifest[h].saved
BY DEF Stored, SessionTypeOK

LEMMA SessionInitRefines == SessionInit => Abs!Init
<1> SUFFICES ASSUME SessionInit PROVE Abs!Init
  OBVIOUS
<1>1. \A h \in Hosts : Stored(h) = None
  BY DEF SessionInit, Stored
<1> QED
  BY <1>1 DEF SessionInit, Abs!Init, Abs!NoRequest

\* What leaves the sessions, the operation and the reply as they are is a stutter.
LEMMA Stutters ==
    ASSUME \A h \in Hosts : Stored(h)' = Stored(h), Asked' = Asked, answer' = answer
    PROVE  UNCHANGED absVars
BY DEF absVars, Asked

\* An operation that fails changes no session.
LEMMA FailureRefines ==
    ASSUME Return(Error), \A h \in Hosts : Stored(h)' = Stored(h)
    PROVE  Abs!GivesUp
BY DEF Return, Abs!GivesUp, Abs!NoRequest

\* A request asked of the idle store is a request of the abstract one.
LEMMA RequestRefines ==
    ASSUME op = NoOp, Asked' \in Abs!Requests, UNCHANGED <<manifest, payload, answer>>
    PROVE  Abs!Next
<1>1. \A h \in Hosts : Stored(h)' = Stored(h)
  BY DEF Stored
<1>2. Abs!Asks(Asked')
  BY <1>1 DEF Abs!Asks, Abs!NoRequest, Asked
<1> QED
  BY <1>2 DEF Abs!Next

LEMMA SessionStepRefines == SessionIInv /\ [SessionNext]_sessionVars => [Abs!Next]_absVars
<1> SUFFICES ASSUME SessionIInv, [SessionNext]_sessionVars PROVE [Abs!Next]_absVars
  OBVIOUS
<1>a. SessionTypeOK /\ TimesHold /\ OpHolds
  BY DEF SessionIInv
<1>b. ASSUME UNCHANGED <<manifest, payload>> PROVE \A h \in Hosts : Stored(h)' = Stored(h)
  BY <1>b DEF Stored
<1>1. CASE Tick
  BY <1>1, <1>b, Stutters DEF Tick, Asked
<1>2. CASE ClearAll
  <2>1. op = NoOp /\ Asked' = [kind |-> "clear_all", host |-> None, data |-> None, at |-> clock]
    BY <1>2, <1>a DEF ClearAll, Begin, Operation, Asked, OpHolds, Saving, Loading, Clearing, Sweeping
  <2> QED
    BY <1>2, <1>a, <2>1, RequestRefines DEF ClearAll, Begin, Abs!Requests, SessionTypeOK
<1>3. CASE Sweep
  <2>1. op = NoOp /\ Asked' = [kind |-> "sweep", host |-> None, data |-> None, at |-> clock]
    BY <1>3, <1>a DEF Sweep, Begin, Operation, Asked, OpHolds, Saving, Loading, Clearing, Sweeping
  <2> QED
    BY <1>3, <1>a, <2>1, RequestRefines DEF Sweep, Begin, Abs!Requests, SessionTypeOK
<1>4. ASSUME NEW h \in Hosts, NEW d \in Data, Save(h, d) PROVE Abs!Next
  <2>1. op = NoOp /\ Asked' = [kind |-> "save", host |-> h, data |-> d, at |-> clock]
    BY <1>4, <1>a DEF Save, Begin, Operation, Asked, OpHolds, Saving, Loading, Clearing, Sweeping
  <2> QED
    BY <1>4, <1>a, <2>1, RequestRefines DEF Save, Begin, Abs!Requests, SessionTypeOK
<1>5. ASSUME NEW h \in Hosts, Load(h) PROVE Abs!Next
  <2>1. op = NoOp /\ Asked' = [kind |-> "load", host |-> h, data |-> None, at |-> clock]
    BY <1>5, <1>a DEF Load, Begin, Operation, Asked, OpHolds, Saving, Loading, Clearing, Sweeping
  <2> QED
    BY <1>5, <1>a, <2>1, RequestRefines DEF Load, Begin, Abs!Requests, SessionTypeOK
<1>6. ASSUME NEW h \in Hosts, ClearSite(h) PROVE Abs!Next
  <2>1. op = NoOp /\ Asked' = [kind |-> "clear", host |-> h, data |-> None, at |-> clock]
    BY <1>6, <1>a DEF ClearSite, Begin, Operation, Asked, OpHolds, Saving, Loading, Clearing, Sweeping
  <2> QED
    BY <1>6, <1>a, <2>1, RequestRefines DEF ClearSite, Begin, Abs!Requests, SessionTypeOK
<1>7. CASE Publish
  <2> DEFINE host == op.host
             gen == op.meta
  <2>1. /\ host \in Hosts /\ gen \in Meta /\ op.found \in Data /\ (Saving \/ Loading)
    BY <1>7 DEF Publish, SessionIInv, SessionTypeOK, OpHolds, Saving, Loading, Clearing, Sweeping, Seen
  <2>2. CASE Return(Error) /\ UNCHANGED <<manifest, payload, litter>>
    BY <2>2, <1>b, FailureRefines DEF Abs!Next
  <2>3. ASSUME payload' = [payload EXCEPT ![host][gen] = op.found], Goto("commit"), UNCHANGED <<manifest, litter>>
        PROVE  [Abs!Next]_absVars
    <3>1. \A h \in Hosts, g \in Meta :
              payload'[h][g] = IF h = host /\ g = gen THEN op.found ELSE payload[h][g]
      BY <2>1, <2>3, <1>a DEF SessionTypeOK
    <3>2. Asked' = Asked /\ answer' = answer
      BY <2>3, <1>a DEF Goto, Asked, SessionTypeOK
    <3>3. CASE manifest[host] # gen
      <4>1. \A h \in Hosts : Stored(h)' = Stored(h)
        BY <2>3, <3>1, <3>3 DEF Stored
      <4> QED
        BY <4>1, <3>2, Stutters
    <3>4. CASE manifest[host] = gen
      <4>1. Saving
        BY <2>1, <3>4, <1>7 DEF Publish, Loading
      <4>2. /\ \A h \in Hosts \ {host} : Stored(h)' = Stored(h)
            /\ Stored(host)' = [data |-> op.data, saved |-> op.at]
        <5>1. /\ op.found = op.data /\ gen.saved = op.at /\ UNCHANGED manifest
              /\ payload'[host][manifest[host]] = op.found
              /\ \A h \in Hosts \ {host}, g \in Meta : payload'[h][g] = payload[h][g]
          BY <2>1, <2>3, <3>1, <3>4, <4>1 DEF Saving
        <5>2. Stored(host)' = [data |-> op.data, saved |-> op.at]
          BY <5>1, <2>1, <3>2, <3>4 DEF Stored, Asked
        <5>3. \A h \in Hosts \ {host} : Stored(h)' = Stored(h)
          BY <5>1 DEF Stored
        <5> QED
          BY <5>2, <5>3
      <4>3. Abs!Saves
        BY <4>1, <4>2, <3>2, <2>1 DEF Abs!Saves, Saving, Asked
      <4> QED
        BY <4>3 DEF Abs!Next
    <3> QED
      BY <3>3, <3>4
  <2> QED
    BY <1>7, <2>2, <2>3 DEF Publish
<1>8. CASE Commit
  <2> DEFINE host == op.host
             gen == op.meta
  <2>1. /\ host \in Hosts /\ gen \in Meta /\ op.found \in Data /\ (Saving \/ Loading)
        /\ payload[host][gen] = op.found
    BY <1>8 DEF Commit, SessionIInv, SessionTypeOK, OpHolds, Saving, Loading, Clearing, Sweeping, Seen
  <2>2. Asked' = Asked /\ answer' = answer /\ payload' = payload
    BY <1>8, <1>a DEF Commit, Goto, Asked, SessionTypeOK
  <2>3. \A h \in Hosts : manifest'[h] = IF h = host THEN gen ELSE manifest[h]
    BY <1>8, <2>1, <1>a DEF Commit, SessionTypeOK
  <2>4. /\ \A h \in Hosts \ {host} : Stored(h)' = Stored(h)
        /\ Stored(host)' = [data |-> op.found, saved |-> gen.saved]
    <3>1. manifest'[host] = gen /\ payload'[host][gen] = op.found
      BY <2>1, <2>2, <2>3
    <3>2. Stored(host)' = [data |-> op.found, saved |-> gen.saved]
      BY <2>1, <2>2, <3>1 DEF Stored, Asked
    <3>3. \A h \in Hosts \ {host} : Stored(h)' = Stored(h)
      BY <2>2, <2>3 DEF Stored
    <3> QED
      BY <3>2, <3>3
  <2>5. CASE Saving
    <3>0. op.kind = "save" /\ op.found = op.data /\ gen.saved = op.at
      BY <2>5 DEF Saving
    <3>1. Abs!Saves
      BY <2>1, <2>2, <2>4, <3>0 DEF Abs!Saves, Asked
    <3> QED
      BY <3>1 DEF Abs!Next
  <2>6. CASE Loading
    <3>1. Stored(host) = [data |-> op.found, saved |-> gen.saved]
      BY <2>1, <2>6, <1>8 DEF Commit, Loading, Seen, Stored
    <3>2. \A h \in Hosts : Stored(h)' = Stored(h)
      BY <3>1, <2>2, <2>4 DEF Asked
    <3> QED
      BY <3>2, <2>2, Stutters
  <2> QED
    BY <2>1, <2>5, <2>6
<1>9. CASE Finish
  <2>1. (Saving \/ Loading) /\ op.found \in Data /\ op.host \in Hosts
    BY <1>9 DEF Finish, SessionIInv, SessionTypeOK, OpHolds, Saving, Loading, Clearing, Sweeping, Seen
  <2>2. Stored(op.host) = [data |-> op.found, saved |-> op.meta.saved]
    BY <2>1, <1>9, <1>a DEF Finish, Saving, Loading, Stored, SessionTypeOK
  <2>3. Stored(op.host) # None
    BY <2>1, <2>2, <1>a DEF SessionTypeOK
  <2>4. op.kind = "load" => ~(op.at >= op.meta.saved + Lifetime)
    BY <2>1, <1>9 DEF Finish, Saving, Loading, Seen, Expired
  <2>5. Abs!Ends
    BY <1>9, <1>b, <2>1, <2>2, <2>3, <2>4
       DEF Finish, Return, Abs!Ends, Abs!Expired, Abs!NoRequest, Saving, Loading
  <2> QED
    BY <2>5 DEF Abs!Next
<1>10. CASE ReadSession
  <2> DEFINE host == op.host
  <2>1. Loading /\ host \in Hosts /\ UNCHANGED <<manifest, payload>>
    BY <1>10 DEF ReadSession, SessionIInv, SessionTypeOK, OpHolds, Saving, Loading, Clearing, Sweeping, Seen
  <2>2. CASE manifest[host] = None /\ Return(None)
    <3>1. Stored(host) = None
      BY <2>2 DEF Stored
    <3>2. Abs!Ends
      BY <1>b, <2>1, <2>2, <3>1 DEF Return, Abs!Ends, Abs!Expired, Abs!NoRequest, Loading
    <3> QED
      BY <3>2 DEF Abs!Next
  <2>3. CASE IsReadable(host) /\ Return(payload[host][manifest[host]])
    <3>1. Stored(host) # None /\ Stored(host).data = payload[host][manifest[host]] /\ Stored(host).saved = manifest[host].saved
      BY <2>1, <2>3, <1>a, StoredIs DEF IsReadable, Committed
    <3>2. Abs!Ends
      BY <1>b, <2>1, <2>3, <3>1 DEF IsReadable, Expired, Return, Abs!Ends, Abs!Expired, Abs!NoRequest, Loading
    <3> QED
      BY <3>2 DEF Abs!Next
  <2>4. ASSUME op'.kind = op.kind, op'.host = op.host, op'.data = op.data, op'.at = op.at, answer' = answer
        PROVE  UNCHANGED absVars
    BY <1>b, <2>1, <2>4, Stutters DEF Asked
  <2> QED
    BY <1>10, <1>a, <2>2, <2>3, <2>4 DEF ReadSession, SessionTypeOK
<1>11. CASE ManifestsGone \/ Pruned \/ VisitsEnd \/ \E h \in Hosts : Visit(h)
  <2>1. Asked' = Asked /\ answer' = answer /\ UNCHANGED <<manifest, payload>>
    BY <1>11, <1>a DEF ManifestsGone, Pruned, VisitsEnd, Visit, Goto, Asked, SessionTypeOK
  <2> QED
    BY <2>1, <1>b, Stutters
<1>12. CASE RemoveTemporaries
  <2>1. CASE op.kind = "sweep"
    <3>1. Asked' = Asked /\ answer' = answer /\ UNCHANGED <<manifest, payload>>
      BY <1>12, <2>1, <1>a DEF RemoveTemporaries, Goto, Asked, SessionTypeOK
    <3> QED
      BY <3>1, <1>b, Stutters
  <2>2. CASE op.kind # "sweep"
    <3>1. Loading \/ Clearing
      BY <1>12, <2>2, <1>a DEF RemoveTemporaries, OpHolds, Saving, Loading, Clearing, Sweeping
    <3>2. \A h \in op.scope : Stored(h) = None
      BY <1>12, <3>1 DEF RemoveTemporaries, Loading, Clearing, Gone, Stored
    <3>3. Return(None) /\ UNCHANGED <<manifest, payload>>
      BY <1>12, <2>2 DEF RemoveTemporaries
    <3>4. Abs!Ends
      BY <1>12, <1>b, <3>1, <3>2, <3>3
         DEF RemoveTemporaries, Return, Abs!Ends, Abs!Expired, Abs!NoRequest, Loading, Clearing
    <3> QED
      BY <3>4 DEF Abs!Next
  <2> QED
    BY <2>1, <2>2
<1>13. CASE SweepEnds
  <2>1. Sweeping /\ Return(None) /\ UNCHANGED <<manifest, payload>>
    BY <1>13, <1>a DEF SweepEnds, OpHolds, Saving, Loading, Clearing, Sweeping
  <2>2. \A h \in Hosts : Stored(h) # None => ~(op.at >= Stored(h).saved + Lifetime)
    BY <1>13, <1>a, <2>1, StoredIs DEF SweepEnds, Sweeping, Swept, Gone, Expired
  <2>3. Abs!Ends
    BY <1>b, <2>1, <2>2 DEF Return, Abs!Ends, Abs!Expired, Abs!NoRequest, Sweeping
  <2> QED
    BY <2>3 DEF Abs!Next
<1>14. CASE Fail \/ Crash
  <2>1. Return(Error) /\ UNCHANGED <<manifest, payload>>
    BY <1>14 DEF Fail, Crash
  <2> QED
    BY <2>1, <1>b, FailureRefines DEF Abs!Next
<1>15. ASSUME NEW h \in Hosts, Spoil(h) PROVE Abs!Next
  <2>1. Stored(h)' = None /\ \A f \in Hosts \ {h} : Stored(f)' = Stored(f)
    <3>1. manifest[h] \in Meta
      BY <1>15 DEF Spoil, Committed
    <3>2. CASE manifest' = [manifest EXCEPT ![h] = Broken] /\ UNCHANGED payload
      <4>1. manifest'[h] = Broken /\ \A f \in Hosts \ {h} : manifest'[f] = manifest[f]
        BY <3>2, <1>a DEF SessionTypeOK
      <4> QED
        BY <4>1, <3>2 DEF Stored
    <3>3. ASSUME NEW rest \in {None, Broken}, payload' = [payload EXCEPT ![h][manifest[h]] = rest], UNCHANGED manifest
          PROVE  Stored(h)' = None /\ \A f \in Hosts \ {h} : Stored(f)' = Stored(f)
      <4>1. payload'[h][manifest[h]] = rest /\ \A f \in Hosts \ {h} : payload'[f] = payload[f]
        BY <3>1, <3>3, <1>a DEF SessionTypeOK
      <4>2. rest \notin Data
        OBVIOUS
      <4> QED
        BY <4>1, <4>2, <3>3 DEF Stored
    <3> QED
      BY <1>15, <3>2, <3>3 DEF Spoil
  <2>2. Abs!Spoils(h)
    BY <1>15, <2>1 DEF Spoil, Abs!Spoils
  <2> QED
    BY <2>2 DEF Abs!Next
<1>16. ASSUME NEW h \in Hosts, RemoveManifest(h) PROVE [Abs!Next]_absVars
  <2>1. Stored(h)' = None /\ \A f \in Hosts \ {h} : Stored(f)' = Stored(f)
    BY <1>16, <1>a DEF RemoveManifest, Stored, SessionTypeOK
  <2>2. CASE Stored(h) = None
    BY <1>16, <2>1, <2>2, Stutters DEF RemoveManifest, Asked
  <2>3. CASE Stored(h) # None
    <3>1. op.kind \in {"load", "sweep"} => ~IsReadable(h)
      BY <1>16, <1>a DEF RemoveManifest, OpHolds, Saving, Loading, Clearing, Sweeping
    <3>2. op.kind \in {"load", "sweep"} => op.at >= Stored(h).saved + Lifetime
      BY <3>1, <2>3, <1>a, StoredIs DEF IsReadable, Committed, Expired
    <3>3. op.kind \in {"load", "clear", "sweep", "clear_all"} /\ (op.kind \in {"load", "clear"} => op.host = h)
      BY <1>16, <1>a DEF RemoveManifest, OpHolds, Saving, Loading, Clearing, Sweeping
    <3>4. [f \in Hosts |-> Stored(f)'] = [[f \in Hosts |-> Stored(f)] EXCEPT ![h] = None]
      BY <2>1
    <3>5. UNCHANGED <<op, answer>>
      BY <1>16 DEF RemoveManifest
    <3>6. Abs!Removes(h)
      BY <2>3, <3>2, <3>3, <3>4, <3>5 DEF Abs!Removes, Abs!Expired
    <3> QED
      BY <3>6 DEF Abs!Next
  <2> QED
    BY <2>2, <2>3
<1>17. ASSUME NEW h \in Hosts, NEW g \in Meta, RemovePayload(h, g) PROVE UNCHANGED absVars
  <2>1. \A f \in Hosts : Stored(f)' = Stored(f)
    BY <1>17, <1>a DEF RemovePayload, Stored, SessionTypeOK
  <2> QED
    BY <1>17, <2>1, Stutters DEF RemovePayload, Asked
<1>18. CASE UNCHANGED sessionVars
  BY <1>18, <1>b, Stutters DEF sessionVars, Asked
<1> QED
  BY <1>1, <1>2, <1>3, <1>4, <1>5, <1>6, <1>7, <1>8, <1>9, <1>10, <1>11, <1>12, <1>13, <1>14, <1>15, <1>16, <1>17, <1>18 DEF SessionNext

LEMMA SweepStep == SessionIInv /\ [SessionNext]_sessionVars =>
    (op.kind = "sweep" /\ op'.pc = "idle" /\ answer' # Error =>
            /\ litter' = {}
            /\ \A h \in Hosts : manifest'[h] # None => manifest'[h].saved + Lifetime > op.at
            /\ \A h \in Hosts : {g \in Meta : payload'[h][g] # None} = {manifest'[h]} \ {None})
<1> SUFFICES ASSUME SessionIInv, [SessionNext]_sessionVars, op.kind = "sweep", op'.pc = "idle", answer' # Error
    PROVE   /\ litter' = {}
            /\ \A h \in Hosts : manifest'[h] # None => manifest'[h].saved + Lifetime > op.at
            /\ \A h \in Hosts : {g \in Meta : payload'[h][g] # None} = {manifest'[h]} \ {None}
  OBVIOUS
<1>1. Sweeping /\ SessionTypeOK /\ op.pc # "idle"
  BY DEF SessionIInv, OpHolds, Saving, Loading, Clearing, Sweeping
<1>2. SweepEnds
  BY <1>1 DEF SessionNext, sessionVars, Tick, ClearAll, Sweep, Save, Load, ClearSite, Begin, Publish, Commit, Finish,
     ReadSession, ManifestsGone, RemoveTemporaries, Pruned, VisitsEnd, Fail, Crash, Spoil, RemoveManifest, Visit,
     RemovePayload, Goto, Return, Sweeping, SessionTypeOK
<1>3. \A h \in Hosts : Swept(h)
  BY <1>1, <1>2 DEF SweepEnds, Sweeping, Gone, Swept
<1>4. ASSUME NEW h \in Hosts, manifest[h] = None PROVE \A g \in Meta : payload[h][g] = None
  BY <1>1, <1>2, <1>4 DEF SweepEnds, Sweeping, PayloadsGone
<1> QED
  <2>1. litter' = {} /\ UNCHANGED <<manifest, payload>>
    BY <1>2 DEF SweepEnds
  <2>2. ASSUME NEW h \in Hosts, manifest[h] # None PROVE manifest[h].saved + Lifetime > op.at
    BY <1>1, <1>3, <2>2 DEF Swept, Expired, SessionTypeOK
  <2>3. ASSUME NEW h \in Hosts PROVE {g \in Meta : payload[h][g] # None} = {manifest[h]} \ {None}
    BY <1>3, <1>4 DEF Swept
  <2> QED
    BY <2>1, <2>2, <2>3

-----------------------------------------------------------------------------
(* The theorems.                                                           *)

\* What the operation in progress knows, and the times and data of the generations,
\* hold in every reachable state.
THEOREM SessionInvariant == SessionSpec => []SessionIInv
BY InitSessionIInv, StepSessionIInv, PTL DEF SessionSpec

\* Every file and the operation in progress keep their types: no use lies in the
\* future, whatever load makes of the times it reads.
THEOREM SessionTypeCorrect == SessionSpec => []SessionTypeOK
<1>1. SessionIInv => SessionTypeOK
  BY DEF SessionIInv
<1> QED
  BY <1>1, SessionInvariant, PTL

\* _publish_generation never refuses what a load publishes.
THEOREM LoadFindsNoConflictHolds == SessionSpec => []LoadFindsNoConflict
<1>1. SessionIInv => LoadFindsNoConflict
  BY DEF SessionIInv, Uniform, OpHolds, Saving, Loading, Clearing, Sweeping, Seen, LoadFindsNoConflict, SessionTypeOK
<1> QED
  BY <1>1, SessionInvariant, PTL

\* A sweep that ends leaves nothing but what the manifests name, and nothing expired.
THEOREM SweepLeavesNoRestHolds == SessionSpec => SweepLeavesNoRest
BY SessionInvariant, SweepStep, PTL DEF SessionSpec, SweepLeavesNoRest

\* The generation and the manifest, written and removed file by file, with failures and
\* the end of the process between any two, implement one atomic step per operation.
THEOREM SessionsAreAtomicHolds == SessionSpec => SessionsAreAtomic
<1>1. SessionSpec => Abs!Init /\ [][Abs!Next]_absVars
  BY SessionInvariant, SessionInitRefines, SessionStepRefines, PTL DEF SessionSpec
<1> QED
  BY <1>1, PTL DEF SessionsAreAtomic, Abs!Spec, absVars
=============================================================================
