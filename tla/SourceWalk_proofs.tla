--------------------------- MODULE SourceWalk_proofs ---------------------------
(***************************************************************************)
(* Safety of SourceWalk for every site, any number of pages and every limit, *)
(* with pages that fail, runs that are cancelled and crashes.              *)
(*                                                                         *)
(* IncompleteIsExplained is about the pages that were read, and no variable *)
(* holds them: visited begins anew with every directory, and the rows are   *)
(* those of all runs.  The invariant says that there is such a set: Covered *)
(* pages are still to be read, or say that they were missed, or have given  *)
(* what they show and lead to.  A page may be missed first and read later,  *)
(* or the other way round, and a page of a pagination may turn up in the    *)
(* queue: Covered says which of the three counts.                           *)
(***************************************************************************)
EXTENDS SourceWalk, FiniteSetTheorems, SequenceTheorems, TLAPS

SourceTypes == RootTypes \cup {"directory_page", "person_profile", "official_email_source"}

Rows ==
    [type : SourceTypes, state : {"queued", "fetched", "failed", "rejected"}, snap : Pages \cup {NoPage},
     depth : Nat, stop : BOOLEAN]

Queueable == [page : Pages, type : SourceTypes, depth : Nat]

Graphs ==
    [queue : Seq(Queueable), seen : SUBSET Pages, last : Pages \cup {NoPage}, capped : BOOLEAN,
     stop : {"", "depth_limit_reached", "page_budget_reached"}]

Loading == {"load", "write", "record", "parse"}
Later == {"people", "hints", "found", "mails", "emails"}

Typed ==
    /\ site \in Sites
    /\ ids \in Seq(Pages) /\ row \in [Pages -> Rows]
    /\ file \in [Pages -> {"none", "empty", "part", "whole"}]
    /\ pc \in {"idle", "roots", "pop", "turn", "enqueue", "profile", "extract", "raised"} \cup Loading \cup Later
    /\ phase \in {"first", "profiles", "second"} /\ graph \in Graphs
    /\ node \in [page : Pages \cup {NoPage}, type : SourceTypes, depth : Nat]
    /\ url \in Pages \cup {NoPage} /\ visited \subseteq Pages
    /\ found \in Seq(Pages \X SourceTypes) /\ seeds \subseteq People /\ todo \subseteq People
    /\ pc \in Loading \cup {"turn"} => url \in ToSet(ids)
    /\ (pc = "found" => url \in Pages) /\ (pc = "mails" => node.page \in Pages)

\* A row that was ever fetched or failed is there, and its snapshot is a file of its page.
RowsSound ==
    \A p \in Pages :
        /\ row[p].state # "queued" => p \in ToSet(ids)
        /\ row[p].snap # NoPage => row[p].snap = site.final[p] /\ file[site.final[p]] # "none"

\* What is being downloaded was not cached, and is written before it is recorded.
Downloading ==
    pc \in {"write", "record"} =>
        /\ ~(row[url].state = "fetched" /\ row[url].snap # NoPage)
        /\ file[site.final[url]] # "none"

HasSnap(p) == row[p].state = "fetched" /\ row[p].snap # NoPage

\* What a search found and what an address is looked for on were downloaded: a snapshot of
\* theirs is that of another URL.
Downloaded ==
    /\ pc = "found" /\ HasSnap(url) => Redirected(url, Pages)
    /\ pc = "emails" => \A p \in visited : HasSnap(p) => Redirected(p, site.mails[node.page])

PagesOf(queue) == {n.page : n \in ToSet(queue)}
Queued == PagesOf(graph.queue)
LinksOf(links) == {l[1] : l \in ToSet(links)}
Taken  == graph.seen \cup LinksOf(found)
Linked(p) == LinksOf(site.links[site.final[p]])

\* The page is still to be read, ...
Pending(p) == p \in Queued \/ (p = url /\ (pc \in Loading \/ (pc = "turn" /\ url \notin visited)))

\* ... says that it was missed (a new file is empty until it is written), ...
Cut(p) == file[site.final[p]] = "empty" /\ ~(pc = "write" /\ site.final[p] = site.final[url])
Excused(p) == row[p].state = "failed" \/ row[p].type = "person_profile" \/ Cut(p)

\* ... or was read: its people are known, and where it leads is taken or in the set.
Followed(p, S) ==
    /\ site.listed[site.final[p]] \subseteq seeds
    /\ Official \cap Linked(p) \subseteq Taken
    /\ site.next[site.final[p]] \in Official => site.next[site.final[p]] \in S

Covered(S) ==
    /\ graph.seen \subseteq S \cup Queued
    /\ \A p \in S : Pending(p) \/ Excused(p) \/ Followed(p, S)
    /\ pc \in Loading \cup {"turn"} =>
          /\ url \in S /\ visited \subseteq S
          /\ \A p \in visited : Pending(p) \/ Followed(p, S)

\* No limit of the queue was met.
Open(g) == g.stop = ""

\* What was found is enqueued before the next node or profile is looked at, and at the end
\* nothing is left to do.
AtRest ==
    /\ pc \in {"pop", "profile", "extract"} => found = <<>>
    /\ pc = "extract" => graph.queue = <<>>
    /\ pc = "roots" => graph.seen \subseteq Queued

\* Until a limit is met, the pages of the walk are covered.
Walking == pc \notin {"idle", "roots", "raised"} \cup Later /\ Open(graph) /\ ~graph.capped
SomeCovered == \E S \in SUBSET Pages : Covered(S)

WalkCovered == AtRest /\ (Walking => SomeCovered)

USE WalkAssumption

-----------------------------------------------------------------------------
(* The operators.                                                          *)

LEMMA SiteFacts ==
    ASSUME Typed, NEW p \in Pages
    PROVE  /\ site.final[p] \in Pages /\ site.final[site.final[p]] = site.final[p]
           /\ site.mails[p] \subseteq Official
           /\ site.listed[p] \subseteq People /\ site.next[p] \in Pages \cup {NoPage}
           /\ site.links[p] \in Seq(Pages \X RootTypes)
<1>1. site \in Site /\ site \in Sites
  BY DEF Typed
<1>2. site.final \in [Pages -> Pages] /\ site.listed \in [Pages -> SUBSET People]
      /\ site.mails \in [Pages -> SUBSET Official]
      /\ site.next \in [Pages -> Pages \cup {NoPage}] /\ site.links \in [Pages -> Seq(Pages \X RootTypes)]
  BY <1>1 DEF Site
<1>3. site.final[p] \in Pages /\ site.final[site.final[p]] = site.final[p]
  BY <1>1, <1>2
<1> QED
  BY <1>2, <1>3

\* A row that is added takes the type asked for; what it was fetched as stays.
LEMMA AddSourceOp ==
    ASSUME Typed, NEW p \in Pages, NEW type \in SourceTypes, NEW depth \in Nat,
           AddSource(p, type, depth)
    PROVE  /\ ids' \in Seq(Pages) /\ row' \in [Pages -> Rows]
           /\ ToSet(ids) \subseteq ToSet(ids') /\ p \in ToSet(ids')
           /\ row'[p].type = type
           /\ IF p \in ToSet(ids) THEN row'[p].state = row[p].state /\ row'[p].snap = row[p].snap
                                  ELSE row'[p].state = "queued" /\ row'[p].snap = NoPage
           /\ \A q \in Pages \ {p} : row'[q] = row[q]
<1>1. row \in [Pages -> Rows] /\ ids \in Seq(Pages) /\ row[p] \in Rows /\ row[p].depth \in Nat
  BY DEF Typed, Rows
<1>2. Smaller(row[p].depth, depth) \in Nat
  BY <1>1 DEF Smaller
<1>3. CASE p \in ToSet(ids)
  <2>1. /\ ids' = ids
        /\ row' = [row EXCEPT ![p] = [row[p] EXCEPT !.type = type, !.depth = Smaller(row[p].depth, depth)]]
    BY <1>1, <1>3 DEF AddSource, Rows
  <2>2. [row[p] EXCEPT !.type = type, !.depth = Smaller(row[p].depth, depth)] \in Rows
    BY <1>1, <1>2 DEF Rows
  <2> QED
    BY <1>1, <1>3, <2>1, <2>2 DEF Rows
<1>4. CASE p \notin ToSet(ids)
  <2>1. /\ ids' = Append(ids, p)
        /\ row' = [row EXCEPT ![p] = [NoRow EXCEPT !.type = type, !.depth = depth]]
    BY <1>4 DEF AddSource
  <2>2. [NoRow EXCEPT !.type = type, !.depth = depth] \in Rows
    BY DEF Rows, NoRow
  <2>3. ids' \in Seq(Pages) /\ ToSet(ids) \subseteq ToSet(ids') /\ p \in ToSet(ids')
    <3>1. Len(ids') = Len(ids) + 1 /\ ids'[Len(ids) + 1] = p /\ ids' \in Seq(Pages)
          /\ \A i \in 1 .. Len(ids) : ids'[i] = ids[i]
      BY <1>1, <2>1
    <3> QED
      BY <1>1, <3>1 DEF ToSet
  <2> QED
    BY <1>1, <1>4, <2>1, <2>2, <2>3 DEF Rows, NoRow
<1> QED
  BY <1>3, <1>4

LEMMA GraphFacts ==
    ASSUME NEW g \in Graphs
    PROVE  /\ g.queue \in Seq(Queueable) /\ g.seen \subseteq Pages /\ PagesOf(g.queue) \subseteq Pages
           /\ g.last \in Pages \cup {NoPage} /\ g.capped \in BOOLEAN
           /\ g.stop \in {"", "depth_limit_reached", "page_budget_reached"}
<1>1. g.queue \in Seq(Queueable)
  BY DEF Graphs
<1>2. ToSet(g.queue) \subseteq Queueable
  BY <1>1, LenProperties, ElementOfSeq DEF ToSet
<1>3. PagesOf(g.queue) \subseteq Pages
  BY <1>2 DEF PagesOf, Queueable
<1> QED
  BY <1>1, <1>3 DEF Graphs

\* What a sequence with one element more, its tail, and a join hold.
LEMMA Appended ==
    ASSUME NEW S, NEW s \in Seq(S), NEW e \in S
    PROVE  Append(s, e) \in Seq(S) /\ ToSet(Append(s, e)) = ToSet(s) \cup {e}
<1> DEFINE t == Append(s, e)
<1>1. /\ t \in Seq(S) /\ Len(t) = Len(s) + 1 /\ t[Len(s) + 1] = e
      /\ \A i \in 1 .. Len(s) : t[i] = s[i]
  BY AppendProperties
<1>2. Len(s) \in Nat /\ DOMAIN s = 1 .. Len(s) /\ DOMAIN t = 1 .. Len(s) + 1
  BY <1>1, LenProperties
<1> HIDE DEF t
<1>3. ToSet(t) \subseteq ToSet(s) \cup {e}
  BY <1>1, <1>2 DEF ToSet
<1>4. ToSet(s) \cup {e} \subseteq ToSet(t)
  BY <1>1, <1>2 DEF ToSet
<1> QED
  BY <1>1, <1>3, <1>4 DEF t

\* A row that is added or known takes what it is recorded as.
LEMMA RecordSourceOp ==
    ASSUME Typed, NEW p \in Pages, NEW type \in SourceTypes, NEW depth \in Nat,
           NEW state \in {"queued", "fetched", "failed", "rejected"}, NEW snap \in Pages \cup {NoPage},
           RecordSource(p, type, depth, state, snap)
    PROVE  /\ ids' \in Seq(Pages) /\ row' \in [Pages -> Rows]
           /\ ToSet(ids) \subseteq ToSet(ids') /\ p \in ToSet(ids')
           /\ row'[p].type = type /\ row'[p].state = state /\ row'[p].snap = snap
           /\ \A q \in Pages \ {p} : row'[q] = row[q]
<1> DEFINE new == [type |-> type, state |-> state, snap |-> snap, stop |-> row[p].stop,
                   depth |-> IF p \in ToSet(ids) THEN Smaller(row[p].depth, depth) ELSE depth]
<1>1. row \in [Pages -> Rows] /\ ids \in Seq(Pages) /\ row[p] \in Rows
  BY DEF Typed
<1>2. new \in Rows
  BY <1>1 DEF Rows, Smaller
<1>3. new.type = type /\ new.state = state /\ new.snap = snap
  OBVIOUS
<1>4. row' = [row EXCEPT ![p] = new] /\ ids' = IF p \in ToSet(ids) THEN ids ELSE Append(ids, p)
  BY <1>1 DEF RecordSource
<1> HIDE DEF new
<1>5. row' \in [Pages -> Rows] /\ row'[p] = new /\ \A q \in Pages \ {p} : row'[q] = row[q]
  BY <1>1, <1>2, <1>4
<1>6. ids' \in Seq(Pages) /\ ToSet(ids) \subseteq ToSet(ids') /\ p \in ToSet(ids')
  BY <1>1, <1>4, Appended
<1> QED
  BY <1>3, <1>5, <1>6

LEMMA HeadAndTail ==
    ASSUME NEW S, NEW s \in Seq(S), s # <<>>
    PROVE  /\ Head(s) \in S /\ Tail(s) \in Seq(S)
           /\ ToSet(s) = ToSet(Tail(s)) \cup {Head(s)}
<1> DEFINE t == Tail(s)
<1>1. /\ Head(s) \in S /\ t \in Seq(S) /\ Len(t) = Len(s) - 1
      /\ \A i \in 1 .. Len(t) : t[i] = s[i + 1]
  BY HeadTailProperties
<1>2. Len(s) \in Nat \ {0} /\ DOMAIN s = 1 .. Len(s) /\ DOMAIN t = 1 .. Len(s) - 1
  BY <1>1, LenProperties, EmptySeq
<1>3. Head(s) = s[1]
  OBVIOUS
<1> HIDE DEF t
<1>4. ASSUME NEW j \in DOMAIN t PROVE t[j] \in ToSet(s)
  <2>1. j + 1 \in DOMAIN s /\ t[j] = s[j + 1]
    BY <1>1, <1>2
  <2> QED
    BY <2>1 DEF ToSet
<1>5. ASSUME NEW i \in DOMAIN s, i # 1 PROVE s[i] \in ToSet(t)
  <2> DEFINE j == i - 1
  <2>1. i \in Nat /\ i > 1 /\ i <= Len(s) /\ Len(s) \in Nat
    BY <1>2, <1>5
  <2>2. j \in 1 .. Len(s) - 1 /\ j + 1 = i
    BY <2>1
  <2> HIDE DEF j
  <2>3. t[j] = s[j + 1]
    BY <1>1, <1>2, <2>2
  <2> QED
    BY <1>2, <2>2, <2>3 DEF ToSet
<1>6. 1 \in DOMAIN s
  BY <1>2
<1>7. ToSet(t) \cup {s[1]} \subseteq ToSet(s)
  BY <1>4, <1>6 DEF ToSet
<1>8. ToSet(s) \subseteq ToSet(t) \cup {s[1]}
  BY <1>5 DEF ToSet
<1> QED
  BY <1>1, <1>3, <1>7, <1>8 DEF t

LEMMA Joined ==
    ASSUME NEW S, NEW s \in Seq(S), NEW r \in Seq(S)
    PROVE  s \o r \in Seq(S) /\ ToSet(s) \cup ToSet(r) \subseteq ToSet(s \o r)
<1> DEFINE t == s \o r
<1>1. /\ t \in Seq(S) /\ Len(t) = Len(s) + Len(r)
      /\ \A i \in 1 .. Len(s) + Len(r) : t[i] = IF i <= Len(s) THEN s[i] ELSE r[i - Len(s)]
  BY ConcatProperties
<1>2. /\ Len(s) \in Nat /\ DOMAIN s = 1 .. Len(s) /\ Len(r) \in Nat /\ DOMAIN r = 1 .. Len(r)
      /\ DOMAIN t = 1 .. Len(s) + Len(r)
  BY <1>1, LenProperties
<1> HIDE DEF t
<1>3. ASSUME NEW i \in DOMAIN s PROVE s[i] \in ToSet(t)
  <2>1. i \in DOMAIN t /\ t[i] = s[i]
    BY <1>1, <1>2
  <2> QED
    BY <2>1 DEF ToSet
<1>4. ASSUME NEW i \in DOMAIN r PROVE r[i] \in ToSet(t)
  <2>1. Len(s) + i \in 1 .. Len(s) + Len(r) /\ ~(Len(s) + i <= Len(s)) /\ (Len(s) + i) - Len(s) = i
    BY <1>2
  <2>2. t[Len(s) + i] = r[(Len(s) + i) - Len(s)]
    BY <1>1, <2>1
  <2> QED
    BY <1>2, <2>1, <2>2 DEF ToSet
<1>5. ToSet(s) \cup ToSet(r) \subseteq ToSet(t)
  BY <1>3, <1>4 DEF ToSet
<1> QED
  BY <1>1, <1>5 DEF t

LEMMA AppendToQueue ==
    ASSUME NEW q \in Seq(Queueable), NEW n \in Queueable
    PROVE  Append(q, n) \in Seq(Queueable) /\ PagesOf(Append(q, n)) = PagesOf(q) \cup {n.page}
<1>1. Append(q, n) \in Seq(Queueable) /\ ToSet(Append(q, n)) = ToSet(q) \cup {n}
  BY Appended
<1> QED
  BY <1>1 DEF PagesOf

LEMMA TakeFromQueue ==
    ASSUME NEW q \in Seq(Queueable), q # <<>>
    PROVE  /\ Head(q) \in Queueable /\ Tail(q) \in Seq(Queueable)
           /\ PagesOf(q) = PagesOf(Tail(q)) \cup {Head(q).page}
<1>1. /\ Head(q) \in Queueable /\ Tail(q) \in Seq(Queueable)
      /\ ToSet(q) = ToSet(Tail(q)) \cup {Head(q)}
  BY HeadAndTail
<1> QED
  BY <1>1 DEF PagesOf

LEMMA TakeFromFound ==
    ASSUME NEW q \in Seq(Pages \X SourceTypes), q # <<>>
    PROVE  /\ Head(q)[1] \in Pages /\ Head(q)[2] \in SourceTypes /\ Tail(q) \in Seq(Pages \X SourceTypes)
           /\ LinksOf(q) = LinksOf(Tail(q)) \cup {Head(q)[1]}
<1>1. /\ Head(q) \in Pages \X SourceTypes /\ Tail(q) \in Seq(Pages \X SourceTypes)
      /\ ToSet(q) = ToSet(Tail(q)) \cup {Head(q)}
  BY HeadAndTail
<1> QED
  BY <1>1 DEF LinksOf

LEMMA JoinFound ==
    ASSUME NEW q \in Seq(Pages \X SourceTypes), NEW r \in Seq(Pages \X RootTypes)
    PROVE  q \o r \in Seq(Pages \X SourceTypes) /\ LinksOf(q) \cup LinksOf(r) \subseteq LinksOf(q \o r)
<1>1. r \in Seq(Pages \X SourceTypes)
  BY SeqMonotonic DEF SourceTypes
<1>2. q \o r \in Seq(Pages \X SourceTypes) /\ ToSet(q) \cup ToSet(r) \subseteq ToSet(q \o r)
  BY <1>1, Joined
<1> QED
  BY <1>2 DEF LinksOf

\* What enqueue makes of the queue: a page it does not take is seen, not official, or
\* meets a limit.
LEMMA EnqueueOp ==
    ASSUME NEW g \in Graphs, NEW p \in Pages, NEW type \in SourceTypes, NEW depth \in Nat,
           NEW h, h = Enqueue(g, p, type, depth)
    PROVE  /\ h \in Graphs /\ h.capped = g.capped
           /\ Open(h) => Open(g) /\ (p \in Official => p \in h.seen)
           /\ Accepts(g, p, depth) =>
                 h.seen = g.seen \cup {p} /\ PagesOf(h.queue) = PagesOf(g.queue) \cup {p}
           /\ ~Accepts(g, p, depth) => h.seen = g.seen /\ h.queue = g.queue
<1> DEFINE n == [page |-> p, type |-> type, depth |-> depth]
<1>0. n \in Queueable /\ n.page = p /\ g.queue \in Seq(Queueable)
  BY GraphFacts DEF Queueable
<1>1. Append(g.queue, n) \in Seq(Queueable) /\ PagesOf(Append(g.queue, n)) = PagesOf(g.queue) \cup {p}
  BY <1>0, AppendToQueue
<1>2. CASE Accepts(g, p, depth)
  <2>1. h = [g EXCEPT !.seen = g.seen \cup {p}, !.queue = Append(g.queue, n)]
    BY <1>2 DEF Enqueue, Graphs
  <2> DEFINE q == Append(g.queue, n)
  <2>2. q \in Seq(Queueable) /\ PagesOf(q) = PagesOf(g.queue) \cup {p}
    BY <1>1
  <2>3. h = [g EXCEPT !.seen = g.seen \cup {p}, !.queue = q]
    BY <2>1
  <2> HIDE DEF q, n
  <2> DEFINE s == g.seen \cup {p}
  <2>4. s \in SUBSET Pages
    BY GraphFacts
  <2>5. h = [g EXCEPT !.seen = s, !.queue = q]
    BY <2>3
  <2> HIDE DEF s
  <2>6. h.capped = g.capped /\ h.stop = g.stop /\ h.seen = s /\ h.queue = q
    BY <2>5 DEF Graphs
  <2>7. h \in Graphs
    BY <2>2, <2>4, <2>5 DEF Graphs
  <2> QED
    BY <1>2, <2>2, <2>6, <2>7 DEF s, Open
<1>3. CASE ~Accepts(g, p, depth)
  <2>1. h = [g EXCEPT !.stop = StopReason(g, p, depth)]
    BY <1>3 DEF Enqueue
  <2>2. /\ StopReason(g, p, depth) \in {"", "depth_limit_reached", "page_budget_reached"}
        /\ StopReason(g, p, depth) = "" => g.stop = "" /\ (p \in Official => p \in g.seen)
    BY GraphFacts DEF StopReason
  <2> QED
    BY <1>3, <2>1, <2>2 DEF Graphs, Open
<1> QED
  BY <1>2, <1>3

-----------------------------------------------------------------------------
(* The types, and the rows.                                                *)

LEMMA TypedFacts ==
    ASSUME Typed
    PROVE  /\ graph.queue \in Seq(Queueable) /\ graph.seen \subseteq Pages /\ Queued \subseteq Pages
           /\ \A p \in Pages : row[p] \in Rows
           /\ \A p \in ToSet(ids) : p \in Pages
<1>1. graph \in Graphs /\ ids \in Seq(Pages) /\ row \in [Pages -> Rows]
  BY DEF Typed
<1>2. ToSet(ids) \subseteq Pages
  BY <1>1, LenProperties, ElementOfSeq DEF ToSet
<1> QED
  BY <1>1, <1>2, GraphFacts DEF Queued

\* A row that is marked keeps the rest.
LEMMA Failing ==
    ASSUME Typed, NEW p \in Pages, row' = [row EXCEPT ![p].state = "failed"]
    PROVE  /\ row' \in [Pages -> Rows]
           /\ row'[p].type = row[p].type /\ row'[p].snap = row[p].snap /\ row'[p].state = "failed"
           /\ \A q \in Pages \ {p} : row'[q] = row[q]
<1> DEFINE r == [row[p] EXCEPT !.state = "failed"]
<1>1. row \in [Pages -> Rows] /\ row[p] \in Rows
  BY DEF Typed
<1>2. r \in Rows /\ r.type = row[p].type /\ r.snap = row[p].snap /\ r.state = "failed"
  BY <1>1 DEF Rows
<1>3. row' = [row EXCEPT ![p] = r]
  BY <1>1
<1> HIDE DEF r
<1> QED
  BY <1>1, <1>2, <1>3

LEMMA Stopping ==
    ASSUME Typed, NEW p \in Pages, row' = [row EXCEPT ![p].stop = TRUE]
    PROVE  /\ row' \in [Pages -> Rows]
           /\ \A q \in Pages : row'[q].type = row[q].type /\ row'[q].snap = row[q].snap /\ row'[q].state = row[q].state
<1> DEFINE r == [row[p] EXCEPT !.stop = TRUE]
<1>1. row \in [Pages -> Rows] /\ row[p] \in Rows
  BY DEF Typed
<1>2. r \in Rows /\ r.type = row[p].type /\ r.snap = row[p].snap /\ r.state = row[p].state
  BY <1>1 DEF Rows
<1>3. row' = [row EXCEPT ![p] = r]
  BY <1>1
<1> HIDE DEF r
<1>4. row' \in [Pages -> Rows] /\ row'[p] = r /\ \A q \in Pages \ {p} : row'[q] = row[q]
  BY <1>1, <1>2, <1>3
<1> QED
  BY <1>2, <1>4

LEMMA Recording ==
    ASSUME Typed, NEW p \in Pages, NEW snap \in Pages,
           row' = [row EXCEPT ![p].state = "fetched", ![p].snap = snap]
    PROVE  /\ row' \in [Pages -> Rows]
           /\ row'[p].type = row[p].type /\ row'[p].snap = snap /\ row'[p].state = "fetched"
           /\ \A q \in Pages \ {p} : row'[q] = row[q]
<1> DEFINE r == [row[p] EXCEPT !.state = "fetched", !.snap = snap]
<1>1. row \in [Pages -> Rows] /\ row[p] \in Rows
  BY DEF Typed
<1>2. r \in Rows /\ r.type = row[p].type /\ r.snap = snap /\ r.state = "fetched"
  BY <1>1 DEF Rows
<1>3. row' = [row EXCEPT ![p] = r]
  BY <1>1
<1>4. p \in Pages /\ r \in Rows
  BY <1>2
<1> HIDE DEF r
<1>5. row'[p] = r
  BY <1>1, <1>3, <1>4, Zenon
<1>6. row' \in [Pages -> Rows] /\ \A q \in Pages \ {p} : row'[q] = row[q]
  BY <1>1, <1>3, <1>4
<1> QED
  BY <1>2, <1>5, <1>6

LEMMA SnapTyped ==
    ASSUME Typed, NEW p \in Pages
    PROVE  SnapOf(p) \in Pages \cup {NoPage}
<1>1. row[p] \in Rows
  BY DEF Typed
<1> QED
  BY <1>1 DEF SnapOf, Rows

\* A hint takes the type of a profile, and its snapshot is kept or dropped.
LEMMA HintOp ==
    ASSUME Typed, NEW h \in Pages, MissHint(h) \/ FindHint(h)
    PROVE  /\ ids' \in Seq(Pages) /\ row' \in [Pages -> Rows]
           /\ ToSet(ids) \subseteq ToSet(ids') /\ h \in ToSet(ids')
           /\ row'[h].snap \in {NoPage, row[h].snap}
           /\ FindHint(h) => row'[h].snap = NoPage
           /\ \A q \in Pages \ {h} : row'[q] = row[q]
<1>1. row[h].snap \in Pages \cup {NoPage} /\ "person_profile" \in SourceTypes
  BY DEF Typed, Rows, SourceTypes
<1>2. ASSUME NEW state \in {"failed", "rejected", "fetched"}, NEW snap \in {NoPage, row[h].snap},
             RecordSource(h, "person_profile", 1, state, snap)
      PROVE  /\ ids' \in Seq(Pages) /\ row' \in [Pages -> Rows]
             /\ ToSet(ids) \subseteq ToSet(ids') /\ h \in ToSet(ids')
             /\ row'[h].snap = snap
             /\ \A q \in Pages \ {h} : row'[q] = row[q]
  <2>1. state \in {"queued", "fetched", "failed", "rejected"} /\ snap \in Pages \cup {NoPage} /\ 1 \in Nat
    BY <1>1
  <2> QED
    BY ONLY <1>1, <1>2, <2>1, RecordSourceOp, Typed, h \in Pages
<1>3. CASE FindHint(h)
  BY <1>2, <1>3 DEF FindHint
<1>4. CASE ~FindHint(h)
  BY <1>2, <1>4 DEF MissHint
<1> QED
  BY <1>3, <1>4

LEMMA InitTyped == WalkInit => Typed
<1> SUFFICES ASSUME WalkInit PROVE Typed
  OBVIOUS
<1>1. NoRow \in Rows /\ NoGraph \in Graphs
  BY EmptySeq DEF NoRow, Rows, RootTypes, SourceTypes, NoGraph, Graphs
<1>2. NoNode \in [page : Pages \cup {NoPage}, type : SourceTypes, depth : Nat]
  BY DEF NoNode, RootTypes, SourceTypes
<1>3. <<>> \in Seq(Pages) /\ <<>> \in Seq(Pages \X SourceTypes)
  BY EmptySeq
<1>4. row \in [Pages -> Rows] /\ file \in [Pages -> {"none", "empty", "part", "whole"}]
  BY <1>1 DEF WalkInit
<1> QED
  BY <1>1, <1>2, <1>3, <1>4 DEF WalkInit, Typed, Loading, Later

LEMMA TypedStep == Typed /\ [WalkNext]_walkVars => Typed'
<1> SUFFICES ASSUME Typed, [WalkNext]_walkVars PROVE Typed'
  OBVIOUS
<1> DEFINE Nodes == [page : Pages \cup {NoPage}, type : SourceTypes, depth : Nat]
<1>0. /\ NoGraph \in Graphs /\ NoNode \in Nodes /\ <<>> \in Seq(Pages \X SourceTypes)
      /\ "faculty_directory" \in SourceTypes /\ "directory_page" \in SourceTypes
      /\ "person_profile" \in SourceTypes
  BY EmptySeq DEF NoNode, RootTypes, SourceTypes, NoGraph, Graphs
<1>1. CASE StartRun
  <2>1. ids' \in Seq(Pages) /\ row' \in [Pages -> Rows] /\ Root \in ToSet(ids')
    BY <1>0, <1>1, AddSourceOp DEF StartRun
  <2>2. Typed' \/ found' = ListSources'
    BY <1>1 DEF StartRun
  <2>3. \A i \in DOMAIN ids' : <<ids'[i], row'[ids'[i]].type>> \in Pages \X SourceTypes
    <3> SUFFICES ASSUME NEW i \in DOMAIN ids' PROVE <<ids'[i], row'[ids'[i]].type>> \in Pages \X SourceTypes
      OBVIOUS
    <3>1. ids'[i] \in Pages
      BY <2>1, LenProperties, ElementOfSeq
    <3> QED
      BY <2>1, <3>1 DEF Rows
  <2>4. found' \in Seq(Pages \X SourceTypes)
    <3>1. Len(ids') \in Nat /\ DOMAIN ids' = 1 .. Len(ids')
      BY <2>1, LenProperties
    <3>2. found' = [i \in DOMAIN ids' |-> <<ids'[i], row'[ids'[i]].type>>]
      BY <1>1 DEF StartRun, ListSources
    <3>3. found' \in [1 .. Len(ids') -> Pages \X SourceTypes]
      BY <2>3, <3>1, <3>2
    <3> QED
      BY <3>1, <3>3, SeqDef
  <2> QED
    BY <1>0, <1>1, <2>1, <2>4 DEF StartRun, Typed, Loading, Later
<1>2. CASE EnqueueRoot
  <2>1. Head(found)[1] \in Pages /\ Head(found)[2] \in SourceTypes /\ found' \in Seq(Pages \X SourceTypes)
    BY <1>2, TakeFromFound DEF EnqueueRoot, Typed
  <2>2. row[Head(found)[1]].type \in SourceTypes /\ row[Head(found)[1]].depth \in Nat
    BY <2>1 DEF Typed, Rows
  <2>3. graph' \in Graphs
    BY <1>2, <2>1, <2>2, EnqueueOp DEF EnqueueRoot, Typed
  <2> QED
    BY <1>2, <2>1, <2>3 DEF EnqueueRoot, Typed, table, Loading, Later
<1>3. CASE RootsEnqueued
  BY <1>3 DEF RootsEnqueued, Typed, table, Loading, Later
<1>4. CASE Pop
  <2> DEFINE n == Head(graph.queue)
  <2>1. n \in Queueable /\ Tail(graph.queue) \in Seq(Queueable) /\ graph \in Graphs
    BY <1>4, TypedFacts, TakeFromQueue DEF Pop, Typed
  <2>2. n.page \in Pages /\ n.type \in SourceTypes /\ n.depth \in Nat /\ n \in Nodes
    BY <2>1 DEF Queueable
  <2>3. ids' \in Seq(Pages) /\ row' \in [Pages -> Rows] /\ n.page \in ToSet(ids')
    BY <1>4, <2>2, AddSourceOp DEF Pop
  <2> DEFINE last == IF phase = "first" THEN n.page ELSE graph.last
             rest == Tail(graph.queue)
  <2>4. graph' = [graph EXCEPT !.queue = rest, !.last = last] /\ last \in Pages \cup {NoPage}
    BY <1>4, <2>1, <2>2 DEF Pop, Graphs
  <2> HIDE DEF rest, last
  <2>5. graph' \in Graphs
    BY <2>1, <2>4 DEF Graphs, rest
  <2> HIDE DEF n
  <2> QED
    BY <1>0, <1>4, <2>2, <2>3, <2>5 DEF Pop, Typed, Loading, Later, n
<1>5. CASE EnqueueFound
  <2> DEFINE p == Head(found)[1]
             type == Head(found)[2]
  <2>1. p \in Pages /\ type \in SourceTypes /\ found' \in Seq(Pages \X SourceTypes)
    BY <1>5, TakeFromFound DEF EnqueueFound, Typed
  <2>2. node.depth + 1 \in Nat
    BY DEF Typed
  <2>3. graph' \in Graphs
    BY <1>5, <2>1, <2>2, EnqueueOp DEF EnqueueFound, Typed
  <2>4. ids' \in Seq(Pages) /\ row' \in [Pages -> Rows]
    <3>1. CASE Accepts(graph, p, node.depth + 1)
      BY <1>5, <2>1, <2>2, <3>1, AddSourceOp DEF EnqueueFound
    <3>2. CASE ~Accepts(graph, p, node.depth + 1)
      BY <1>5, <3>2 DEF EnqueueFound, Typed
    <3> QED
      BY <3>1, <3>2
  <2> QED
    BY <1>5, <2>1, <2>3, <2>4 DEF EnqueueFound, Typed, Loading, Later
<1>6. CASE Enqueued
  BY <1>6 DEF Enqueued, Typed, table, Loading, Later
<1>7. CASE WalkedOut
  <2>1. row' \in [Pages -> Rows]
    <3>1. CASE row' = row
      BY <3>1 DEF Typed
    <3>2. CASE graph.last # NoPage /\ row' = [row EXCEPT ![graph.last].stop = TRUE]
      BY <3>2, Stopping DEF Typed, Graphs
    <3> QED
      BY <1>7, <3>1, <3>2 DEF WalkedOut
  <2> QED
    BY <1>7, <2>1 DEF WalkedOut, Typed, Loading, Later
<1>8. CASE Turn
  <2>1. graph' \in Graphs
    BY <1>8 DEF Turn, Typed, Graphs
  <2>2. url \in Pages
    BY <1>8, TypedFacts DEF Turn, Typed, Loading, Later
  <2> QED
    BY <1>8, <2>1, <2>2 DEF Turn, Typed, table, Loading, Later
<1>9. ASSUME NEW p \in Pages, Fails(p) PROVE Typed'
  <2>1. row' \in [Pages -> Rows]
    BY <1>9, Failing DEF Fails
  <2> QED
    BY <1>9, <2>1 DEF Fails, Typed, Loading, Later
<1>10. ASSUME NEW p \in Pages, Keeps(p) PROVE Typed'
  <2>1. row' \in [Pages -> Rows]
    BY <1>10, Failing DEF Keeps
  <2> QED
    BY <1>10, <2>1 DEF Keeps, Typed, Loading, Later
<1>11. pc \in Loading => url \in Pages
  BY TypedFacts DEF Typed
<1>12. CASE LoadCached
  BY <1>9, <1>11, <1>12 DEF LoadCached, Typed, table, Loading, Later
<1>13. CASE Download
  <2>1. url \in Pages /\ site.final[url] \in Pages
    BY <1>11, <1>13, SiteFacts DEF Download, Loading
  <2>2. CASE Keeps(url) \/ Fails(url)
    BY <1>9, <1>10, <2>1, <2>2
  <2>3. CASE ~(Keeps(url) \/ Fails(url))
    <3>1. file' \in [Pages -> {"none", "empty", "part", "whole"}]
      BY <1>13, <2>1, <2>3 DEF Download, Typed
    <3> QED
      BY <1>13, <2>1, <2>3, <3>1 DEF Download, Typed, Loading, Later
  <2> QED
    BY <2>2, <2>3
<1>14. CASE WriteSnapshot
  <2>1. url \in Pages /\ site.final[url] \in Pages
    BY <1>11, <1>14, SiteFacts DEF WriteSnapshot, Loading
  <2>2. CASE Fails(url)
    BY <1>9, <2>1, <2>2
  <2>3. CASE ~Fails(url)
    <3>1. file' \in [Pages -> {"none", "empty", "part", "whole"}]
      BY <1>14, <2>1, <2>3 DEF WriteSnapshot, Typed
    <3> QED
      BY <1>14, <2>1, <2>3, <3>1 DEF WriteSnapshot, Typed, Loading, Later
  <2> QED
    BY <2>2, <2>3
<1>15. CASE Record
  <2>1. url \in Pages /\ site.final[url] \in Pages
    BY <1>11, <1>15, SiteFacts DEF Record, Loading
  <2>2. row' \in [Pages -> Rows]
    BY <1>15, <2>1, Recording DEF Record
  <2> QED
    BY <1>15, <2>2 DEF Record, Typed, Loading, Later
<1>16. CASE Parse
  <2> DEFINE p == site.final[url]
             next == site.next[p]
  <2>1. url \in Pages /\ p \in Pages
    BY <1>11, <1>16, SiteFacts DEF Parse, Loading
  <2>2. site.listed[p] \subseteq People /\ site.links[p] \in Seq(Pages \X RootTypes)
    BY <2>1, SiteFacts
  <2>3. found' \in Seq(Pages \X SourceTypes)
    BY <1>16, <2>2, JoinFound DEF Parse, Typed
  <2>4. seeds' \subseteq People
    BY <1>16, <2>2 DEF Parse, Typed
  <2>5. /\ ids' \in Seq(Pages) /\ row' \in [Pages -> Rows] /\ url' \in Pages \cup {NoPage}
        /\ pc' \in {"turn", "enqueue"} /\ (pc' = "turn" => url' \in ToSet(ids'))
    <3>1. CASE next \in Official
      BY <1>0, <1>16, <3>1, AddSourceOp DEF Parse
    <3>2. CASE next \notin Official
      BY <1>16, <3>2 DEF Parse, Typed
    <3> QED
      BY <3>1, <3>2
  <2> QED
    BY <1>16, <2>3, <2>4, <2>5 DEF Parse, Typed, Loading, Later
<1>17. CASE PassProfile
  BY <1>17 DEF PassProfile, Typed, table, Loading, Later
<1>18. ASSUME NEW q \in People, ReadProfile(q) PROVE Typed'
  <2>0. PICK asked, p : asked = site.profile[q] /\ p = site.final[asked]
    OBVIOUS
  <2>1. asked \in Pages
    BY <1>18, <2>0 DEF ReadProfile, Typed, Site
  <2>2. p \in Pages /\ site.links[p] \in Seq(Pages \X RootTypes)
    BY <2>0, <2>1, SiteFacts
  <2>3. SnapOf(asked) \in Pages \cup {NoPage} /\ site.links[p] \in Seq(Pages \X SourceTypes)
    BY <2>1, <2>2, SnapTyped, SeqMonotonic DEF SourceTypes
  <2>4. CASE IsCached(asked) /\ file[row[asked].snap] = "part"
    BY <1>18, <2>0, <2>4 DEF ReadProfile, Typed, Loading, Later
  <2>5. CASE ~(IsCached(asked) /\ file[row[asked].snap] = "part")
    <3>1. RecordSource(p, "person_profile", 1, "fetched", SnapOf(asked))
      BY <1>18, <2>0, <2>5 DEF ReadProfile
    <3>2. row' \in [Pages -> Rows] /\ ids' \in Seq(Pages)
      BY <1>0, <2>2, <2>3, <3>1, RecordSourceOp
    <3>3. node' \in Nodes /\ found' \in Seq(Pages \X SourceTypes) /\ pc' \in {"profile", "enqueue"}
      BY <1>0, <1>18, <2>0, <2>2, <2>3, <2>5 DEF ReadProfile, Typed, NoNode
    <3> QED
      BY <1>18, <3>2, <3>3 DEF ReadProfile, Typed, Loading, Later
  <2> QED
    BY <2>4, <2>5
<1>19. CASE ProfilesEnd
  BY <1>19 DEF ProfilesEnd, Typed, table, Loading, Later
<1>20. CASE Forget
  BY <1>0, <1>20 DEF Forget, Typed, table, Loading, Later
<1>21. CASE UNCHANGED walkVars
  BY <1>21 DEF walkVars, Typed
<1>22. CASE Extract \/ PassPerson \/ NextPerson
  BY <1>22 DEF Extract, PassPerson, NextPerson, Typed, table, Loading, Later
<1>23. ASSUME NEW q \in People, ReadPerson(q) PROVE Typed'
  <2>0. PICK asked, p : asked = site.profile[q] /\ p = site.final[asked]
    OBVIOUS
  <2>1. asked \in Pages /\ p \in Pages
    BY <1>23, <2>0, SiteFacts DEF ReadPerson, Typed, Site
  <2>2. CASE IsCached(asked) /\ file[row[asked].snap] = "part"
    BY <1>23, <2>0, <2>2 DEF ReadPerson, Typed, Loading, Later
  <2>3. CASE ~(IsCached(asked) /\ file[row[asked].snap] = "part")
    <3>1. RecordSource(p, "person_profile", 0, "fetched", SnapOf(asked)) /\ SnapOf(asked) \in Pages \cup {NoPage}
      BY <1>23, <2>0, <2>1, <2>3, SnapTyped DEF ReadPerson
    <3>2. row' \in [Pages -> Rows] /\ ids' \in Seq(Pages)
      BY <1>0, <2>1, <3>1, RecordSourceOp
    <3>3. node' = [NoNode EXCEPT !.page = p] /\ pc' \in {"people", "mails"}
      BY <1>23, <2>0, <2>3 DEF ReadPerson
    <3>4. node' \in Nodes /\ node'.page \in Pages
      BY <1>0, <2>1, <3>3 DEF NoNode
    <3> QED
      BY <1>23, <3>2, <3>3, <3>4 DEF ReadPerson, Typed, Loading, Later
  <2> QED
    BY <2>2, <2>3
<1>24. ASSUME NEW q \in People, Search(q) PROVE Typed'
  <2>1. site.hints[q] \subseteq Pages
    BY DEF Typed, Site
  <2> QED
    BY <1>24, <2>1 DEF Search, Typed, table, Loading, Later
<1>25. ASSUME NEW h \in Pages, MissHint(h) \/ FindHint(h) PROVE Typed'
  <2>1. row' \in [Pages -> Rows] /\ ids' \in Seq(Pages)
    BY <1>0, <1>25, HintOp
  <2>2. site.final[h] \in Pages
    BY SiteFacts
  <2> QED
    BY <1>25, <2>1, <2>2 DEF MissHint, FindHint, Typed, Loading, Later
<1>26. CASE ReadFound
  <2>1. url \in Pages /\ RecordSource(url, "person_profile", 0, "fetched", NoPage)
    BY <1>26 DEF ReadFound, Typed
  <2>2. row' \in [Pages -> Rows] /\ ids' \in Seq(Pages)
    BY <1>0, <2>1, RecordSourceOp
  <2>3. node' \in Nodes /\ node'.page \in Pages
    BY <1>0, <1>26, <2>1 DEF ReadFound, NoNode
  <2> QED
    BY <1>26, <2>2, <2>3 DEF ReadFound, Typed, Loading, Later
<1>27. CASE FetchMails
  <2>1. site.mails[node.page] \subseteq Pages
    BY <1>27, SiteFacts DEF FetchMails, Typed
  <2>2. visited' \subseteq Pages
    BY <1>27, <2>1, SiteFacts DEF FetchMails
  <2> QED
    BY <1>27, <2>2 DEF FetchMails, Typed, table, Loading, Later
<1>28. ASSUME NEW p \in Pages, RecordMail(p) PROVE Typed'
  <2>1. row' \in [Pages -> Rows] /\ ids' \in Seq(Pages)
    BY <1>0, <1>28, RecordSourceOp DEF RecordMail, SourceTypes
  <2> QED
    BY <1>28, <2>1 DEF RecordMail, Typed, Loading, Later
<1> QED
  BY <1>1, <1>2, <1>3, <1>4, <1>5, <1>6, <1>7, <1>8, <1>12, <1>13, <1>14, <1>15, <1>16, <1>17,
     <1>18, <1>19, <1>20, <1>21, <1>22, <1>23, <1>24, <1>25, <1>26, <1>27, <1>28
     DEF WalkNext, WalkStep, EndRun, CancelRun, CrashRun

\* Whatever adds a source, marks a row or writes a file keeps the rows sound.
LEMMA AddsSound ==
    ASSUME Typed, RowsSound, NEW p \in Pages, NEW type \in SourceTypes, NEW depth \in Nat,
           AddSource(p, type, depth), UNCHANGED <<site, file>>
    PROVE  RowsSound'
BY AddSourceOp DEF RowsSound

LEMMA RecordsSound ==
    ASSUME Typed, RowsSound, NEW p \in Pages, NEW type \in SourceTypes, NEW depth \in Nat,
           NEW state \in {"queued", "fetched", "failed", "rejected"}, NEW snap \in Pages \cup {NoPage},
           RecordSource(p, type, depth, state, snap), UNCHANGED <<site, file>>,
           snap # NoPage => snap = site.final[p] /\ file[site.final[p]] # "none"
    PROVE  RowsSound'
<1>1. /\ ToSet(ids) \subseteq ToSet(ids') /\ p \in ToSet(ids') /\ row'[p].snap = snap
      /\ \A q \in Pages \ {p} : row'[q] = row[q]
  BY RecordSourceOp
<1> QED
  BY <1>1 DEF RowsSound

LEMMA FailsSound ==
    ASSUME Typed, RowsSound, NEW p \in Pages, p \in ToSet(ids), Keeps(p) \/ Fails(p)
    PROVE  RowsSound' /\ pc' \in {"enqueue", "raised"}
<1>1. row' = [row EXCEPT ![p].state = "failed"] /\ ids' = ids /\ file' = file /\ site' = site
      /\ pc' \in {"enqueue", "raised"}
  BY DEF Keeps, Fails
<1> QED
  BY <1>1, Failing DEF RowsSound

LEMMA SoundStep == Typed /\ RowsSound /\ Downloading /\ [WalkNext]_walkVars => RowsSound' /\ Downloading'
<1> SUFFICES ASSUME Typed, RowsSound, Downloading, [WalkNext]_walkVars PROVE RowsSound' /\ Downloading'
  OBVIOUS
<1>0. {"faculty_directory", "directory_page", "person_profile"} \subseteq SourceTypes /\ 0 \in Nat
  BY DEF RootTypes, SourceTypes
<1>1. CASE StartRun
  BY <1>0, <1>1, AddsSound DEF StartRun, Downloading
<1>2. CASE EnqueueRoot \/ RootsEnqueued \/ Enqueued \/ Turn \/ PassProfile \/ ProfilesEnd
  <2>1. row' = row /\ ids' = ids /\ file' = file /\ site' = site /\ pc' \notin {"write", "record"}
    BY <1>2 DEF EnqueueRoot, RootsEnqueued, Enqueued, Turn, PassProfile, ProfilesEnd, table
  <2> QED
    BY <2>1 DEF RowsSound, Downloading
<1>3. CASE Pop
  <2> DEFINE n == Head(graph.queue)
  <2>1. n \in Queueable
    BY <1>3, TypedFacts, TakeFromQueue DEF Pop
  <2>2. n.page \in Pages /\ n.type \in SourceTypes /\ n.depth \in Nat
    BY <2>1 DEF Queueable
  <2>3. AddSource(n.page, n.type, n.depth) /\ file' = file /\ site' = site /\ pc' = "turn"
    BY <1>3 DEF Pop
  <2> HIDE DEF n
  <2> QED
    BY <2>2, <2>3, AddsSound DEF Downloading
<1>4. CASE EnqueueFound
  <2> DEFINE p == Head(found)[1]
             type == Head(found)[2]
             depth == node.depth + 1
  <2>1. p \in Pages /\ type \in SourceTypes
    BY <1>4, TakeFromFound DEF EnqueueFound, Typed
  <2>2. depth \in Nat
    BY DEF Typed
  <2>3. file' = file /\ site' = site /\ pc' = pc /\ pc = "enqueue"
    BY <1>4 DEF EnqueueFound
  <2>4. AddSource(p, type, depth) \/ (row' = row /\ ids' = ids)
    BY <1>4 DEF EnqueueFound
  <2> HIDE DEF p, type, depth
  <2>5. CASE AddSource(p, type, depth)
    BY <2>1, <2>2, <2>3, <2>5, AddsSound DEF Downloading
  <2>6. CASE row' = row /\ ids' = ids
    BY <2>3, <2>6 DEF RowsSound, Downloading
  <2> QED
    BY <2>4, <2>5, <2>6
<1>5. CASE WalkedOut
  <2>1. ids' = ids /\ file' = file /\ site' = site /\ pc' \notin {"write", "record"}
    BY <1>5 DEF WalkedOut
  <2>2. \A q \in Pages : row'[q].snap = row[q].snap /\ row'[q].state = row[q].state
    <3>1. CASE row' = row
      BY <3>1
    <3>2. CASE graph.last # NoPage /\ row' = [row EXCEPT ![graph.last].stop = TRUE]
      BY <3>2, Stopping DEF Typed, Graphs
    <3> QED
      BY <1>5, <3>1, <3>2 DEF WalkedOut
  <2> QED
    BY <2>1, <2>2 DEF RowsSound, Downloading
<1>6. pc \in Loading => url \in Pages /\ url \in ToSet(ids) /\ site.final[url] \in Pages
  BY TypedFacts, SiteFacts DEF Typed
<1>7. CASE LoadCached
  <2>1. CASE Fails(url)
    BY <1>6, <1>7, <2>1, FailsSound DEF LoadCached, Loading, Downloading
  <2>2. CASE ~Fails(url)
    <3>1. row' = row /\ ids' = ids /\ file' = file /\ site' = site /\ pc' \notin {"write", "record"}
      BY <1>7, <2>2 DEF LoadCached, table
    <3> QED
      BY <3>1 DEF RowsSound, Downloading
  <2> QED
    BY <2>1, <2>2
<1>8. CASE Download
  <2>1. CASE Keeps(url) \/ Fails(url)
    BY <1>6, <1>8, <2>1, FailsSound DEF Download, Loading, Downloading
  <2>2. CASE ~(Keeps(url) \/ Fails(url))
    <3> DEFINE p == site.final[url]
    <3>1. /\ row' = row /\ ids' = ids /\ site' = site /\ url' = url /\ url \in Pages /\ p \in Pages
          /\ ~IsCached(url)
          /\ file' = IF file[p] = "none" THEN [file EXCEPT ![p] = "empty"] ELSE file
      BY <1>6, <1>8, <2>2 DEF Download, Loading
    <3>2. file \in [Pages -> {"none", "empty", "part", "whole"}]
      BY DEF Typed
    <3>3. file'[p] # "none" /\ \A q \in Pages : file[q] # "none" => file'[q] # "none"
      BY <3>1, <3>2
    <3>4. row[url].snap # NoPage => file[row[url].snap] # "none"
      BY <3>1 DEF RowsSound
    <3>5. ~(row[url].state = "fetched" /\ row[url].snap # NoPage)
      BY <3>1, <3>4 DEF IsCached
    <3>6. \A q \in Pages : site.final[q] \in Pages
      BY SiteFacts
    <3> HIDE DEF p
    <3>7. RowsSound'
      BY <3>1, <3>3, <3>6 DEF RowsSound
    <3>8. Downloading'
      BY <3>1, <3>3, <3>5 DEF Downloading, p
    <3> QED
      BY <3>7, <3>8
  <2> QED
    BY <2>1, <2>2
<1>9. CASE WriteSnapshot
  <2>1. CASE Fails(url)
    BY <1>6, <1>9, <2>1, FailsSound DEF WriteSnapshot, Loading, Downloading
  <2>2. CASE ~Fails(url)
    <3> DEFINE p == site.final[url]
    <3>1. /\ row' = row /\ ids' = ids /\ site' = site /\ url' = url /\ p \in Pages /\ pc = "write"
          /\ file' = [file EXCEPT ![p] = "part"] \/ file' = [file EXCEPT ![p] = "whole"]
      BY <1>6, <1>9, <2>2 DEF WriteSnapshot, Loading
    <3>2. file \in [Pages -> {"none", "empty", "part", "whole"}]
      BY DEF Typed
    <3>3. file'[p] # "none" /\ \A q \in Pages : file[q] # "none" => file'[q] # "none"
      BY <3>1, <3>2
    <3>4. \A q \in Pages : site.final[q] \in Pages
      BY SiteFacts
    <3> HIDE DEF p
    <3>5. RowsSound'
      BY <3>1, <3>3, <3>4 DEF RowsSound
    <3>6. Downloading'
      BY <3>1, <3>3 DEF Downloading, p
    <3> QED
      BY <3>5, <3>6
  <2> QED
    BY <2>1, <2>2
<1>10. CASE Record
  <2>1. /\ row' = [row EXCEPT ![url].state = "fetched", ![url].snap = site.final[url]]
        /\ ids' = ids /\ file' = file /\ site' = site /\ pc = "record" /\ pc' = "parse"
    BY <1>10 DEF Record
  <2>2. url \in Pages /\ url \in ToSet(ids) /\ site.final[url] \in Pages
    BY <1>6, <2>1 DEF Loading
  <2>3. /\ row'[url].snap = site.final[url]
        /\ \A q \in Pages \ {url} : row'[q] = row[q]
    BY <2>1, <2>2, Recording
  <2> QED
    BY <2>1, <2>2, <2>3 DEF RowsSound, Downloading
<1>11. CASE Parse
  <2> DEFINE next == site.next[site.final[url]]
  <2>1. file' = file /\ site' = site /\ pc' \in {"turn", "enqueue"}
    BY <1>11 DEF Parse
  <2>2. (next \in Pages /\ AddSource(next, "directory_page", 0)) \/ (row' = row /\ ids' = ids)
    BY <1>11 DEF Parse
  <2> HIDE DEF next
  <2>3. CASE next \in Pages /\ AddSource(next, "directory_page", 0)
    BY <1>0, <2>1, <2>3, AddsSound DEF Downloading
  <2>4. CASE row' = row /\ ids' = ids
    BY <2>1, <2>4 DEF RowsSound, Downloading
  <2> QED
    BY <2>2, <2>3, <2>4
<1>12. ASSUME NEW q \in People, ReadProfile(q) \/ ReadPerson(q) PROVE RowsSound' /\ Downloading'
  <2>0. PICK asked, p : asked = site.profile[q] /\ p = site.final[asked]
    OBVIOUS
  <2>1. asked \in Pages
    BY <1>12, <2>0 DEF ReadProfile, ReadPerson, Typed, Site
  <2>2. p \in Pages /\ site.final[p] = p
    BY <2>0, <2>1, SiteFacts
  <2>3. SnapOf(asked) \in Pages \cup {NoPage} /\ (SnapOf(asked) # NoPage => SnapOf(asked) = p /\ file[p] # "none")
    BY <2>0, <2>1, SnapTyped DEF RowsSound, SnapOf
  <2>4. file' = file /\ site' = site /\ pc' \notin {"write", "record"}
    BY <1>12 DEF ReadProfile, ReadPerson
  <2>5. CASE row' = row /\ ids' = ids
    BY <2>4, <2>5 DEF RowsSound, Downloading
  <2>6. CASE ~(row' = row /\ ids' = ids)
    <3>1. PICK depth \in {0, 1} : RecordSource(p, "person_profile", depth, "fetched", SnapOf(asked))
      BY <1>12, <2>0, <2>6 DEF ReadProfile, ReadPerson
    <3>2. depth \in Nat
      OBVIOUS
    <3>3. RowsSound'
      BY <1>0, <2>2, <2>3, <2>4, <3>1, <3>2, RecordsSound
    <3> QED
      BY <2>4, <3>3 DEF Downloading
  <2> QED
    BY <2>5, <2>6
<1>13. CASE Forget
  BY <1>13 DEF Forget, table, RowsSound, Downloading
<1>14. CASE UNCHANGED walkVars
  BY <1>14 DEF walkVars, RowsSound, Downloading
<1>15. CASE Extract \/ PassPerson \/ NextPerson \/ FetchMails \/ \E q \in People : Search(q)
  <2>1. row' = row /\ ids' = ids /\ file' = file /\ site' = site /\ pc' \notin {"write", "record"}
    BY <1>15 DEF Extract, PassPerson, NextPerson, FetchMails, Search, table
  <2> QED
    BY <2>1 DEF RowsSound, Downloading
<1>16. ASSUME NEW h \in Pages, MissHint(h) \/ FindHint(h) PROVE RowsSound' /\ Downloading'
  <2>1. file' = file /\ site' = site /\ pc' \in {"hints", "found"}
    BY <1>16 DEF MissHint, FindHint
  <2>2. /\ ToSet(ids) \subseteq ToSet(ids') /\ h \in ToSet(ids') /\ row'[h].snap \in {NoPage, row[h].snap}
        /\ \A q \in Pages \ {h} : row'[q] = row[q]
    BY <1>16, HintOp
  <2> QED
    BY <2>1, <2>2 DEF RowsSound, Downloading
<1>17. ASSUME NEW p \in Pages, NEW type \in SourceTypes, RecordSource(p, type, 0, "fetched", NoPage),
              UNCHANGED <<site, file>>, pc' \in Later
       PROVE  RowsSound' /\ Downloading'
  <2>1. RowsSound'
    BY <1>0, <1>17, RecordsSound
  <2> QED
    BY <1>17, <2>1 DEF Downloading, Later
<1>18. CASE ReadFound
  BY <1>0, <1>17, <1>18 DEF ReadFound, Typed, Later
<1>19. ASSUME NEW p \in Pages, RecordMail(p) PROVE RowsSound' /\ Downloading'
  <2>1. "official_email_source" \in SourceTypes
    BY DEF SourceTypes
  <2> QED
    BY <1>17, <1>19, <2>1 DEF RecordMail, Later
<1> QED
  BY <1>1, <1>2, <1>3, <1>4, <1>5, <1>7, <1>8, <1>9, <1>10, <1>11, <1>12, <1>13, <1>14, <1>15,
     <1>16, <1>18, <1>19 DEF WalkNext, WalkStep, EndRun, CancelRun, CrashRun

\* A page that a search, or the look for an address, comes to had no snapshot when it was
\* downloaded, or is another one than the URL that was asked for.
LEMMA DownloadedStep ==
    Typed /\ RowsSound /\ Downloaded /\ [WalkNext]_walkVars => Downloaded'
<1> SUFFICES ASSUME Typed, RowsSound, Downloaded, [WalkNext]_walkVars PROVE Downloaded'
  OBVIOUS
<1>1. CASE pc' \notin {"found", "emails"}
  BY <1>1 DEF Downloaded
<1>2. ASSUME NEW h \in Pages, FindHint(h) PROVE Downloaded'
  <2>1. row'[h].snap = NoPage /\ url' = site.final[h] /\ pc' = "found" /\ site' = site
    BY <1>2, HintOp DEF FindHint
  <2>2. h \in Pages
    BY <1>2
  <2>3. HasSnap(url)' => url' # h
    BY <2>1 DEF HasSnap
  <2> QED
    BY <2>1, <2>2, <2>3 DEF Downloaded, Redirected
<1>3. CASE FetchMails
  <2>1. PICK S \in SUBSET {u \in site.mails[node.page] : ~IsCached(u)} : visited' = {site.final[u] : u \in S}
    BY <1>3 DEF FetchMails
  <2>2. /\ UNCHANGED <<site, row, file, node>> /\ pc' = "emails"
    BY <1>3 DEF FetchMails, table
  <2>3. site.mails[node.page] \subseteq Pages
    BY <1>3, SiteFacts DEF FetchMails, Typed
  <2>4. ASSUME NEW u \in S, HasSnap(site.final[u]) PROVE site.final[u] # u
    BY <2>1, <2>3, <2>4 DEF IsCached, HasSnap, RowsSound
  <2>5. \A p \in visited' : HasSnap(p) => Redirected(p, site.mails[node.page])
    <3> SUFFICES ASSUME NEW p \in visited', HasSnap(p) PROVE \E u \in site.mails[node.page] \ {p} : site.final[u] = p
      BY DEF Redirected
    <3>1. PICK u \in S : p = site.final[u]
      BY <2>1
    <3> QED
      BY <2>1, <2>4, <3>1
  <2> QED
    BY <2>2, <2>5 DEF Downloaded, HasSnap, Redirected
<1>4. ASSUME NEW r \in Pages, RecordMail(r) PROVE Downloaded'
  <2>1. /\ UNCHANGED <<site, node>> /\ pc = "emails" /\ pc' = "emails" /\ visited' = visited \ {r}
        /\ RecordSource(r, "official_email_source", 0, "fetched", NoPage)
    BY <1>4 DEF RecordMail
  <2>2. \A q \in Pages \ {r} : row'[q] = row[q]
    BY <2>1, RecordSourceOp DEF SourceTypes
  <2>3. visited \subseteq Pages
    BY DEF Typed
  <2> QED
    BY <2>1, <2>2, <2>3 DEF Downloaded, HasSnap, Redirected
<1>5. CASE UNCHANGED walkVars
  BY <1>5 DEF walkVars, Downloaded, HasSnap, Redirected
<1>6. pc' \notin {"found", "emails"} \/ FetchMails \/ UNCHANGED walkVars
      \/ (\E h \in Pages : FindHint(h)) \/ (\E r \in Pages : RecordMail(r))
  <2>1. CASE StartRun \/ EnqueueRoot \/ RootsEnqueued \/ Pop \/ EnqueueFound \/ Enqueued \/ WalkedOut \/ Turn
    BY <2>1 DEF StartRun, EnqueueRoot, RootsEnqueued, Pop, EnqueueFound, Enqueued, WalkedOut, Turn
  <2>2. CASE LoadCached \/ Download \/ WriteSnapshot \/ Record \/ Parse
    BY <2>2 DEF LoadCached, Download, WriteSnapshot, Record, Parse, Keeps, Fails
  <2>3. CASE PassProfile \/ ProfilesEnd \/ (\E q \in People : ReadProfile(q))
    BY <2>3 DEF PassProfile, ProfilesEnd, ReadProfile
  <2>4. CASE Extract \/ PassPerson \/ ReadFound \/ NextPerson \/ Forget
    BY <2>4 DEF Extract, PassPerson, ReadFound, NextPerson, Forget
  <2>5. CASE \E q \in People : ReadPerson(q) \/ Search(q)
    BY <2>5 DEF ReadPerson, Search
  <2>6. CASE \E h \in Pages : MissHint(h)
    BY <2>6 DEF MissHint
  <2> QED
    BY <2>1, <2>2, <2>3, <2>4, <2>5, <2>6 DEF WalkNext, WalkStep, EndRun, CancelRun, CrashRun
<1> QED
  BY <1>1, <1>2, <1>3, <1>4, <1>5, <1>6

\* What SuccessIsKept says of one page in one step.
KeptAs(p) ==
    \/ row'[p].snap = row[p].snap /\ (row'[p].state = "fetched" \/ file[row[p].snap] = "part")
    \/ Overwritten(p)

LEMMA AddsKeep ==
    ASSUME Typed, RowsSound, NEW p \in Pages, HasSnap(p), NEW a \in Pages, NEW type \in SourceTypes,
           NEW depth \in Nat, AddSource(a, type, depth)
    PROVE  KeptAs(p)
BY AddSourceOp DEF RowsSound, HasSnap, KeptAs

LEMMA FailsKeep ==
    ASSUME Typed, NEW p \in Pages, HasSnap(p), NEW a \in Pages, Keeps(a) \/ Fails(a),
           HasSnap(a) => file[row[a].snap] = "part"
    PROVE  KeptAs(p)
<1>1. row' = [row EXCEPT ![a].state = "failed"]
  BY DEF Keeps, Fails
<1> QED
  BY <1>1, Failing DEF HasSnap, KeptAs

LEMMA KeepsSnaps ==
    ASSUME Typed, RowsSound, Downloading, Downloaded, [WalkNext]_walkVars, NEW p \in Pages, HasSnap(p)
    PROVE  KeptAs(p)
<1>0. {"faculty_directory", "directory_page"} \subseteq SourceTypes /\ 0 \in Nat
  BY DEF RootTypes, SourceTypes
<1>1. CASE StartRun
  BY <1>0, <1>1, AddsKeep DEF StartRun
<1>2. CASE row' = row
  BY <1>2 DEF KeptAs, HasSnap
<1>3. CASE EnqueueRoot \/ RootsEnqueued \/ Enqueued \/ Turn \/ PassProfile \/ ProfilesEnd \/ Forget
  BY <1>2, <1>3 DEF EnqueueRoot, RootsEnqueued, Enqueued, Turn, PassProfile, ProfilesEnd, Forget, table
<1>4. CASE Pop
  <2> DEFINE n == Head(graph.queue)
  <2>1. n \in Queueable
    BY <1>4, TypedFacts, TakeFromQueue DEF Pop
  <2>2. n.page \in Pages /\ n.type \in SourceTypes /\ n.depth \in Nat
    BY <2>1 DEF Queueable
  <2>3. AddSource(n.page, n.type, n.depth)
    BY <1>4 DEF Pop
  <2> HIDE DEF n
  <2> QED
    BY <2>2, <2>3, AddsKeep
<1>5. CASE EnqueueFound
  <2>1. Head(found)[1] \in Pages /\ Head(found)[2] \in SourceTypes /\ node.depth + 1 \in Nat
    BY <1>5, TakeFromFound DEF EnqueueFound, Typed
  <2>2. AddSource(Head(found)[1], Head(found)[2], node.depth + 1) \/ row' = row
    BY <1>5 DEF EnqueueFound
  <2> QED
    BY <1>2, <2>1, <2>2, AddsKeep
<1>6. CASE WalkedOut
  <2>1. CASE graph.last # NoPage /\ row' = [row EXCEPT ![graph.last].stop = TRUE]
    <3>1. row'[p].snap = row[p].snap /\ row'[p].state = row[p].state
      BY <2>1, Stopping DEF Typed, Graphs
    <3> QED
      BY <3>1 DEF HasSnap, KeptAs
  <2> QED
    BY <1>2, <1>6, <2>1 DEF WalkedOut
<1>7. pc \in Loading => url \in Pages
  BY TypedFacts DEF Typed
<1>8. CASE LoadCached
  <2>1. CASE file[row[url].snap] = "part" /\ Fails(url)
    BY <1>7, <1>8, <2>1, FailsKeep DEF LoadCached, Loading
  <2> QED
    BY <1>2, <1>8, <2>1 DEF LoadCached, table
<1>9. CASE Download
  <2>1. url \in Pages /\ ~IsCached(url)
    BY <1>7, <1>9 DEF Download, Loading
  <2>2. ~HasSnap(url)
    BY <2>1 DEF RowsSound, HasSnap, IsCached
  <2>3. CASE Keeps(url) \/ Fails(url)
    BY <2>1, <2>2, <2>3, FailsKeep
  <2> QED
    BY <1>2, <1>9, <2>3 DEF Download
<1>10. CASE WriteSnapshot
  <2>1. url \in Pages /\ ~HasSnap(url)
    BY <1>7, <1>10 DEF WriteSnapshot, Loading, Downloading, HasSnap
  <2>2. CASE Fails(url)
    BY <2>1, <2>2, FailsKeep
  <2> QED
    BY <1>2, <1>10, <2>2 DEF WriteSnapshot
<1>11. CASE Record
  <2>1. /\ url \in Pages /\ ~HasSnap(url) /\ site.final[url] \in Pages
        /\ row' = [row EXCEPT ![url].state = "fetched", ![url].snap = site.final[url]]
    BY <1>7, <1>11, SiteFacts DEF Record, Loading, Downloading, HasSnap
  <2>2. p # url /\ row'[p] = row[p]
    BY <2>1, Recording
  <2> QED
    BY <2>2 DEF HasSnap, KeptAs
<1>12. CASE Parse
  <2> DEFINE next == site.next[site.final[url]]
  <2>1. (next \in Pages /\ AddSource(next, "directory_page", 0)) \/ row' = row
    BY <1>12 DEF Parse
  <2> HIDE DEF next
  <2> QED
    BY <1>0, <1>2, <2>1, AddsKeep
<1>13. ASSUME NEW q \in People, ReadProfile(q) \/ ReadPerson(q) PROVE KeptAs(p)
  <2>0. PICK asked, r : asked = site.profile[q] /\ r = site.final[asked]
    OBVIOUS
  <2>1. asked \in Pages /\ q \in todo /\ pc \in {"profile", "people"}
    BY <1>13, <2>0 DEF ReadProfile, ReadPerson, Typed, Site
  <2>2. r \in Pages /\ SnapOf(asked) \in Pages \cup {NoPage}
    BY <2>0, <2>1, SiteFacts, SnapTyped
  <2>3. CASE row' # row
    <3>1. PICK depth \in {0, 1} : RecordSource(r, "person_profile", depth, "fetched", SnapOf(asked))
      BY <1>13, <2>0, <2>3 DEF ReadProfile, ReadPerson
    <3>2. depth \in Nat /\ "person_profile" \in SourceTypes
      BY DEF SourceTypes
    <3>3. row'[r].state = "fetched" /\ row'[r].snap = SnapOf(asked) /\ (p # r => row'[p] = row[p])
      BY <2>2, <3>1, <3>2, RecordSourceOp
    <3>4. CASE p # r
      BY <3>3, <3>4 DEF HasSnap, KeptAs
    <3>5. CASE p = r /\ asked = p
      <4>1. IsCached(p)
        BY DEF RowsSound, HasSnap, IsCached
      <4> QED
        BY <3>3, <3>5, <4>1 DEF KeptAs, SnapOf
    <3>6. CASE p = r /\ asked # p
      <4>1. q \in ServedFrom(p)
        BY <2>0, <2>1, <3>6 DEF ServedFrom
      <4> QED
        BY <2>1, <3>3, <3>6, <4>1 DEF KeptAs, Overwritten
    <3> QED
      BY <3>4, <3>5, <3>6
  <2> QED
    BY <1>2, <2>3
<1>14. CASE UNCHANGED walkVars
  BY <1>2, <1>14 DEF walkVars
<1>15. CASE Extract \/ PassPerson \/ NextPerson \/ FetchMails \/ \E q \in People : Search(q)
  BY <1>2, <1>15 DEF Extract, PassPerson, NextPerson, FetchMails, Search, table
<1>16. ASSUME NEW h \in Pages, MissHint(h) \/ FindHint(h) PROVE KeptAs(p)
  <2>1. \A q \in Pages \ {h} : row'[q] = row[q]
    BY <1>16, HintOp
  <2>2. pc = "hints" /\ h \in visited \ visited'
    BY <1>16 DEF MissHint, FindHint
  <2> QED
    BY <2>1, <2>2 DEF HasSnap, KeptAs, Overwritten
<1>17. CASE ReadFound
  <2>1. pc = "found" /\ url \in Pages /\ RecordSource(url, "person_profile", 0, "fetched", NoPage)
    BY <1>17 DEF ReadFound, Typed
  <2>2. row'[url].state = "fetched" /\ \A q \in Pages \ {url} : row'[q] = row[q]
    BY <2>1, RecordSourceOp DEF SourceTypes
  <2> QED
    BY <2>1, <2>2 DEF HasSnap, KeptAs, Overwritten, Downloaded
<1>18. ASSUME NEW r \in Pages, RecordMail(r) PROVE KeptAs(p)
  <2>1. /\ pc = "emails" /\ r \in visited \ visited'
        /\ RecordSource(r, "official_email_source", 0, "fetched", NoPage)
    BY <1>18 DEF RecordMail
  <2>2. \A q \in Pages \ {r} : row'[q] = row[q]
    BY <2>1, RecordSourceOp DEF SourceTypes
  <2> QED
    BY <2>1, <2>2 DEF HasSnap, KeptAs, Overwritten, Downloaded
<1> QED
  BY <1>1, <1>3, <1>4, <1>5, <1>6, <1>8, <1>9, <1>10, <1>11, <1>12, <1>13, <1>14, <1>15, <1>16,
     <1>17, <1>18 DEF WalkNext, WalkStep, EndRun, CancelRun, CrashRun

-----------------------------------------------------------------------------
Sound == Typed /\ RowsSound /\ Downloading /\ Downloaded

LEMMA InitSound == WalkInit => Sound
<1> SUFFICES ASSUME WalkInit PROVE RowsSound /\ Downloading /\ Downloaded
  BY InitTyped DEF Sound
<1>1. \A p \in Pages : row[p] = NoRow
  BY DEF WalkInit
<1> QED
  BY <1>1 DEF WalkInit, RowsSound, Downloading, Downloaded, NoRow

\* The rows and the snapshot files belong together, over any number of runs and crashes.
THEOREM RowsStaySound == WalkSpec => []Sound
<1>1. Sound /\ [WalkNext]_walkVars => Sound'
  BY TypedStep, SoundStep, DownloadedStep DEF Sound
<1> QED
  BY InitSound, <1>1, PTL DEF WalkSpec

\* What was fetched with a snapshot is not fetched again by a later run, whatever fails or
\* crashes, unless the snapshot is cut off or a person is read for whom the page answers.
THEOREM SuccessIsKeptHolds == WalkSpec => SuccessIsKept
<1>1. Sound /\ [WalkNext]_walkVars =>
        [\A p \in Pages : row[p].state = "fetched" /\ row[p].snap # NoPage =>
            \/ row'[p].snap = row[p].snap /\ (row'[p].state = "fetched" \/ file[row[p].snap] = "part")
            \/ Overwritten(p)]_walkVars
  BY KeepsSnaps DEF Sound, HasSnap, KeptAs
<1> QED
  BY RowsStaySound, <1>1, PTL DEF WalkSpec, SuccessIsKept

-----------------------------------------------------------------------------
(* The pages that were read.                                               *)

\* What a page has given it has given, while the people and the pages taken only grow.
LEMMA FollowedStays ==
    ASSUME NEW S, NEW T, S \subseteq T, NEW p, Followed(p, S), site' = site,
           seeds \subseteq seeds', Official \cap Taken \subseteq Taken'
    PROVE  Followed(p, T)'
BY DEF Followed, Linked

\* Covered pages stay so when no row, no file and no page in hand changes.
LEMMA CoveredStays ==
    ASSUME NEW S, Covered(S), site' = site, file' = file, seeds \subseteq seeds', Queued \subseteq Queued',
           Official \cap Taken \subseteq Taken', graph'.seen \subseteq S \cup Queued',
           pc \notin Loading \cup {"turn"}, pc' \notin Loading \cup {"turn"},
           \A p \in S : \/ row'[p].state = row[p].state /\ row'[p].type = row[p].type
                        \/ row'[p].type = "person_profile" \/ p \in Queued'
    PROVE  Covered(S)'
<1>1. ASSUME NEW p \in S PROVE Pending(p)' \/ Excused(p)' \/ Followed(p, S)'
  <2>1. CASE p \in Queued'
    BY <2>1 DEF Pending
  <2>2. CASE Pending(p)
    BY <2>2 DEF Pending
  <2>3. CASE Excused(p)
    BY <2>1, <2>3, <1>1 DEF Excused, Cut, Loading
  <2>4. CASE Followed(p, S)
    BY <2>4, FollowedStays
  <2> QED
    BY <1>1, <2>2, <2>3, <2>4 DEF Covered
<1> QED
  BY <1>1 DEF Covered

\* While the page in hand is the same and is only loaded, the others stay as they are.
LEMMA LoadingStays ==
    ASSUME NEW S, Covered(S), pc \in Loading, pc' \in Loading, url' = url, visited' = visited,
           UNCHANGED <<site, graph, seeds, found>>,
           \A p \in S : Excused(p) => Pending(p)' \/ Excused(p)'
    PROVE  Covered(S)'
<1>1. Queued' = Queued /\ Taken' = Taken
  BY DEF Queued, Taken
<1>2. \A p : Pending(p) => Pending(p)'
  BY <1>1 DEF Pending
<1>3. \A p : Followed(p, S) => Followed(p, S)'
  BY <1>1, FollowedStays
<1> QED
  BY <1>1, <1>2, <1>3 DEF Covered

\* The page in hand is given up: it says so, and the others stay as they are.
LEMMA LeftStays ==
    ASSUME NEW S, Covered(S), pc \in Loading, pc' = "enqueue",
           UNCHANGED <<site, graph, seeds, found>>, \A p \in S : Excused(p) \/ p = url => Excused(p)'
    PROVE  Covered(S)'
<1>1. Queued' = Queued /\ Taken' = Taken
  BY DEF Queued, Taken
<1>2. \A p : Pending(p) => Pending(p)' \/ p = url
  BY <1>1 DEF Pending
<1>3. \A p : Followed(p, S) => Followed(p, S)'
  BY <1>1, FollowedStays
<1>4. \A p \in S : Pending(p) \/ Excused(p) \/ Followed(p, S)
  BY DEF Covered
<1>5. \A p \in S : Pending(p)' \/ Excused(p)' \/ Followed(p, S)'
  BY <1>2, <1>3, <1>4
<1>6. graph'.seen \subseteq S \cup Queued' /\ pc' \notin Loading \cup {"turn"}
  BY <1>1 DEF Covered, Loading
<1> QED
  BY <1>5, <1>6 DEF Covered

LEMMA LoadCovers ==
    ASSUME Sound, NEW S \in SUBSET Pages, Covered(S), LoadCached \/ Download \/ WriteSnapshot \/ Record,
           pc' # "raised"
    PROVE  SomeCovered'
<1>0. pc \in Loading /\ url \in Pages /\ site.final[url] \in Pages
  BY TypedFacts, SiteFacts DEF Sound, Typed, LoadCached, Download, WriteSnapshot, Record, Loading
<1>1. CASE LoadCached
  <2>1. /\ UNCHANGED <<site, table, graph, seeds, found, url, visited>> /\ pc = "load"
        /\ pc' = IF file[row[url].snap] = "empty" THEN "enqueue" ELSE "parse"
        /\ row[url].snap # NoPage
    BY <1>1 DEF LoadCached, Fails, IsCached
  <2>2. row[url].snap = site.final[url]
    BY <1>0, <2>1 DEF Sound, RowsSound
  <2>3. \A p \in S : Excused(p) => Excused(p)'
    BY <2>1 DEF Excused, Cut, table
  <2>4. CASE pc' = "parse"
    BY <1>0, <2>1, <2>3, <2>4, LoadingStays DEF Loading, SomeCovered
  <2>5. CASE pc' = "enqueue"
    <3>1. \A p \in S : Excused(p) \/ p = url => Excused(p)'
      BY <2>1, <2>2, <2>3, <2>5 DEF Excused, Cut, table
    <3> QED
      BY <1>0, <2>1, <2>5, <3>1, LeftStays DEF SomeCovered
  <2> QED
    BY <2>1, <2>4, <2>5
<1>2. CASE Download
  <2>1. CASE Keeps(url)
    <3>1. /\ UNCHANGED <<site, file, graph, seeds, found>> /\ pc' = "enqueue" /\ pc = "load"
          /\ row' = [row EXCEPT ![url].state = "failed"]
      BY <1>2, <2>1 DEF Keeps, Download
    <3>2. row'[url].state = "failed" /\ \A p \in Pages \ {url} : row'[p] = row[p]
      BY <1>0, <3>1, Failing DEF Sound
    <3>3. \A p \in S : Excused(p) => Excused(p)'
      BY <3>1, <3>2 DEF Excused, Cut
    <3>4. \A p \in S : Excused(p) \/ p = url => Excused(p)'
      BY <3>2, <3>3 DEF Excused
    <3> QED
      BY <1>0, <3>1, <3>4, LeftStays DEF SomeCovered
  <2>2. CASE ~Keeps(url)
    <3> DEFINE f == site.final[url]
    <3>1. /\ UNCHANGED <<site, row, graph, seeds, found, url, visited>> /\ pc = "load"
          /\ pc' = IF file[f] = "none" THEN "write" ELSE "record"
          /\ file' = IF file[f] = "none" THEN [file EXCEPT ![f] = "empty"] ELSE file
      BY <1>2, <2>2 DEF Download, Fails
    <3>2. ASSUME NEW p \in S, Excused(p) PROVE Excused(p)'
      <4>1. site.final[p] \in Pages /\ file \in [Pages -> {"none", "empty", "part", "whole"}]
        BY SiteFacts DEF Sound, Typed
      <4> QED
        BY <1>0, <3>1, <3>2, <4>1 DEF Excused, Cut
    <3>3. pc' \in Loading
      BY <3>1 DEF Loading
    <3> QED
      BY <1>0, <3>1, <3>2, <3>3, LoadingStays DEF SomeCovered
  <2> QED
    BY <2>1, <2>2
<1>3. CASE WriteSnapshot
  <2> DEFINE f == site.final[url]
  <2>1. /\ UNCHANGED <<site, row, graph, seeds, found, url, visited>> /\ pc = "write"
        /\ pc' \in {"write", "record"}
        /\ file' = [file EXCEPT ![f] = "part"] \/ file' = [file EXCEPT ![f] = "whole"]
    BY <1>3 DEF WriteSnapshot, Fails
  <2>2. ASSUME NEW p \in S, Excused(p) PROVE Excused(p)'
    <3>1. site.final[p] \in Pages /\ file \in [Pages -> {"none", "empty", "part", "whole"}]
      BY SiteFacts DEF Sound, Typed
    <3> QED
      BY <1>0, <2>1, <2>2, <3>1 DEF Excused, Cut
  <2>3. pc' \in Loading
    BY <2>1 DEF Loading
  <2> QED
    BY <1>0, <2>1, <2>2, <2>3, LoadingStays DEF SomeCovered
<1>4. CASE Record
  <2>1. /\ UNCHANGED <<site, file, graph, seeds, found, url, visited>> /\ pc = "record" /\ pc' = "parse"
        /\ row' = [row EXCEPT ![url].state = "fetched", ![url].snap = site.final[url]]
    BY <1>4 DEF Record
  <2>2. \A p \in Pages \ {url} : row'[p] = row[p]
    BY <1>0, <2>1, Recording DEF Sound
  <2>3. \A p \in S : Excused(p) => Pending(p)' \/ Excused(p)'
    BY <2>1, <2>2 DEF Excused, Cut, Pending, Loading
  <2> QED
    BY <1>0, <2>1, <2>3, LoadingStays DEF Loading, SomeCovered
<1> QED
  BY <1>1, <1>2, <1>3, <1>4

LEMMA TurnCovers ==
    ASSUME Sound, NEW S \in SUBSET Pages, Covered(S), Turn, ~graph'.capped
    PROVE  SomeCovered'
<1>1. UNCHANGED <<site, row, file, seeds, found, url>> /\ pc = "turn"
  BY DEF Turn, table
<1>2. CASE url \in visited \/ Cardinality(visited) = MaxTurns
  <2>1. pc' = "enqueue" /\ visited' = visited /\ graph' = [graph EXCEPT !.capped = graph.capped \/ url \notin visited]
    BY <1>2 DEF Turn
  <2>2. url \in visited /\ graph'.queue = graph.queue /\ graph'.seen = graph.seen
    BY <2>1 DEF Sound, Typed, Graphs
  <2>3. Queued' = Queued /\ Taken' = Taken
    BY <1>1, <2>2 DEF Queued, Taken
  <2>4. ASSUME NEW p \in S PROVE Pending(p)' \/ Excused(p)' \/ Followed(p, S)'
    <3>1. Pending(p) => Pending(p)'
      BY <1>1, <2>2, <2>3 DEF Pending, Loading
    <3>2. Excused(p) => Excused(p)'
      BY <1>1, <2>1 DEF Excused, Cut
    <3>3. Followed(p, S) => Followed(p, S)'
      BY <1>1, <2>3, FollowedStays
    <3> QED
      BY <3>1, <3>2, <3>3 DEF Covered
  <2>5. Covered(S)'
    BY <2>1, <2>2, <2>3, <2>4 DEF Covered, Loading
  <2> QED
    BY <2>5 DEF SomeCovered
<1>3. CASE ~(url \in visited \/ Cardinality(visited) = MaxTurns)
  <2>1. pc' = "load" /\ visited' = visited \cup {url} /\ graph' = graph
    BY <1>3 DEF Turn
  <2>2. Queued' = Queued /\ Taken' = Taken
    BY <1>1, <2>1 DEF Queued, Taken
  <2>3. \A p : Pending(p) => Pending(p)'
    BY <1>1, <2>1, <2>2 DEF Pending, Loading
  <2>4. \A p : Excused(p) => Excused(p)'
    BY <1>1, <2>1 DEF Excused, Cut
  <2>5. \A p : Followed(p, S) => Followed(p, S)'
    BY <1>1, <2>2, FollowedStays
  <2>6. Pending(url)'
    BY <1>1, <2>1 DEF Pending, Loading
  <2>7. Covered(S)'
    BY <1>1, <2>1, <2>2, <2>3, <2>4, <2>5, <2>6 DEF Covered
  <2> QED
    BY <2>7 DEF SomeCovered
<1> QED
  BY <1>2, <1>3

LEMMA NoLinks == LinksOf(<<>>) = {} /\ PagesOf(<<>>) = {}
BY DEF LinksOf, PagesOf, ToSet

\* A node that is taken from the queue is covered as a page whose turn is to come.
LEMMA PopCovers ==
    ASSUME Sound, NEW S \in SUBSET Pages, Covered(S), found = <<>>, Pop
    PROVE  SomeCovered'
<1>0. PICK n : n = Head(graph.queue)
  OBVIOUS
<1> DEFINE T == S \cup {n.page}
<1>1. n \in Queueable /\ Tail(graph.queue) \in Seq(Queueable) /\ Queued = PagesOf(Tail(graph.queue)) \cup {n.page}
  BY <1>0, TypedFacts, TakeFromQueue DEF Pop, Sound, Queued
<1>2. n.page \in Pages /\ n.type \in SourceTypes /\ n.depth \in Nat
  BY <1>1 DEF Queueable
<1>3. /\ AddSource(n.page, n.type, n.depth) /\ UNCHANGED <<site, file, seeds>> /\ url' = n.page
      /\ visited' = {} /\ found' = <<>> /\ pc' = "turn" /\ pc = "pop"
  BY <1>0 DEF Pop
<1>4. graph'.queue = Tail(graph.queue) /\ graph'.seen = graph.seen
  BY DEF Pop, Sound, Typed, Graphs
<1>5. Queued = Queued' \cup {n.page} /\ Pending(n.page)'
  BY <1>1, <1>3, <1>4 DEF Queued, Pending
<1>6. \A p \in Pages \ {n.page} : row'[p] = row[p]
  BY <1>2, <1>3, AddSourceOp DEF Sound
<1>7. \A p \in S : Pending(p) => Pending(p)'
  BY <1>3, <1>5 DEF Pending, Loading
<1>8. \A p \in S : Excused(p) => Pending(p)' \/ Excused(p)'
  BY <1>3, <1>5, <1>6 DEF Excused, Cut
<1>9. Taken' = Taken
  BY <1>3, <1>4 DEF Taken
<1>10. \A p \in S : Followed(p, S) => Followed(p, T)'
  BY <1>3, <1>9, FollowedStays
<1>11. \A p \in S : Pending(p) \/ Excused(p) \/ Followed(p, S)
  BY DEF Covered
<1>12. \A p \in T : Pending(p)' \/ Excused(p)' \/ Followed(p, T)'
  BY <1>5, <1>7, <1>8, <1>10, <1>11
<1>13. graph'.seen \subseteq T \cup Queued' /\ url' \in T /\ visited' = {}
  BY <1>3, <1>4, <1>5 DEF Covered
<1>14. Covered(T)'
  BY <1>12, <1>13 DEF Covered
<1>15. T \in SUBSET Pages
  BY <1>2
<1> QED
  BY <1>14, <1>15 DEF SomeCovered

\* A link that is taken is queued; one that is not is known, not official, or meets a limit.
LEMMA FoundCovers ==
    ASSUME Sound, NEW S \in SUBSET Pages, Covered(S), EnqueueFound, Open(graph')
    PROVE  SomeCovered'
<1>0. PICK p, type, depth : p = Head(found)[1] /\ type = Head(found)[2] /\ depth = node.depth + 1
  OBVIOUS
<1>1. p \in Pages /\ type \in SourceTypes /\ depth \in Nat /\ LinksOf(found) = LinksOf(found') \cup {p}
  BY <1>0, TakeFromFound DEF Sound, Typed, EnqueueFound
<1>2. /\ UNCHANGED <<site, file, pc, seeds>> /\ pc = "enqueue" /\ graph' = Enqueue(graph, p, type, depth)
      /\ IF Accepts(graph, p, depth) THEN AddSource(p, type, depth) ELSE row' = row
  BY <1>0 DEF EnqueueFound
<1>3. /\ p \in Official => p \in graph'.seen
      /\ Accepts(graph, p, depth) => graph'.seen = graph.seen \cup {p} /\ Queued' = Queued \cup {p}
      /\ ~Accepts(graph, p, depth) => graph'.seen = graph.seen /\ Queued' = Queued
  <2>1. graph \in Graphs
    BY DEF Sound, Typed
  <2>2. /\ Open(graph') => Open(graph) /\ (p \in Official => p \in graph'.seen)
        /\ Accepts(graph, p, depth) =>
              graph'.seen = graph.seen \cup {p} /\ PagesOf(graph'.queue) = PagesOf(graph.queue) \cup {p}
        /\ ~Accepts(graph, p, depth) => graph'.seen = graph.seen /\ graph'.queue = graph.queue
    <3>1. graph' = Enqueue(graph, p, type, depth) /\ p \in Pages /\ type \in SourceTypes /\ depth \in Nat
      BY <1>1, <1>2
    <3> QED
      BY ONLY <2>1, <3>1, EnqueueOp
  <2> QED
    BY <2>2 DEF Queued
<1>4. Official \cap Taken \subseteq Taken'
  BY <1>1, <1>3 DEF Taken
<1>5. graph'.seen \subseteq S \cup Queued'
  BY <1>3 DEF Covered
<1>6. \A q \in S : row'[q] = row[q] \/ q \in Queued'
  BY <1>1, <1>2, <1>3, AddSourceOp DEF Sound
<1>7. pc \notin Loading \cup {"turn"} /\ pc' \notin Loading \cup {"turn"} /\ Queued \subseteq Queued'
  BY <1>2, <1>3 DEF Loading
<1>8. Covered(S)'
  BY <1>2, <1>4, <1>5, <1>6, <1>7, CoveredStays
<1> QED
  BY <1>8 DEF SomeCovered

\* A page that was read is covered as such, and its next page is covered with it.
LEMMA ParseCovers ==
    ASSUME Sound, NEW S \in SUBSET Pages, Covered(S), Parse
    PROVE  SomeCovered'
<1>0. PICK u, f, next : u = url /\ f = site.final[u] /\ next = site.next[f]
  OBVIOUS
<1> DEFINE T == S \cup (Official \cap {next})
<1>1. pc = "parse" /\ u \in S /\ f \in Pages /\ next \in Pages \cup {NoPage} /\ visited \subseteq S
  BY <1>0, SiteFacts DEF Parse, Covered, Loading, Sound
<1>2. /\ UNCHANGED <<site, file, graph, visited>> /\ seeds' = seeds \cup site.listed[f]
      /\ found' = found \o site.links[f] /\ site.links[f] \in Seq(Pages \X RootTypes)
      /\ pc' \in {"turn", "enqueue"}
      /\ IF next \in Official THEN AddSource(next, "directory_page", 0) /\ url' = next /\ pc' = "turn"
                              ELSE row' = row /\ pc' = "enqueue"
  BY <1>0, <1>1, SiteFacts DEF Parse, Sound
<1>3. LinksOf(found) \cup LinksOf(site.links[f]) \subseteq LinksOf(found')
  BY <1>2, JoinFound DEF Sound, Typed
<1>4. Taken \subseteq Taken' /\ LinksOf(site.links[f]) \subseteq Taken' /\ Queued' = Queued
  BY <1>2, <1>3 DEF Taken, Queued
<1>5. Followed(u, T)'
  BY <1>0, <1>2, <1>4 DEF Followed, Linked
<1>6. \A p \in S : Excused(p) => Excused(p)' \/ (p = next /\ next \in Official)
  <2>1. ASSUME NEW p \in S, p # next \/ next \notin Official PROVE row'[p] = row[p]
    <3>1. next \in Official => next \in Pages /\ "directory_page" \in SourceTypes /\ 0 \in Nat
      BY DEF SourceTypes
    <3> QED
      BY <1>2, <2>1, <3>1, AddSourceOp DEF Sound
  <2> QED
    BY <1>1, <1>2, <2>1 DEF Excused, Cut
<1>7. \A p \in S : Pending(p) => Pending(p)' \/ p = u
  BY <1>0, <1>1, <1>2, <1>4 DEF Pending, Loading
<1>8. \A p \in S : Followed(p, S) => Followed(p, T)'
  BY <1>2, <1>4, FollowedStays
<1>9. \A p \in visited : Pending(p)' \/ Followed(p, T)'
  <2>1. \A p \in visited : p \in S /\ (Pending(p) \/ Followed(p, S))
    BY <1>1 DEF Covered, Loading
  <2> QED
    BY <1>5, <1>7, <1>8, <2>1
<1>10. next \in Official => Pending(next)' \/ Followed(next, T)'
  <2>1. next \in Official /\ next \notin visited => Pending(next)'
    BY <1>2 DEF Pending
  <2> QED
    BY <1>9, <2>1
<1>11. \A p \in T : Pending(p)' \/ Excused(p)' \/ Followed(p, T)'
  <2>1. \A p \in S : Pending(p) \/ Excused(p) \/ Followed(p, S)
    BY DEF Covered
  <2> QED
    BY <1>5, <1>6, <1>7, <1>8, <1>10, <2>1
<1>12. graph'.seen \subseteq T \cup Queued' /\ visited' \subseteq T /\ (pc' = "turn" => url' \in T)
  BY <1>1, <1>2, <1>4 DEF Covered
<1>13. Covered(T)'
  <2>1. pc' \notin Loading
    BY <1>2 DEF Loading
  <2> QED
    BY <1>2, <1>9, <1>11, <1>12, <2>1 DEF Covered
<1>14. T \in SUBSET Pages
  OBVIOUS
<1> QED
  BY <1>13, <1>14 DEF SomeCovered

\* A page read as a profile may have been read as a directory: its row no longer tells.
LEMMA ProfileCovers ==
    ASSUME Sound, NEW S \in SUBSET Pages, Covered(S), found = <<>>, NEW q \in People, ReadProfile(q),
           pc' # "raised"
    PROVE  SomeCovered'
<1>0. PICK asked, p : asked = site.profile[q] /\ p = site.final[asked]
  OBVIOUS
<1>1. asked \in Pages /\ p \in Pages
  BY <1>0, SiteFacts DEF ReadProfile, Sound, Typed, Site
<1>2. /\ UNCHANGED <<site, file, graph, seeds, url, visited>> /\ pc = "profile" /\ pc' \in {"profile", "enqueue"}
      /\ RecordSource(p, "person_profile", 1, "fetched", SnapOf(asked))
  BY <1>0 DEF ReadProfile
<1>3. row'[p].type = "person_profile" /\ \A r \in Pages \ {p} : row'[r] = row[r]
  <2>1. SnapOf(asked) \in Pages \cup {NoPage} /\ 1 \in Nat /\ "person_profile" \in SourceTypes
    BY <1>1, SnapTyped DEF Sound, SourceTypes
  <2> QED
    BY <1>1, <1>2, <2>1, RecordSourceOp DEF Sound
<1>4. Queued' = Queued /\ Taken \subseteq Taken'
  BY <1>2, NoLinks DEF Queued, Taken
<1>5. graph'.seen \subseteq S \cup Queued'
  BY <1>2, <1>4 DEF Covered
<1>6. pc \notin Loading \cup {"turn"} /\ pc' \notin Loading \cup {"turn"}
  BY <1>2 DEF Loading
<1>7. Covered(S)'
  BY <1>2, <1>3, <1>4, <1>5, <1>6, CoveredStays
<1> QED
  BY <1>7 DEF SomeCovered

\* The steps after the walk.
Going ==
    \/ Extract \/ PassPerson \/ (\E q \in People : ReadPerson(q) \/ Search(q))
    \/ (\E h \in Pages : MissHint(h) \/ FindHint(h)) \/ ReadFound
    \/ FetchMails \/ (\E p \in Pages : RecordMail(p)) \/ NextPerson

LEMMA LaterStays == Going => pc' \in Later \cup {"raised"}
BY DEF Going, Extract, PassPerson, ReadPerson, Search, MissHint, FindHint, ReadFound, FetchMails,
       RecordMail, NextPerson, Later

LEMMA RestStep == Sound /\ AtRest /\ [WalkNext]_walkVars => AtRest'
<1> SUFFICES ASSUME Sound, AtRest, [WalkNext]_walkVars PROVE AtRest'
  OBVIOUS
<1>1. CASE StartRun
  <2>1. pc' = "roots" /\ graph' = NoGraph
    BY <1>1 DEF StartRun
  <2> QED
    BY <2>1 DEF AtRest, NoGraph
<1>2. CASE EnqueueRoot
  <2>0. PICK p, type, depth : p = Head(found)[1] /\ type = row[p].type /\ depth = row[p].depth
    OBVIOUS
  <2>1. p \in Pages /\ type \in SourceTypes /\ depth \in Nat
    BY <1>2, <2>0, TakeFromFound DEF EnqueueRoot, Sound, Typed, Rows
  <2>2. pc = "roots" /\ pc' = "roots" /\ (graph' = Enqueue(graph, p, type, depth) \/ graph' = graph)
    BY <1>2, <2>0 DEF EnqueueRoot
  <2>3. graph \in Graphs /\ graph.seen \subseteq Queued
    BY <2>2 DEF Sound, Typed, AtRest
  <2>4. graph'.seen \subseteq Queued'
    <3>1. CASE graph' = graph
      BY <2>3, <3>1 DEF Queued
    <3>2. ASSUME graph' = Enqueue(graph, p, type, depth) PROVE graph'.seen \subseteq PagesOf(graph'.queue)
      <4>1. \A h : h = Enqueue(graph, p, type, depth) =>
               \/ h.seen = graph.seen \cup {p} /\ PagesOf(h.queue) = PagesOf(graph.queue) \cup {p}
               \/ h.seen = graph.seen /\ h.queue = graph.queue
        BY ONLY <2>1, <2>3, EnqueueOp
      <4>2. \/ graph'.seen = graph.seen \cup {p} /\ PagesOf(graph'.queue) = PagesOf(graph.queue) \cup {p}
            \/ graph'.seen = graph.seen /\ graph'.queue = graph.queue
        BY ONLY <3>2, <4>1
      <4>3. graph.seen \subseteq PagesOf(graph.queue)
        BY <2>3 DEF Queued
      <4> QED
        BY ONLY <4>2, <4>3
    <3> QED
      BY <2>2, <3>1, <3>2 DEF Queued
  <2> QED
    BY <2>2, <2>4 DEF AtRest
<1>3. CASE RootsEnqueued \/ Enqueued \/ PassProfile \/ ProfilesEnd
  BY <1>3 DEF RootsEnqueued, Enqueued, PassProfile, ProfilesEnd, AtRest
<1>4. CASE Pop \/ EnqueueFound \/ Turn \/ LoadCached \/ Download \/ WriteSnapshot \/ Record \/ Parse
  <2>1. pc' \notin {"roots", "pop", "profile", "extract"}
    BY <1>4 DEF Pop, EnqueueFound, Turn, LoadCached, Download, WriteSnapshot, Record, Parse, Keeps, Fails
  <2> QED
    BY <2>1 DEF AtRest
<1>5. CASE WalkedOut
  <2>1. pc = "pop" /\ graph.queue = <<>> /\ graph' = graph /\ found' = found /\ pc' # "roots"
    BY <1>5 DEF WalkedOut
  <2> QED
    BY <2>1 DEF AtRest
<1>6. ASSUME NEW q \in People, ReadProfile(q) PROVE AtRest'
  <2>1. pc = "profile" /\ (pc' \in {"raised", "enqueue"} \/ (pc' = pc /\ found' = found))
    BY <1>6 DEF ReadProfile
  <2> QED
    BY <2>1 DEF AtRest
<1>7. CASE Forget
  BY <1>7 DEF Forget, AtRest
<1>8. CASE UNCHANGED walkVars
  BY <1>8 DEF walkVars, AtRest, Queued
<1>9. CASE Going
  BY <1>9, LaterStays DEF AtRest, Later
<1> QED
  BY <1>1, <1>2, <1>3, <1>4, <1>5, <1>6, <1>7, <1>8, <1>9 DEF Going, WalkNext, WalkStep, EndRun, CancelRun, CrashRun

LEMMA CoverStep == Sound /\ WalkCovered /\ [WalkNext]_walkVars => (Walking => SomeCovered)'
<1> SUFFICES ASSUME Sound, WalkCovered, [WalkNext]_walkVars, Walking' PROVE SomeCovered'
  OBVIOUS
<1>1. CASE StartRun \/ EnqueueRoot \/ Forget
  BY <1>1 DEF StartRun, EnqueueRoot, Forget, Walking
<1>2. CASE RootsEnqueued
  <2>1. /\ UNCHANGED <<graph>> /\ pc = "roots" /\ pc' = "pop"
    BY <1>2 DEF RootsEnqueued
  <2>2. graph.seen \subseteq Queued
    BY <2>1 DEF WalkCovered, AtRest
  <2>3. Covered({})'
    BY <2>1, <2>2 DEF Covered, Queued, Loading
  <2> QED
    BY <2>3 DEF SomeCovered
<1>3. CASE EnqueueFound
  <2>1. Walking
    <3>1. PICK p, type, depth : p = Head(found)[1] /\ type = Head(found)[2] /\ depth = node.depth + 1
      OBVIOUS
    <3>2. p \in Pages /\ type \in SourceTypes /\ depth \in Nat /\ graph \in Graphs
      BY <1>3, <3>1, TakeFromFound DEF Sound, Typed, EnqueueFound
    <3>3. graph' = Enqueue(graph, p, type, depth) /\ pc = "enqueue"
      BY <1>3, <3>1 DEF EnqueueFound
    <3>4. graph'.capped = graph.capped /\ (Open(graph') => Open(graph))
      BY ONLY <3>2, <3>3, EnqueueOp
    <3> QED
      BY <3>3, <3>4 DEF Walking, Later
  <2>2. PICK S \in SUBSET Pages : Covered(S)
    BY <2>1 DEF WalkCovered, SomeCovered
  <2> QED
    BY <1>3, <2>2, FoundCovers DEF Walking
<1>4. ASSUME pc \notin {"idle", "roots", "raised"} \cup Later, Open(graph') => Open(graph), ~graph'.capped => ~graph.capped
      PROVE  \E S \in SUBSET Pages : Covered(S)
  BY <1>4 DEF Walking, WalkCovered, SomeCovered
<1>5. CASE Pop
  <2>1. pc = "pop" /\ Open(graph') = Open(graph) /\ graph'.capped = graph.capped
    BY <1>5 DEF Pop, Sound, Typed, Graphs, Open
  <2>2. PICK S \in SUBSET Pages : Covered(S)
    BY <1>4, <2>1 DEF Later
  <2> QED
    BY <1>5, <2>1, <2>2, PopCovers DEF WalkCovered, AtRest
<1>6. CASE Turn
  <2>1. pc = "turn" /\ Open(graph') = Open(graph) /\ (~graph'.capped => ~graph.capped)
    BY <1>6 DEF Turn, Sound, Typed, Graphs, Open
  <2>2. PICK S \in SUBSET Pages : Covered(S)
    BY <1>4, <2>1 DEF Later
  <2> QED
    BY <1>6, <2>2, TurnCovers DEF Walking
<1>7. ASSUME UNCHANGED graph, pc \notin {"idle", "roots", "raised"} \cup Later PROVE \E S \in SUBSET Pages : Covered(S)
  BY <1>4, <1>7
<1>8. CASE LoadCached \/ Download \/ WriteSnapshot \/ Record
  <2>1. graph' = graph /\ pc \in {"load", "write", "record"} /\ pc' # "raised"
    BY <1>8 DEF LoadCached, Download, WriteSnapshot, Record, Keeps, Fails, Walking
  <2>2. PICK S \in SUBSET Pages : Covered(S)
    BY <1>7, <2>1 DEF Later
  <2> QED
    BY <1>8, <2>1, <2>2, LoadCovers
<1>9. CASE Parse
  <2>1. graph' = graph /\ pc = "parse"
    BY <1>9 DEF Parse
  <2>2. PICK S \in SUBSET Pages : Covered(S)
    BY <1>7, <2>1 DEF Later
  <2> QED
    BY <1>9, <2>2, ParseCovers
<1>10. ASSUME NEW q \in People, ReadProfile(q) PROVE SomeCovered'
  <2>1. graph' = graph /\ pc = "profile" /\ pc' # "raised" /\ found = <<>>
    BY <1>10 DEF ReadProfile, Walking, WalkCovered, AtRest
  <2>2. PICK S \in SUBSET Pages : Covered(S)
    BY <1>7, <2>1 DEF Later
  <2> QED
    BY <1>10, <2>1, <2>2, ProfileCovers
<1>11. CASE Enqueued \/ WalkedOut \/ PassProfile \/ ProfilesEnd
  <2>1. /\ UNCHANGED <<site, file, graph, found, seeds>> /\ pc \in {"enqueue", "pop", "profile"}
        /\ pc' \in {"pop", "profile", "extract", "idle"}
    BY <1>11 DEF Enqueued, WalkedOut, PassProfile, ProfilesEnd, table
  <2>2. \A p \in Pages : row'[p].state = row[p].state /\ row'[p].type = row[p].type
    <3>1. row' = row \/ (graph.last # NoPage /\ row' = [row EXCEPT ![graph.last].stop = TRUE])
      BY <1>11 DEF Enqueued, WalkedOut, PassProfile, ProfilesEnd, table
    <3> QED
      BY <3>1, Stopping, GraphFacts DEF Sound, Typed
  <2>3. PICK S \in SUBSET Pages : Covered(S)
    BY <1>7, <2>1 DEF Later
  <2>4. Queued' = Queued /\ Taken' = Taken /\ graph'.seen \subseteq S \cup Queued
    BY <2>1, <2>3 DEF Queued, Taken, Covered
  <2>5. pc \notin Loading \cup {"turn"} /\ pc' \notin Loading \cup {"turn"}
    BY <2>1 DEF Loading
  <2>6. Covered(S)'
    BY <2>1, <2>2, <2>3, <2>4, <2>5, CoveredStays
  <2> QED
    BY <2>6 DEF SomeCovered
<1>12. CASE UNCHANGED walkVars
  <2>1. Walking
    BY <1>12 DEF walkVars, Walking
  <2> QED
    BY <1>12, <2>1 DEF WalkCovered, SomeCovered, walkVars, Covered, Queued, Pending, Excused, Cut, Followed, Linked, Taken
<1>13. CASE Going
  BY <1>13, LaterStays DEF Walking
<1> QED
  BY <1>1, <1>2, <1>3, <1>5, <1>6, <1>8, <1>9, <1>10, <1>11, <1>12, <1>13 DEF Going, WalkNext, WalkStep, EndRun, CancelRun, CrashRun

\* At the end of the walk the covered pages are closed under where pages lead, so that they
\* hold every page of Reach.
LEMMA CoveredAtEnd ==
    ASSUME Sound, AtRest, pc = "extract", NEW S \in SUBSET Pages, Covered(S), NEW p \in Reach
    PROVE  Missed(p) \/ site.listed[site.final[p]] \subseteq seeds
<1>1. graph.queue = <<>> /\ found = <<>>
  BY DEF AtRest
<1>2. Queued = {} /\ Taken = graph.seen
  BY <1>1, NoLinks DEF Queued, Taken
<1>3. graph.seen \subseteq S
  BY <1>2 DEF Covered
<1>4. ASSUME NEW q \in S, ~Missed(q) PROVE Followed(q, S)
  <2>1. ~Pending(q)
    BY <1>2 DEF Pending, Loading
  <2>2. ~Excused(q)
    BY <1>4 DEF Excused, Cut, Missed
  <2> QED
    BY <2>1, <2>2 DEF Covered
<1>5. Leads({q \in S : ~Missed(q)}) \subseteq S
  <2> SUFFICES ASSUME NEW r \in Leads({q \in S : ~Missed(q)}) PROVE r \in S
    OBVIOUS
  <2>1. r \in Official /\ r \in UNION {LeadsFrom(site.final[q]) : q \in {q \in S : ~Missed(q)}}
    BY DEF Leads
  <2>2. PICK q \in S : ~Missed(q) /\ r \in LeadsFrom(site.final[q])
    BY <2>1
  <2>3. Followed(q, S)
    BY <1>4, <2>2
  <2>4. CASE r = site.next[site.final[q]]
    BY <2>1, <2>3, <2>4 DEF Followed
  <2>5. CASE r \in {site.links[site.final[q]][i][1] : i \in DOMAIN site.links[site.final[q]]}
    <3>1. r \in Linked(q)
      BY <2>5 DEF Linked, LinksOf, ToSet
    <3> QED
      BY <1>2, <1>3, <2>1, <2>3, <3>1 DEF Followed
  <2> QED
    BY <2>2, <2>4, <2>5 DEF LeadsFrom
<1>6. p \in S
  BY <1>3, <1>5 DEF Reach
<1> QED
  BY <1>4, <1>6 DEF Followed

WalkInv == Sound /\ WalkCovered

\* Through any failure and crash, the pages a walk was led to are covered until a limit is met.
THEOREM WalkStaysCovered == WalkSpec => []WalkInv
<1>1. WalkInit => WalkInv
  BY InitSound DEF WalkInit, WalkInv, WalkCovered, AtRest, Walking
<1>2. WalkInv /\ [WalkNext]_walkVars => WalkInv'
  <2>1. Sound /\ [WalkNext]_walkVars => Sound'
    BY TypedStep, SoundStep, DownloadedStep DEF Sound
  <2> QED
    BY <2>1, RestStep, CoverStep DEF WalkInv, WalkCovered
<1> QED
  BY <1>1, <1>2, PTL DEF WalkSpec

\* A walk that meets no limit misses nobody in silence: whoever is not known is on a page
\* that failed, came back empty, or was last read as a profile.
THEOREM IncompleteIsExplainedHolds == WalkSpec => []IncompleteIsExplained
<1>1. WalkInv => IncompleteIsExplained
  <2> SUFFICES ASSUME WalkInv, pc = "extract", Open(graph), ~graph.capped, NEW p \in Reach
               PROVE  Missed(p) \/ site.listed[site.final[p]] \subseteq seeds
    BY DEF IncompleteIsExplained, Open
  <2>1. PICK S \in SUBSET Pages : Covered(S)
    BY DEF WalkInv, WalkCovered, Walking, SomeCovered, Later
  <2> QED
    BY <2>1, CoveredAtEnd DEF WalkInv, WalkCovered
<1> QED
  BY WalkStaysCovered, <1>1, PTL

=============================================================================
