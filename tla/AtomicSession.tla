---------------------------- MODULE AtomicSession ----------------------------
(***************************************************************************)
(* What crawler/session_store.py promises for the browser sessions of the  *)
(* sites: one operation at a time, each of which takes effect on a site in *)
(* one step or, when it fails or the process ends, not at all.  A session  *)
(* leaves the store because it was cleared, because it expired, or because *)
(* its files were damaged from outside.                                    *)
(***************************************************************************)
EXTENDS Integers

CONSTANTS Hosts, Data, Times, Lifetime, None, Error

VARIABLES
    session,    \* of each site: its data and when it was saved, or None
    asked,      \* the operation in progress
    reply       \* what the last operation returned

NoRequest == [kind |-> "none", host |-> None, data |-> None, at |-> 0]

Requests ==
         [kind : {"save"}, host : Hosts, data : Data, at : Times]
    \cup [kind : {"load", "clear"}, host : Hosts, data : {None}, at : Times]
    \cup [kind : {"sweep", "clear_all"}, host : {None}, data : {None}, at : Times]

Init ==
    /\ session = [h \in Hosts |-> None]
    /\ asked = NoRequest
    /\ reply = None

Expired(h) == session[h] # None /\ asked.at >= session[h].saved + Lifetime

Asks(request) ==
    /\ asked = NoRequest
    /\ asked' = request
    /\ UNCHANGED <<session, reply>>

Saves ==
    /\ asked.kind = "save"
    /\ session' = [session EXCEPT ![asked.host] = [data |-> asked.data, saved |-> asked.at]]
    /\ UNCHANGED <<asked, reply>>

Removes(h) ==
    /\ \/ asked.kind = "clear" /\ asked.host = h
       \/ asked.kind = "clear_all"
       \/ asked.kind = "load" /\ asked.host = h /\ Expired(h)
       \/ asked.kind = "sweep" /\ Expired(h)
    /\ session' = [session EXCEPT ![h] = None]
    /\ UNCHANGED <<asked, reply>>

\* An operation that ends without an error has done what it was asked for, and a
\* load answers with the session's data.
Ends ==
    /\ asked.kind = "save" => session[asked.host] = [data |-> asked.data, saved |-> asked.at]
    /\ asked.kind = "clear" => session[asked.host] = None
    /\ asked.kind = "clear_all" => \A h \in Hosts : session[h] = None
    /\ asked.kind = "sweep" => \A h \in Hosts : ~Expired(h)
    /\ asked.kind = "load" => ~Expired(asked.host)
    /\ reply' = IF asked.kind = "load" /\ session[asked.host] # None
                THEN session[asked.host].data ELSE None
    /\ asked' = NoRequest
    /\ UNCHANGED session

\* An operation that fails, and a process that ends in it.
GivesUp ==
    /\ asked' = NoRequest
    /\ reply' = Error
    /\ UNCHANGED session

Spoils(h) ==
    /\ session' = [session EXCEPT ![h] = None]
    /\ UNCHANGED <<asked, reply>>

Next ==
    \/ \E request \in Requests : Asks(request)
    \/ Saves \/ Ends \/ GivesUp
    \/ \E h \in Hosts : Removes(h)
    \/ \E h \in Hosts : Spoils(h)

Spec == Init /\ [][Next]_<<session, asked, reply>>
=============================================================================
