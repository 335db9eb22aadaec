----------------------------- MODULE MCSourceWalk -----------------------------
(* Instances of SourceWalk for TLC: a directory of two pages, two units, two people. *)
EXTENDS SourceWalk, TLC
CONSTANTS r1, r2, u, v, f, x, ann, bob

Show(at, default) == [p \in Pages |-> IF p \in DOMAIN at THEN at[p] ELSE default]

Unit(p) == <<p, "research_unit">>

\* Two pages that lead to each other, a unit behind them, and links from it, from another
\* unit and from a profile.
MCSite(fromU, fromV, fromF, moved, bobs, hints, mails) ==
    [listed |-> Show(r1 :> {ann} @@ bobs :> {bob}, {}), next |-> Show(r1 :> r2 @@ r2 :> r1, NoPage),
     links |-> Show(r2 :> <<Unit(u), Unit(r1)>> @@ u :> fromU @@ v :> fromV @@ f :> fromF, <<>>),
     final |-> [p \in Pages |-> IF p \in DOMAIN moved THEN moved[p] ELSE p],
     profile |-> ann :> f @@ bob :> NoPage,
     hints |-> ann :> {} @@ bob :> hints, mails |-> Show(f :> mails, {})]

Stays == u :> u

\* Bob is found on a unit that is Ann's profile, on her profile's unit, behind a
\* redirect, behind a limit of the depth or of the pages, or on the unit that the profile is
\* redirected to.  Later he is searched for on his unit, behind a redirect to it, and on a
\* page that leaves the institution; a link of the profile is a page of the walk, or is
\* redirected to one.
MCSites ==
    {MCSite(<<Unit(f)>>, <<>>, <<>>, Stays, f, {f}, {}),
     MCSite(<<>>, <<>>, <<Unit(v)>>, Stays, v, {}, {v}),
     MCSite(<<>>, <<>>, <<>>, u :> v, v, {}, {u}),
     MCSite(<<Unit(v)>>, <<Unit(f)>>, <<>>, Stays, f, {}, {}),
     MCSite(<<Unit(r2), Unit(v)>>, <<>>, <<>>, v :> r2, v, {}, {v}),
     MCSite(<<>>, <<>>, <<>>, f :> u, u, {f}, {}),
     MCSite(<<>>, <<>>, <<>>, f :> x, u, {f, u}, {})}

=============================================================================
