------------------------- MODULE MCCandidateEvidence -------------------------
(* Two people with Latin names, two whose names normalize_key leaves nothing of, a *)
(* laboratory; a directory, profiles, one of them moved to another page, a document *)
(* several people are linked to, one outside the school's domain.  The page of a    *)
(* group is linked from ann's card and names one of its members, bob.  chi's page   *)
(* shows one personal address, ef, which has no token of the name.                  *)
EXTENDS CandidateEvidence

CONSTANTS ann, bob, chi, dov, qlab, ea, es, ef, info, dir, ua, ub, ubnew, doc, off, ug

MCMatches == [e \in Emails |-> CASE e = ea -> {ann} [] e = es -> {ann, bob} [] OTHER -> {}]

Plain(url, names, emails) ==
    [final |-> url, names |-> names, emails |-> emails, titled |-> FALSE,
     records |-> {}, links |-> <<>>]
MCPageAt == [u \in Urls |->
    CASE u = ua  -> [Plain(ua, {ann}, {ea, info}) EXCEPT
                       !.titled = TRUE, !.records = {Show(ann, "allowed", ea)}]
      [] u \in {ub, ubnew} -> [Plain(ubnew, {chi}, {ef, info}) EXCEPT !.links = <<doc>>]
      [] u = doc -> Plain(doc, {ann, bob}, {ea, es})
      [] u = ug  -> [Plain(ug, {bob}, {}) EXCEPT !.records = {Show(bob, "allowed", NoEmail)}]
      [] u = off -> Plain(off, {bob}, {es})
      [] OTHER   -> Plain(dir, {}, {})]

Card(name, title, url, email) ==
    [name |-> name, title |-> title, url |-> url, email |-> email, dir |-> dir]
MCCards ==
    {Card(ann, "allowed", ua, ea), Card(ann, "none", NoUrl, es), Card(ann, "foreign", doc, NoEmail),
     Card(ann, "excluded", ua, NoEmail), Card(ann, "none", ug, ea),
     Card(bob, "allowed", doc, NoEmail), Card(bob, "allowed", ua, es),
     Card(bob, "foreign", NoUrl, es), Card(bob, "allowed", off, es),
     Card(chi, "allowed", ub, NoEmail), Card(chi, "allowed", NoUrl, NoEmail), Card(chi, "allowed", doc, es),
     Card(dov, "allowed", NoUrl, NoEmail), Card(dov, "foreign", ub, ef),
     Card(qlab, "none", doc, info)}
MCSome ==
    {Card(ann, "allowed", ua, ea), Card(bob, "foreign", NoUrl, es), Card(chi, "allowed", doc, es),
     Card(dov, "foreign", ub, ef)}
Visit(m, a, b, l) == [model |-> m, first |-> <<a, b>>, linked |-> l]
MCVisits ==
    {Visit(FALSE, a, b, l) : a, b \in MCCards, l \in {<<>>} \cup {<<c>> : c \in MCSome}}
    \cup {Visit(TRUE, a, b, <<>>) : a, b \in MCCards}
\* Two people whose cards link one document.
MCShared == {Visit(FALSE, Card(ann, "allowed", doc, NoEmail), Card(bob, "allowed", doc, NoEmail), <<>>)}

\* Whatever name and address, in doubt, of a title the policy does not have or in another
\* language, with somebody else's homepage or without quotes.
Answer(n, e) ==
    [name |-> n, email |-> e, title |-> "none", normal |-> "allowed", verified |-> TRUE,
     home |-> NoUrl, shown |-> {"email", "title"}]
MCAnswers ==
    UNION {{x, [x EXCEPT !.verified = FALSE, !.shown = {}], [x EXCEPT !.home = doc],
            [x EXCEPT !.title = "foreign", !.normal = "none"], [x EXCEPT !.normal = "outside"]} :
           x \in {Answer(n, e) : n \in {ann, chi}, e \in {NoEmail, ea, es}}}
===============================================================================
