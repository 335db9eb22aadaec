--------------------------- MODULE MCDirectoryPage ---------------------------
(* Pages of up to three nodes of any layout, and longer ones of links and of   *)
(* names that are headings.                                                    *)
EXTENDS DirectoryPage

CONSTANTS ann, bob, ea, eb, ua, ub

MCWidth == [n \in Names |-> IF n = ann THEN 1 ELSE 2]

H(level, says) == [kind |-> "heading", level |-> level, says |-> says]
P(name, title, url, email, marks) ==
    [kind |-> "entry", level |-> 0, name |-> name, title |-> title, url |-> url,
     email |-> email, marks |-> marks]
At(level, e) == [e EXCEPT !.level = level]

Headings == {H(1, "other"), H(2, "faculty"), H(2, "excluded"), H(2, "ruolo"), H(2, "chair"),
             H(2, "fulltime"), H(3, "neutral"), H(4, "professors"), H(5, "emeriti")}
Link == {"profile", "person"}
Links ==
    {P(ann, "academic", ua, ea, Link), P(bob, "academic", ub, NoEmail, Link),
     P(ann, "emeritus", ub, NoEmail, Link \cup {"hidden"}), P(bob, "honorific", ua, eb, {"person"})}
People == Links \cup
    {P(ann, "academic", ua, NoEmail, {"card", "profile", "person"}),
     P(bob, "academic", ua, eb, {"card", "profile", "person", "mail"}),
     P(bob, "foreign", ub, NoEmail, {"card", "person"}),
     P(bob, "foreign", ub, eb, {"card", "listed", "profile"}),
     P(bob, "academic", ub, NoEmail, {"card", "unnamed", "shared"}),
     P(ann, "emeritus", ua, NoEmail, {"tr"}), P(ann, "honorific", ua, ea, {"tr", "split"}),
     P(bob, "academic", ub, eb, {"business"}), P(bob, "none", ua, NoEmail, {"person", "shared"}),
     P(bob, "none", ub, NoEmail, {"query", "shared"}),
     P(ann, "none", ub, ea, {"card", "profile", "person", "mail"}),
     P(bob, "staff", ua, NoEmail, {"card", "profile"}),
     P(bob, "academic", ub, NoEmail, {"listed", "profile", "person"}),
     P(ann, "foreign", ua, NoEmail, {"row"}), P(ann, "academic", NoUrl, NoEmail, {"row", "duty"}),
     P(ann, "emeritus", ua, ea, {"strong", "person"}),
     P(bob, "academic", ub, NoEmail, {"strong", "shared"}),
     P(ann, "none", ua, ea, {"query"}), P(bob, "none", ua, NoEmail, {"subpage", "person"}),
     P(ann, "none", ua, NoEmail, {"subpage", "person"}),
     P(bob, "none", ub, eb, {"titled"}), P(ann, "none", ua, NoEmail, {"titled"}),
     At(4, P(bob, "academic", ub, eb, {"headed"})), At(3, P(ann, "academic", ua, ea, {"named"})),
     P(ann, "academic", ua, NoEmail, {"teaser"}), P(bob, "academic", ub, NoEmail, {"teaser"}),
     P(ann, "academic", ua, NoEmail, {"patterned"}), P(bob, "academic", ub, NoEmail, {"patterned"}),
     P(bob, "academic", ub, eb, {"embedded"}),
     At(2, P(ann, "academic", ua, ea, {"website"})), At(2, P(bob, "none", ub, NoEmail, {"website"})),
     P(ann, "academic", ua, ea, {"item", "profile"}), P(bob, "academic", ub, eb, {"item"}),
     P(bob, "academic", ub, NoEmail, {"employee"}), P(ann, "academic", ua, ea, {"single"})}

\* People whose names are headings, by themselves or around each other.
Parts ==
    {At(3, P(n, title, url, email, {"named"} \cup marks)) :
        n \in {ann, bob}, title \in {"academic", "none"}, url \in {ua, NoUrl},
        email \in {eb, NoEmail}, marks \in {{}, {"shared"}}}
    \cup {At(3, P(ann, "academic", ub, ea, {"named", "linked", "shared"}))}

MCPages ==
    UNION {[1..n -> Headings \cup People] : n \in 0..2}
    \cup {<<h, e, f>> : h \in Headings, e \in People, f \in People}
    \cup {<<H(2, "faculty")>> \o parts : parts \in UNION {[1..n -> Parts] : n \in 2..3}}
    \cup [1..5 -> Links \cup {H(2, "professors"), H(2, "excluded")}]
===============================================================================
