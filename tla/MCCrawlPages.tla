----------------------------- MODULE MCCrawlPages -----------------------------
(* Instances of CrawlPages for TLC: what the pages of the site may show. *)
EXTENDS CrawlPages, TLC
CONSTANTS a, b, c, d
Full(rows) == [size |-> "full", rows |-> rows]
Other(size) == [size |-> size, rows |-> <<>>]
MCViews ==
    {Full(a :> "include"), Full(b :> "review" @@ c :> "include" @@ d :> "review"), Full(a :> "pending" @@ b :> "exclude"),
     Full(<<>>), Other("short"), Other("blank"), Other("empty")}
=============================================================================
