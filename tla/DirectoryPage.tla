--------------------------- MODULE DirectoryPage ---------------------------
(***************************************************************************)
(* How one directory page becomes people: parse_faculty_page of            *)
(* crawler/parsers.py, a cascade of readers each of which knows one layout,*)
(* then the adapter and the seeds of faculty_workflow.  A reader adds to   *)
(* what the earlier ones have, takes its place, or runs only if there is   *)
(* nothing yet.  One action is one stage of the cascade.                   *)
(*                                                                         *)
(* A page is the sequence of its headings and entries (a card, a row or a  *)
(* link of a person) at one level.  The markup and text predicates that    *)
(* make an entry a reader's are the entry's marks; names, titles and       *)
(* headings are classes of texts.                                          *)
(***************************************************************************)
EXTENDS Naturals, Sequences, FiniteSets, SequencesExt

CONSTANTS
    Names, Emails, Urls,
    Width,      \* length of a name
    Many,       \* links from which a page counts as a wrapper of people
    Few,        \* records below which links are tried as well
    Pages,      \* pages that may come in
    NoEmail, NoUrl

Says   == {"faculty", "professors", "ruolo", "chair", "emeriti", "fulltime", "neutral",
           "excluded", "other"}
TitleKinds == {"none", "honorific", "academic", "emeritus", "foreign", "staff"}
Marks  ==
    {"row", "duty",      \* of a table of people; of one that lists their duties
     "card", "listed",   \* a container of a person; a list item of a link
     "tr", "split",      \* a row of another table; with the name in two cells
     "business",         \* a business card
     "unnamed",          \* a card the name of which is not in it, but around it
     "shared",           \* its wrapper is also that of the entry before it
     "profile",          \* the link's path is a profile's
     "strong",           \* its query has a profile number
     "query",            \* the page itself with a person's key
     "subpage",          \* a page below the directory's
     "person", "titled", \* a local page, linked by the name or by the name of the chair
     "headed", "named",  \* the name is a heading of a card, of a part of the page
     "linked",           \* and is itself the link
     "website",          \* the name opens a part that has a Website link
     "teaser", "patterned", "embedded",
     "item", "employee", "single", "mail",   \* layouts of the workflow's adapter
     "hidden"}           \* inside navigation, a header or a footer

Heading == [kind : {"heading"}, level : 1..6, says : Says]
Entry   == [kind : {"entry"}, level : 0..6, name : Names, title : TitleKinds,
            url : Urls \cup {NoUrl}, email : Emails \cup {NoEmail}, marks : SUBSET Marks]

ASSUME PageAssumption ==
    /\ Width \in [Names -> Nat] /\ Many \in Nat /\ Few \in Nat
    /\ \A p \in Pages : p \in Seq(Heading \cup Entry)
    /\ NoEmail \notin Emails /\ NoUrl \notin Urls

VARIABLES page, records, segmented, pending, cards, pc

vars == <<page, records, segmented, pending, cards, pc>>

Record(e, title, email) == [name |-> e.name, title |-> title, url |-> e.url, email |-> email]

-----------------------------------------------------------------------------
(* What is around an entry.                                                *)

Entries  == {i \in DOMAIN page : page[i].kind = "entry"}
Marked(mark)  == {i \in Entries : mark \in page[i].marks}
Visible(mark) == Marked(mark) \ Marked("hidden")

Greatest(S) == CHOOSE i \in S : \A j \in S : j <= i
\* What the last of the nodes S says: "person" if it is a person's own heading.
LastSays(S) ==
    IF S = {} THEN "none"
    ELSE LET node == page[Greatest(S)] IN IF node.kind = "heading" THEN node.says ELSE "person"

\* _nearest_section_heading, _nearest_directory_section_heading
Section(i) == LastSays({j \in 1..i : page[j].kind = "heading"})
\* A heading of any of these levels ends what an earlier one says.
Active(levels, i) == LastSays({j \in 1..i : page[j].level \in levels})
\* Only headings that say one of these do, and any of the first level.
Under(levels, says, i) ==
    LET Sets(j) == page[j].level \in levels /\ page[j].says \in says
        ends == {j \in 1..i : page[j].kind = "heading" /\ (page[j].level = 1 \/ Sets(j))}
    IN IF ends # {} /\ Sets(Greatest(ends)) THEN page[Greatest(ends)].says ELSE "none"

\* Mutant of Excluded: only the sections that are always excluded.
ExcludedAlways(i, title) == Section(i) = "neutral" /\ title \notin {"academic", "emeritus"}
\* _is_excluded_directory_section
Excluded(i, title) ==
    \/ Section(i) = "excluded"
    \/ Section(i) = "neutral" /\ title \notin {"academic", "emeritus"}

\* _has_valid_academic_title of a heading; _extract_title finds these of an entry.
Roles     == {"professors", "ruolo", "chair", "emeriti"}
Extracted == {"academic", "emeritus", "staff"}
RoleTitle(says) == IF says = "emeriti" THEN "emeritus" ELSE "academic"

\* The positions S in their order, and what f has at its positions.
Order(S)  == [k \in 1..Cardinality(S) |-> CHOOSE i \in S : Cardinality({j \in S : j <= i}) = k]
Gather(f) == [k \in 1..Cardinality(DOMAIN f) |-> f[Order(DOMAIN f)[k]]]
\* The first entry of every URL.
FirstOfUrl(S) == {i \in S : \A j \in S : j < i => page[j].url # page[i].url}

First(S) == CHOOSE i \in S : \A j \in S : i <= j
UrlIn(S) ==
    LET linked == {j \in S : page[j].url # NoUrl}
    IN IF linked = {} THEN NoUrl ELSE page[First(linked)].url

\* _heading_person_context, _fallback_record_context, _strong_profile_record_context: the
\* element around a name need not be one person's.  A reader takes the first there is.
Wrapper(i) ==
    {j \in Entries : \A k \in DOMAIN page :
        (i < k /\ k <= j) \/ (j < k /\ k <= i) => k \in Marked("shared")}
EmailAround(i) ==
    LET told == {j \in Wrapper(i) : page[j].email # NoEmail}
    IN IF told = {} THEN NoEmail ELSE page[First(told)].email
TitleAround(i) ==
    LET told == {j \in Wrapper(i) : page[j].title \in Extracted}
    IN IF told = {} THEN "none" ELSE page[First(told)].title

\* _recover_profile_url_for_heading: a name that is no link gets the first link of its
\* wrapper, else of the one before, else of the one after.
Preceding(i) == UNION {Wrapper(j) : j \in {j \in Entries \ Wrapper(i) : j + 1 \in Wrapper(i)}}
Following(i) == UNION {Wrapper(j) : j \in {j \in Entries \ Wrapper(i) : j - 1 \in Wrapper(i)}}
UrlAround(i) ==
    IF i \in Marked("linked") THEN page[i].url
    ELSE IF UrlIn(Wrapper(i)) # NoUrl THEN UrlIn(Wrapper(i))
    ELSE IF UrlIn(Preceding(i)) # NoUrl THEN UrlIn(Preceding(i)) ELSE UrlIn(Following(i))

-----------------------------------------------------------------------------
(* remove_duplicates                                                       *)

KeyOf(r) == IF r.url # NoUrl THEN <<r.url>> ELSE <<r.name, r.title>>
\* Mutant of Completeness: an e-mail address does not count.
CompletenessOfLink(r) == IF r.url # NoUrl THEN 1 ELSE 0
Completeness(r) == (IF r.url # NoUrl THEN 1 ELSE 0) + (IF r.email # NoEmail THEN 1 ELSE 0)
Preferred(a, b) ==
    LET p == IF Completeness(b) > Completeness(a) THEN b ELSE a
    IN IF p.email # NoEmail THEN p
       ELSE [p EXCEPT !.email = IF a.email # NoEmail THEN a.email ELSE b.email]
Merge(unique, r) ==
    IF \E k \in DOMAIN unique : KeyOf(unique[k]) = KeyOf(r)
    THEN [k \in DOMAIN unique |->
            IF KeyOf(unique[k]) = KeyOf(r) THEN Preferred(unique[k], r) ELSE unique[k]]
    ELSE Append(unique, r)
Merged(rs) ==
    LET merged[n \in 0..Len(rs)] == IF n = 0 THEN <<>> ELSE Merge(merged[n - 1], rs[n])
    IN merged
RemoveDuplicates(rs) == Merged(rs)[Len(rs)]

-----------------------------------------------------------------------------
(* The readers.                                                            *)

Rows == Marked("row")

\* _record_from_businesscard
BusinessIsRead(i) == page[i].title = "academic" /\ page[i].url # NoUrl
\* _has_faculty_signal: a title the rules know, and a link or an address.
HasSignal(i) ==
    IF i \in Marked("business") \ (Rows \cup Marked("tr")) THEN BusinessIsRead(i)
    ELSE \/ page[i].title \in Extracted /\ (page[i].url # NoUrl \/ page[i].email # NoEmail)
         \/ page[i].title = "honorific" /\ page[i].url # NoUrl /\ i \in Marked("split")
Signalled ==
    {i \in Visible("card") \cup Visible("business") \cup Visible("tr") \cup Visible("row") :
        HasSignal(i)}
\* _find_faculty_containers: only if there is none, the list items of profile links.
Linked ==
    IF Signalled # {} THEN Signalled ELSE Visible("listed") \cap Marked("profile")
Containers == Rows \cup Linked

\* _record_from_faculty_like_table_row: the title cell may say anything, unless the
\* table lists duties; then the row may also lack a link.
RowIsRead(i) ==
    LET e == page[i]
    IN /\ e.title # "none" /\ ~Excluded(i, e.title)
       /\ e.url = NoUrl => i \in Marked("duty")
       /\ i \in Marked("duty") => e.title \in {"academic", "emeritus"}
\* _record_from_table_row, _record_from_split_name_table_row
TableRowIsRead(i) ==
    /\ page[i].title \in Extracted \/ (page[i].title = "honorific" /\ i \in Marked("split"))
    /\ page[i].url # NoUrl /\ ~Excluded(i, page[i].title)
\* A card without a name is read by what is around it.
CardTitle(i) ==
    IF i \in Marked("unnamed") /\ TitleAround(i) # "none" THEN TitleAround(i) ELSE page[i].title
\* _record_from_container; a title no rule knows is taken from a card.
CardIsRead(i) ==
    IF i \in Marked("tr") THEN TableRowIsRead(i)
    ELSE IF i \in Marked("business") THEN BusinessIsRead(i)
    ELSE /\ page[i].url # NoUrl /\ ~Excluded(i, CardTitle(i))
         /\ CardTitle(i) = "academic" \/ (CardTitle(i) = "foreign" /\ i \in Marked("card"))
ContainerRecord(i) ==
    IF i \in Rows \cup Marked("tr") \cup Marked("business")
    THEN Record(page[i], page[i].title, NoEmail)
    ELSE Record(page[i], CardTitle(i),
                IF i \in Marked("unnamed") THEN EmailAround(i) ELSE page[i].email)
ContainerRecords ==
    LET read == {i \in Containers \ Marked("hidden") :
                    IF i \in Rows THEN RowIsRead(i) ELSE CardIsRead(i)}
    IN Gather([i \in read |-> ContainerRecord(i)])

\* _record_from_strong_stref_profile_link
StrongIsRead(i) == page[i].title \in {"academic", "emeritus"} /\ ~Excluded(i, page[i].title)
Own(i) == Record(page[i], page[i].title, page[i].email)
Strong(i) == Record(page[i], page[i].title, EmailAround(i))
StrongRecords == Gather([i \in {j \in Marked("strong") : StrongIsRead(j)} |-> Strong(i)])

\* _recover_role_group_records
Academic(i) == Record(page[i], "academic", page[i].email)
RoleRecords ==
    LET read == {i \in Marked("query") : Active({2, 3}, i) = "ruolo"}
    IN Gather([i \in read |-> Record(page[i], "academic", EmailAround(i))])

\* _recover_repeated_listing_subpage_records: a page below is one person, called the
\* longest of the names that link it.
ListingRecords ==
    LET links  == {i \in Marked("subpage") : Active({4, 5}, i) \in Roles}
        firsts == {i \in FirstOfUrl(links) : Active({4, 5}, i) # "emeriti"}
        Called(i) == CHOOSE j \in {j \in links : page[j].url = page[i].url} :
                        \A k \in links : page[k].url = page[i].url =>
                            \/ Width[page[j].name] > Width[page[k].name]
                            \/ Width[page[j].name] = Width[page[k].name] /\ j <= k
    IN Gather([i \in firsts |-> Record(page[Called(i)], "academic", NoEmail)])

\* _bounded_segmented_group_title: the heading above, else the only role on the page.
GroupTitle(i) ==
    LET said == {page[j].says : j \in DOMAIN page \ Entries} \cap Roles
    IN IF Section(i) \in Roles THEN RoleTitle(Section(i))
       ELSE IF Cardinality(said) = 1 THEN RoleTitle(CHOOSE s \in said : TRUE) ELSE "none"
\* _recover_segmented_wrapper_records
Wrapped == FirstOfUrl(Visible("person"))
SelectedTitle(i) == IF GroupTitle(i) # "none" THEN GroupTitle(i) ELSE page[i].title
SegmentRecords ==
    LET read == {i \in Wrapped :
                    /\ Section(i) # "excluded"
                    /\ page[i].title \notin {"emeritus", "staff"}
                    /\ SelectedTitle(i) \in {"academic", "honorific"}}
    IN Gather([i \in read |-> Record(page[i], SelectedTitle(i), page[i].email)])
\* _recover_professorship_linked_name_records
ChairRecords ==
    LET read == {i \in FirstOfUrl({j \in Visible("titled") : Section(j) = "chair"}) :
                    page[i].url # NoUrl}
    IN Gather([i \in read |-> Academic(i)])
HasChairs == Len(ChairRecords) >= 2

\* _recover_heading_card_records
Headed == Visible("headed")
HeadedRecords ==
    LET read == {i \in Headed : page[i].title \in {"academic", "emeritus"} /\ page[i].url # NoUrl}
    IN Gather([i \in read |-> Own(i)])

\* _recover_repeated_linked_teaser_records
Teasers ==
    {i \in Visible("teaser") : page[i].title = "academic" /\ page[i].url # NoUrl /\ ~Excluded(i, "academic")}
Unaddressed(i) == Record(page[i], page[i].title, NoEmail)
TeaserRecords ==
    IF Cardinality(Teasers) < 2 THEN <<>> ELSE Gather([i \in FirstOfUrl(Teasers) |-> Unaddressed(i)])

\* _recover_academic_section_name_link_records
SectionRecords ==
    LET read == FirstOfUrl({i \in Visible("person") : Section(i) = "fulltime"})
        HeadingOf(i) == Greatest({j \in 1..i : page[j].kind = "heading"})
        several == {i \in read : \E j \in read : i # j /\ HeadingOf(i) = HeadingOf(j)}
        TitleOf(i) == IF page[i].title \in {"academic", "emeritus"} THEN page[i].title
                      ELSE IF TitleAround(i) \in {"academic", "emeritus"} THEN TitleAround(i)
                      ELSE "section"
        EmailOf(i) == IF page[i].email # NoEmail THEN page[i].email ELSE EmailAround(i)
    IN Gather([i \in several |-> Record(page[i], TitleOf(i), EmailOf(i))])

\* _recover_embedded_filtered_staff_records
EmbeddedRecords ==
    LET read == {i \in Marked("embedded") : page[i].title # "none" /\ page[i].url # NoUrl}
    IN Gather([i \in read |-> Own(i)])

\* _fallback_repeated_person_link_records
Patterned ==
    IF Cardinality(Visible("patterned")) < 2 THEN {} ELSE FirstOfUrl(Visible("patterned"))
PatternedRecords ==
    LET read == {i \in Patterned : page[i].title \in {"academic", "emeritus"}}
    IN Gather([i \in read |-> Unaddressed(i)])

\* _recover_heading_person_records: below a heading such as "Faculty", until one of the
\* first level.
NamedPeople ==
    LET below == {i \in Visible("named") : Under(1..4, {"faculty"}, i) = "faculty"}
    IN {i \in below : \A j \in below : j < i => page[j].name # page[i].name}
NamedRecords ==
    LET read == {i \in NamedPeople : UrlAround(i) # NoUrl /\ TitleAround(i) \in Extracted}
        Around(i) == [page[i] EXCEPT !.url = UrlAround(i)]
    IN Gather([i \in read |-> Record(Around(i), TitleAround(i), EmailAround(i))])

\* _fallback_profile_link_records, _record_from_profile_link: the strong ones come first.
LinkIsRead(i) ==
    \/ i \in Marked("strong") /\ StrongIsRead(i)
    \/ /\ i \notin Marked("strong") /\ page[i].url # NoUrl
       /\ \/ page[i].title = "honorific"
          \/ i \in Visible("profile") /\ page[i].title \in {"academic", "emeritus"}
       /\ ~Excluded(i, page[i].title)
LinkRecords(strong) ==
    LET read == {i \in Entries : LinkIsRead(i) /\ (i \in Marked("strong")) = strong}
    IN RemoveDuplicates(Gather([i \in read |-> IF strong THEN Strong(i) ELSE Unaddressed(i)]))

\* _recover_accordion_person_records
Accordion ==
    IF Cardinality(Marked("website")) < 2 THEN {} ELSE Marked("website")
AccordionRole(i) == Under({2, 3}, {"professors", "chair", "emeriti", "faculty", "fulltime"}, i)
AccordionIsRead(i) ==
    /\ page[i].url # NoUrl
    /\ \/ AccordionRole(i) \in {"professors", "chair"}
       \/ AccordionRole(i) = "none" /\ page[i].title = "academic"
AccordionRecords ==
    Gather([i \in {j \in Accordion : AccordionIsRead(j)} |-> Academic(i)])
AccordionUrls == {page[i].url : i \in Accordion} \ {NoUrl}

\* _collect_title_pending_records: without a title, in a section of academics.
PendingRecords ==
    LET containers == {"card", "business", "row", "tr", "listed"}
        open == {i \in UNION {Visible(mark) : mark \in containers} :
                    /\ Section(i) \in {"faculty", "fulltime", "professors", "chair"}
                    /\ page[i].title \in {"none", "honorific"} /\ page[i].url # NoUrl}
    IN Gather([i \in FirstOfUrl(open) |-> Own(i)])

-----------------------------------------------------------------------------
(* The cascade: parse_faculty_page.                                        *)

Init ==
    /\ page \in Pages
    /\ records = <<>> /\ pending = <<>> /\ cards = <<>>
    /\ segmented = FALSE
    /\ pc = "containers"

Stage(from, to) == pc = from /\ pc' = to /\ UNCHANGED page
Reads(rs) == records' = rs /\ UNCHANGED <<segmented, pending, cards>>

ReadContainers ==
    /\ Stage("containers", "strong")
    /\ Reads(RemoveDuplicates(ContainerRecords))

ReadStrong ==
    /\ Stage("strong", "roles")
    /\ Reads(IF Rows = {} THEN RemoveDuplicates(RemoveDuplicates(StrongRecords) \o records)
             ELSE records)

ReadRoles ==
    /\ Stage("roles", "listing")
    /\ Reads(RemoveDuplicates(RoleRecords \o records))

ReadListing ==
    /\ Stage("listing", "segments")
    /\ Reads(RemoveDuplicates(ListingRecords \o records))

\* Mutant of Replaces: also by nothing.
ReplacesByNothing(found, links) ==
    /\ links >= Many /\ Rows = {} /\ ListingRecords = <<>>
    /\ Cardinality(Containers) <= 1 \/ Len(records) <= links \div 2 \/ HasChairs
\* The segments take the place of what was read, if the page wraps many people and
\* little of it was.
Replaces(found, links) ==
    /\ links >= Many /\ Rows = {} /\ ListingRecords = <<>>
    /\ \/ Cardinality(Containers) <= 1
       \/ Len(records) <= 1 \/ Len(records) <= links \div 2
       \/ HasChairs
    /\ found # <<>>

ReadSegments ==
    /\ Stage("segments", "headed")
    /\ LET found == IF HasChairs THEN ChairRecords ELSE SegmentRecords
           links == IF HasChairs THEN Len(ChairRecords) ELSE Cardinality(Wrapped)
       IN /\ records' = IF Replaces(found, links) THEN RemoveDuplicates(found) ELSE records
          /\ segmented' = Replaces(found, links)
    /\ UNCHANGED <<pending, cards>>

ReadHeaded ==
    /\ Stage("headed", "teasers")
    /\ Reads(IF Containers = {} \/ records = <<>> THEN RemoveDuplicates(HeadedRecords \o records)
             ELSE records)

\* Readers that only run on a page without a table from which nothing was read.
Blank == Rows = {} /\ records = <<>>

ReadTeasers ==
    /\ Stage("teasers", "sections")
    /\ Reads(IF Blank THEN TeaserRecords ELSE records)

ReadSections ==
    /\ Stage("sections", "embedded")
    /\ Reads(IF Blank THEN SectionRecords ELSE records)

ReadEmbedded ==
    /\ Stage("embedded", "patterns")
    /\ Reads(IF Blank THEN RemoveDuplicates(EmbeddedRecords) ELSE records)

ReadPatterns ==
    /\ Stage("patterns", "names")
    /\ Reads(IF Blank /\ Containers = {} THEN RemoveDuplicates(PatternedRecords) ELSE records)

ReadNames ==
    /\ Stage("names", "links")
    /\ Reads(IF Blank THEN RemoveDuplicates(NamedRecords) ELSE records)

\* Mutant of Outnumbers: as many links are as good.
OutnumbersOrEqual(links) == Len(links) >= Len(records)
Outnumbers(links) == Len(links) > Len(records)

\* _fallback_quality_ok holds of every record of a link.
ReadLinks ==
    /\ Stage("links", "accordion")
    /\ LET strong == LinkRecords(TRUE)
           other  == LinkRecords(FALSE)
       IN Reads(IF Rows # {} \/ segmented \/ Len(records) >= Few THEN records
                ELSE IF strong # <<>> THEN RemoveDuplicates(strong \o records \o other)
                ELSE IF Outnumbers(other) THEN other
                ELSE RemoveDuplicates(records \o other))

ReadAccordion ==
    /\ Stage("accordion", "pending")
    /\ LET others == {k \in DOMAIN records : records[k].url \notin AccordionUrls}
       IN Reads(IF Accordion = {} THEN records
                ELSE RemoveDuplicates(AccordionRecords \o Gather([k \in others |-> records[k]])))

ReadPending ==
    /\ Stage("pending", "cards")
    /\ LET untold == {k \in DOMAIN PendingRecords :
                        \A q \in ToSet(records) : q.url # PendingRecords[k].url}
       IN pending' = Gather([k \in untold |-> PendingRecords[k]])
    /\ UNCHANGED <<records, segmented, cards>>

-----------------------------------------------------------------------------
(* The workflow's adapter (UniversalDirectoryAdapter.extract) and the      *)
(* cards _collect_directory_seeds makes seeds of.                          *)

Distinct(rs) ==
    LET New(k) == \A j \in 1..(k - 1) : [rs[j] EXCEPT !.title = ""] # [rs[k] EXCEPT !.title = ""]
    IN Gather([k \in {j \in DOMAIN rs : New(j)} |-> rs[k]])
WithEmail(mark) == {i \in Marked(mark) : page[i].email # NoEmail}
Items     == Gather([i \in WithEmail("item") |-> Own(i)])
Employees ==
    LET read == {i \in Marked("employee") : page[i].title \in {"academic", "emeritus"}}
    IN Gather([i \in read |-> Own(i)])
Single    == Gather([i \in WithEmail("single") |-> Own(i)])
MailCards == Distinct(Gather([i \in WithEmail("mail") |-> Own(i)]))

\* The first layout with two people (or a profile's one) is taken for the whole page.
Authoritative ==
    Len(Items) >= 2 \/ Len(Employees) >= 2 \/ Len(Single) = 1 \/ Len(MailCards) >= 2
Adapted ==
    IF Len(Items) >= 2 THEN Distinct(Items)
    ELSE IF Len(Employees) >= 2 THEN Distinct(Employees)
    ELSE IF Len(Single) = 1 THEN Single ELSE MailCards

Passed   == IF Authoritative THEN Adapted ELSE records \o Adapted \o pending

PassOn ==
    /\ Stage("cards", "done")
    /\ cards' = Passed
    /\ UNCHANGED <<records, segmented, pending>>

Next ==
    \/ ReadContainers \/ ReadStrong \/ ReadRoles \/ ReadListing \/ ReadSegments
    \/ ReadHeaded \/ ReadTeasers \/ ReadSections \/ ReadEmbedded \/ ReadPatterns
    \/ ReadNames \/ ReadLinks \/ ReadAccordion \/ ReadPending \/ PassOn

Spec == Init /\ [][Next]_vars

-----------------------------------------------------------------------------
(* Properties.                                                             *)

\* A record is of one person: no reader and no merging of readers gives somebody the
\* link or the address of another (remove_duplicates keeps one of two records with a
\* URL and completes it from the other).  Only a name that is no link itself may get one
\* from around it, and only who shares a wrapper another's address.
RecordsAreOwn ==
    \A r \in ToSet(records) : \E i \in Entries :
        /\ page[i].name = r.name
        /\ \/ page[i].url = r.url
           \/ /\ i \in Marked("named") \ Marked("linked")
              /\ \E j \in Wrapper(i) \cup Preceding(i) \cup Following(i) : page[j].url = r.url
        /\ r.email = NoEmail \/ \E j \in Wrapper(i) : page[j].email = r.email

\* Nobody of an excluded section is recorded (tests/test_parsers.py:1393), unless by a
\* reader that goes by a role heading, a heading that is a name, a business card, or a
\* list of its own.
ExcludedStayOut ==
    LET unchecked == {"query", "subpage", "named", "headed", "website", "patterned",
                      "embedded", "business"}
    IN \A r \in ToSet(records) : \E i \in Entries :
          /\ page[i].name = r.name /\ (page[i].url = r.url \/ i \in Marked("named"))
          /\ Section(i) = "excluded" => page[i].marks \cap unchecked # {}

\* A stage loses nobody an earlier one has recorded, but by taking the place of less
\* (segments for half of them, links for fewer) or by what an accordion shows.
NobodyIsLost ==
    [][ \A r \in ToSet(records) :
          \/ \E q \in ToSet(records') : KeyOf(q) = KeyOf(r)
          \/ segmented' /\ ~segmented
          \/ pc = "links" /\ Len(records') > Len(records)
          \/ pc = "accordion" /\ r.url \in AccordionUrls ]_vars

\* A page with a container that can be read never comes to nothing, neither in the parser
\* nor in what the workflow takes from it, unless an accordion shows people not to be
\* recorded.
ReadableIsRead ==
    pc = "done" /\ Accordion = {} /\ (\E i \in Linked \ Rows : CardIsRead(i))
        => records # <<>> /\ cards # <<>>

=============================================================================
