--------------------------- MODULE TitleTranslation ---------------------------
(***************************************************************************)
(* The titles of the people of a crawl: the rules of title_classifier.py,  *)
(* the pipeline of title_pipeline.py, the LibreTranslate client and the    *)
(* SQLite cache of translation.py, and the three lists FacultyCrawler      *)
(* sorts the people into.  The client is made when the crawl begins, with  *)
(* the address the window has then, and is thrown away with the crawl;     *)
(* the cache stays.                                                        *)
(***************************************************************************)
EXTENDS TranslationService, FiniteSets, Sequences

CONSTANTS
    Titles,         \* titles on the pages
    Languages,      \* the language a page names; "auto" for none and a title in a foreign script
    Supported,      \* the languages the service translates from
    Texts,          \* translations
    TranslationOf,  \* the translation of a title read in a language
    Matches,        \* the tables of the rules a title or a text matches
    Finds,          \* what crawls may find: sets of people, <<title, language>>
    Retries,        \* requests after the first
    MaxCrawls

People == Titles \X Languages

NoText == "no text"

ASSUME TitleAssumption ==
    /\ Finds \subseteq SUBSET People
    /\ Supported \subseteq Languages \ {"en", "", "auto"}
    /\ TranslationOf \in [Titles \X Languages -> Texts] /\ NoText \notin Texts
    /\ Retries \in Nat /\ MaxCrawls \in Nat

\* The tables, in the order in which classify tries them, and what each decides.
Tables == <<"status", "student", "professional", "academic", "ambiguous">>

Decision(table) == CASE table = "academic" -> "include" [] table = "ambiguous" -> "review" [] OTHER -> "exclude"

ASSUME MatchesAssumption ==
    Matches \in [Titles \cup Texts -> SUBSET {Tables[i] : i \in DOMAIN Tables}]

\* classify: the first table that matches decides.
Classify(text) ==
    LET matched == {i \in DOMAIN Tables : Tables[i] \in Matches[text]} IN
    IF matched = {}
    THEN "review"
    ELSE Decision(Tables[CHOOSE i \in matched : \A j \in matched : i <= j])

NoError == "no error"

VARIABLES
    cache,      \* translations: <<title, language>> and text of each row
    crawls,     \* crawls begun
    step,       \* what the crawl does
    server,     \* the endpoint of the client
    known,      \* _capabilities is set
    error,      \* _capability_error
    left,       \* people of the crawl not yet sorted: <<title, language>>
    person,     \* the one at hand
    tries,      \* requests made for its translation
    text,       \* the translation received
    sorted      \* people sorted, with their list, status and text

clientVars == <<server, known, error>>
personVars == <<left, person, tries, text, sorted>>
titleVars == <<serviceVars, cache, crawls, step, clientVars, personVars>>

NoPerson == <<"", "">>

TitleInit ==
    /\ ServiceInit
    /\ cache = {} /\ crawls = 0 /\ step = "idle"
    /\ server = NoEndpoint /\ known = FALSE /\ error = NoError
    /\ left = {} /\ person = NoPerson /\ tries = 0 /\ text = NoText /\ sorted = {}

\* create_crawler: a crawler of a new batch, with a client of its own.
BeginCrawl ==
    /\ app = "ready" /\ step = "idle" /\ crawls < MaxCrawls
    /\ crawls' = crawls + 1 /\ step' = "next"
    /\ server' = address /\ known' = FALSE /\ error' = NoError
    /\ left' \in Finds
    /\ person' = NoPerson /\ tries' = 0 /\ text' = NoText /\ sorted' = {}
    /\ UNCHANGED <<serviceVars, cache>>

\* A person goes to a list.
Sort(list, status) ==
    /\ sorted' = sorted \cup {[person |-> person, list |-> list, status |-> status, text |-> text]}
    /\ step' = "next" /\ tries' = 0 /\ text' = NoText
    /\ UNCHANGED <<serviceVars, cache, crawls, clientVars, left, person>>

NextPerson ==
    /\ step = "next"
    /\ \/ \E p \in left : person' = p /\ left' = left \ {p} /\ step' = "own rules"
       \/ left = {} /\ step' = "idle" /\ UNCHANGED <<left, person>>
    /\ UNCHANGED <<serviceVars, cache, crawls, clientVars, tries, text, sorted>>

\* process: what the rules settle is not translated, nor is a title on an English page
\* or, in Latin letters, on a page that names no language.
OwnRules ==
    /\ step = "own rules"
    /\ IF Classify(person[1]) # "review" \/ person[2] \in {"en", ""}
       THEN Sort(Classify(person[1]), "not needed")
       ELSE step' = "capabilities" /\ UNCHANGED <<serviceVars, cache, crawls, clientVars, personVars>>

\* check_capabilities: one request, and the next person asks again if it failed.
AskCapabilities ==
    /\ step = "capabilities" /\ ~known
    /\ \E response \in Responses(server) \cup {"malformed"} :
          IF response = "answer"
          THEN known' = TRUE /\ UNCHANGED error
          ELSE error' = response /\ UNCHANGED known
    /\ step' = "capable"
    /\ UNCHANGED <<serviceVars, cache, crawls, server, personVars>>

KnownCapabilities ==
    /\ step = "capabilities" /\ known /\ step' = "capable"
    /\ UNCHANGED <<serviceVars, cache, crawls, clientVars, personVars>>

\* translate, up to the cache: an error of the capabilities, once met, stays.
Capable ==
    /\ step = "capable"
    /\ IF error # NoError THEN Sort("review", error)
       ELSE IF person[2] \notin Supported \cup {"auto"} THEN Sort("review", "unsupported")
       ELSE step' = "look up" /\ UNCHANGED <<serviceVars, cache, crawls, clientVars, personVars>>

\* Mutant of Key: the language is left out.
KeyOfTitle(p) == p[1]

\* _cache_key.
Key(p) == p

Keep(found, next) ==
    /\ text' = found /\ step' = next
    /\ UNCHANGED <<serviceVars, crawls, clientVars, left, person, tries, sorted>>

\* TranslationCache.get.
LookUp ==
    /\ step = "look up"
    /\ \/ \E row \in cache : row[1] = Key(person) /\ Keep(row[2], "hit") /\ UNCHANGED cache
       \/ /\ \A row \in cache : row[1] # Key(person)
          /\ step' = "request" /\ UNCHANGED <<serviceVars, cache, crawls, clientVars, personVars>>

\* One request of _request_with_retries that had no answer.
NoAnswer(status) ==
    IF tries < Retries
    THEN tries' = tries + 1 /\ UNCHANGED <<serviceVars, cache, crawls, step, clientVars, left, person, text, sorted>>
    ELSE Sort("review", status)

Request ==
    /\ step = "request"
    /\ \E response \in Responses(server) \cup {"malformed"} :
          CASE response = "answer" -> Keep(TranslationOf[person], "store") /\ UNCHANGED cache
            [] response = "malformed" -> Sort("review", response)
            [] OTHER -> NoAnswer(response)

\* TranslationCache.put.
Store ==
    /\ step = "store"
    /\ cache' = {row \in cache : row[1] # Key(person)} \cup {<<Key(person), text>>}
    /\ step' = "translated"
    /\ UNCHANGED <<serviceVars, crawls, clientVars, personVars>>

\* The database may be locked or broken: nothing catches sqlite3.Error.
CacheFails ==
    /\ step \in {"look up", "store"}
    /\ step' = "failed"
    /\ UNCHANGED <<serviceVars, cache, crawls, clientVars, personVars>>

\* The rules judge the translation.
Translated ==
    /\ step \in {"hit", "translated"}
    /\ Sort(Classify(text), IF step = "hit" THEN "cache hit" ELSE "success")

\* The batch writes the failure down and goes on.
CrawlFails ==
    /\ step = "failed" /\ step' = "idle"
    /\ left' = {} /\ person' = NoPerson /\ tries' = 0 /\ text' = NoText /\ sorted' = {}
    /\ UNCHANGED <<serviceVars, cache, crawls, clientVars>>

CrawlStep ==
    \/ NextPerson \/ OwnRules \/ AskCapabilities \/ KnownCapabilities \/ Capable
    \/ LookUp \/ Request \/ Store \/ CacheFails \/ Translated \/ CrawlFails

TitleNext ==
    \/ ServiceNext /\ UNCHANGED <<cache, crawls, step, clientVars, personVars>>
    \/ BeginCrawl \/ CrawlStep

\* The GUI thread goes on with start and stop, the thread of the batch with its crawl.
TitleSpec ==
    /\ TitleInit /\ [][TitleNext]_titleVars
    /\ WF_titleVars(ServiceStep /\ UNCHANGED <<cache, crawls, step, clientVars, personVars>>)
    /\ WF_titleVars(CrawlStep)

-----------------------------------------------------------------------------
(* Properties.                                                             *)

\* Nobody is listed or left out on the word of another title: a person is where the rules
\* put the title, or else its own translation from the language of the page, whatever the
\* cache held; without one the person is reviewed, neither listed nor left out silently.
SortedRightly ==
    \A r \in sorted :
        CASE Classify(r.person[1]) # "review" -> r.list = Classify(r.person[1])
          [] Classify(r.person[1]) = "review" /\ r.text # NoText ->
                r.text = TranslationOf[r.person] /\ r.list = Classify(r.text)
          [] OTHER -> r.list = "review"

=============================================================================
