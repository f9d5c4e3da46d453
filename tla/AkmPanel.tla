-------------------------------- MODULE AkmPanel --------------------------------
(***************************************************************************)
(* The AKM panel in the browser (ui/assets/app.js, built from ui/src): one *)
(* thread, many requests under way, and answers that come in any order.    *)
(*                                                                         *)
(* The listeners of akm-nav and akm-refresh are on the document and the    *)
(* events are dispatched on the window: they are never heard, and nothing  *)
(* is refreshed after a write.                                             *)
(***************************************************************************)
EXTENDS Naturals

CONSTANTS
    Queries,        \* what is typed into the search field
    Types,          \* the filters of the search
    Refs,           \* resources with a preview
    Keys,           \* what a refresh asks for, one request each
    Refreshes,      \* refreshes that may be under way
    MaxVersion      \* bound on the changes of the server's data

None == "none"
NoResults == [query |-> None, type |-> None]
Writes == {"reindex", "sync"}

VARIABLES
    query, type,        \* searchQuery, searchType
    searches,           \* searches under way that are not aborted
    results,            \* the search whose results are shown, or NoResults
    searching,          \* loading.search
    cleared,            \* the field was cleared with a search under way (history)
    previewRef, content,    \* what the preview is of, and whose content it has
    previews,           \* previews under way
    crossed,            \* the preview was opened with another under way (history)
    phase,              \* write -> "idle", "preparing", "writing", "lost"
    inProgress,         \* reindexInProgress, syncInProgress
    version,            \* the version of the server's data (environment)
    shown,              \* key -> the version the panel shows
    running,            \* the refreshes under way
    read,               \* refresh -> the requests that were answered, key -> version
    waiting,            \* refresh -> the requests that are not settled
    overtaken           \* the last refresh began with another under way (history)

searchvars == <<query, type, searches, results, searching, cleared>>
previewvars == <<previewRef, content, previews, crossed>>
writevars == <<phase, inProgress>>
refreshvars == <<version, shown, running, read, waiting, overtaken>>
panelvars == <<searchvars, previewvars, writevars, refreshvars>>

Nothing == [k \in {} |-> 0]

PanelInit ==
    /\ query = None /\ type \in Types /\ searches = {} /\ results = NoResults
    /\ searching = FALSE /\ cleared = FALSE
    /\ previewRef = None /\ content = None /\ previews = {} /\ crossed = FALSE
    /\ phase = [w \in Writes |-> "idle"] /\ inProgress = [w \in Writes |-> FALSE]
    /\ version = 0 /\ shown = [k \in Keys |-> 0]
    /\ running = {} /\ read = [r \in Refreshes |-> Nothing]
    /\ waiting = [r \in Refreshes |-> {}] /\ overtaken = FALSE

-----------------------------------------------------------------------------
(* The search view.                                                        *)

(* Mutant: the search before is not aborted.                               *)
Asked_Kept(q, t) == searches \union {[query |-> q, type |-> t]}

(* doSearch aborts the search before it; an aborted fetch rejects and      *)
(* leaves the state alone.                                                 *)
Asked(q, t) == {[query |-> q, type |-> t]}

DoSearch(q, t) ==
    /\ query' = q /\ type' = t
    /\ searches' = Asked(q, t)
    /\ searching' = TRUE /\ cleared' = FALSE
    /\ UNCHANGED results

SearchTyped == \E q \in Queries : DoSearch(q, type)

(* A filter searches again for what was last searched for.                 *)
Filter ==
    \E t \in Types :
        IF query # None THEN DoSearch(query, t)
        ELSE type' = t /\ UNCHANGED <<query, searches, results, searching, cleared>>

Clear ==
    /\ query' = None /\ results' = NoResults
    /\ cleared' = (cleared \/ searches # {})
    /\ UNCHANGED <<type, searches, searching>>

SearchAnswered ==
    \E s \in searches :
        /\ searches' = searches \ {s} /\ searching' = FALSE
        /\ results' \in {s, NoResults}
        /\ UNCHANGED <<query, type, cleared>>

(* The fetch rejects: nothing catches it, the spinner stays.               *)
SearchBreaks ==
    \E s \in searches : searches' = searches \ {s}
                        /\ UNCHANGED <<query, type, results, searching, cleared>>

SearchView ==
    /\ SearchTyped \/ Filter \/ Clear \/ SearchAnswered \/ SearchBreaks
    /\ UNCHANGED <<previewvars, writevars, refreshvars>>

-----------------------------------------------------------------------------
(* The preview.                                                            *)

(* openPreview: nothing aborts the request before it.                      *)
OpenPreview(r) ==
    /\ previewRef' = r /\ content' = None
    /\ crossed' = (previews # {})
    /\ previews' = previews \union {r}

(* The answer sets the content whatever previewRef is by now.              *)
PreviewAnswered(r) ==
    /\ r \in previews /\ previews' = previews \ {r}
    /\ content' \in {r, content}
    /\ UNCHANGED <<previewRef, crossed>>

ClosePreview ==
    /\ previewRef' = None /\ content' = None
    /\ UNCHANGED <<previews, crossed>>

PreviewPane ==
    /\ (\E r \in Refs : OpenPreview(r) \/ PreviewAnswered(r)) \/ ClosePreview
    /\ UNCHANGED <<searchvars, writevars, refreshvars>>

-----------------------------------------------------------------------------
(* handleReindex and handleSync: confirmed by the user, prepared, written. *)

Begins(w) ==
    /\ ~inProgress[w] /\ phase' = [phase EXCEPT ![w] = "preparing"]
    /\ inProgress' = [inProgress EXCEPT ![w] = TRUE]

(* The token has come and is spent, or there is none.                      *)
Prepared(w) ==
    /\ phase[w] = "preparing"
    /\ \/ phase' = [phase EXCEPT ![w] = "writing"]
          /\ inProgress' = [inProgress EXCEPT ![w] = TRUE]
       \/ phase' = [phase EXCEPT ![w] = "idle"]
          /\ inProgress' = [inProgress EXCEPT ![w] = FALSE]

Written(w) ==
    /\ phase[w] = "writing"
    /\ phase' = [phase EXCEPT ![w] = "idle"]
    /\ inProgress' = [inProgress EXCEPT ![w] = FALSE]

(* A fetch that rejects is caught by nobody: the flag stays set.           *)
WriteBreaks(w) ==
    /\ phase[w] \in {"preparing", "writing"}
    /\ phase' = [phase EXCEPT ![w] = "lost"]
    /\ UNCHANGED inProgress

(* The page is loaded again, which is the only way out of a lost write.    *)
(* The other views begin anew as well, with the states they have at first. *)
Reload ==
    /\ phase' = [w \in Writes |-> "idle"]
    /\ inProgress' = [w \in Writes |-> FALSE]

WriteButtons ==
    /\ \/ \E w \in Writes : Begins(w) \/ Prepared(w) \/ Written(w) \/ WriteBreaks(w)
       \/ Reload
    /\ UNCHANGED <<searchvars, previewvars, refreshvars>>

-----------------------------------------------------------------------------
(* refreshAll: all requests at once, and one update when all are settled.  *)
Changes ==
    /\ version < MaxVersion /\ version' = version + 1
    /\ UNCHANGED <<shown, running, read, waiting, overtaken>>

RefreshBegins(r) ==
    /\ r \notin running /\ running' = running \union {r}
    /\ overtaken' = (running # {})
    /\ read' = [read EXCEPT ![r] = Nothing]
    /\ waiting' = [waiting EXCEPT ![r] = Keys]
    /\ UNCHANGED <<version, shown>>

(* What an update sets, over what it leaves.                               *)
Over(set, left) ==
    [k \in DOMAIN set \union DOMAIN left |-> IF k \in DOMAIN set THEN set[k] ELSE left[k]]

(* The answer, or a failure.                                               *)
Settled(r, k) ==
    /\ k \in waiting[r] /\ waiting' = [waiting EXCEPT ![r] = @ \ {k}]
    /\ read' \in {read, [read EXCEPT ![r] = Over([j \in {k} |-> version], @)]}
    /\ UNCHANGED <<version, shown, running, overtaken>>

Updated(r) == Over(read[r], shown)

RefreshEnds(r) ==
    /\ r \in running /\ waiting[r] = {}
    /\ shown' = Updated(r) /\ running' = running \ {r}
    /\ read' = [read EXCEPT ![r] = Nothing]
    /\ UNCHANGED <<version, waiting, overtaken>>

RefreshButton ==
    /\ \/ Changes
       \/ \E r \in Refreshes : RefreshBegins(r) \/ RefreshEnds(r) \/ \E k \in Keys : Settled(r, k)
    /\ UNCHANGED <<searchvars, previewvars, writevars>>

PanelNext == SearchView \/ PreviewPane \/ WriteButtons \/ RefreshButton

PanelSpec == PanelInit /\ [][PanelNext]_panelvars

-----------------------------------------------------------------------------
(* Properties.                                                             *)

(* When the spinner is gone, the results are those of the query and the    *)
(* filter in the view, whatever searches crossed; only a field that was    *)
(* cleared under a search gets results nobody asks for any more.           *)
ResultsForQuery ==
    ~searching /\ results # NoResults =>
        cleared \/ results = [query |-> query, type |-> type]

(* The preview has the content of another resource than the one feedback   *)
(* is sent for only if it was opened with another one under way.          *)
PreviewOfRef ==
    previewRef # None /\ content \notin {None, previewRef} => crossed

(* A second reindex or sync cannot begin while one is under way, and the   *)
(* button comes back when it is over, unless its request was lost.         *)
FlagTellsTheTruth ==
    \A w \in Writes : inProgress[w] <=> phase[w] # "idle"

(* What the panel shows gets newer and never older, a request that fails   *)
(* included, unless two refreshes crossed.                                 *)
RefreshGoesForward ==
    [][\A k \in Keys : shown'[k] < shown[k] => overtaken]_panelvars

(* What the panel shows is what it was asked for: results, preview and     *)
(* buttons agree with the requests, and refreshes go forward.              *)
PanelTells ==
    /\ [](ResultsForQuery /\ PreviewOfRef /\ FlagTellsTheTruth)
    /\ RefreshGoesForward
=============================================================================
