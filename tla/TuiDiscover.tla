----------------------------- MODULE TuiDiscover -----------------------------
(***************************************************************************)
(* The Discover view of the terminal interface (App in                     *)
(* casparian/src/cli/tui/app.rs) and the loads behind it.  Keys change     *)
(* what the user looks at; threads fetch it from the Sentinel; tick()      *)
(* polls the receiving ends of their channels in a fixed order, applies    *)
(* what has arrived, and starts what is missing.  A receiver that is       *)
(* dropped silences its thread; one that is kept across a change of        *)
(* workspace, source, page or filter delivers an answer to a question      *)
(* nobody asks any more.                                                   *)
(*                                                                         *)
(* Data are abstracted to their origin: the files, tags, folders and       *)
(* search results on the screen are the question that fetched them.  The   *)
(* interface runs without --standalone-writer.  The explorer's own glob    *)
(* search, the rule builder's extraction preview and the loads of the      *)
(* other views have the same shape as the loads below and are left out.    *)
(***************************************************************************)
EXTENDS Integers

CONSTANTS
    Workspace,      \* the workspaces of the state store
    Source,         \* the sources, known ones and those a scan may add
    saved,          \* the active workspace of the saved context
    home,           \* [Source -> Workspace]: where each source belongs
    Known,          \* the sources the store has at the start
    Filter,         \* path and tag filters the user may set
    NoFilter,       \* the empty filter
    LastOffset,     \* the largest page offset, in pages
    MaxEvents,      \* bound: keys pressed, outages, and loads that fail without one
    Message,        \* a line of text in place of folders: loading, or an error
    None

ASSUME DiscoverAssumption ==
    /\ saved \in Workspace
    /\ home \in [Source -> Workspace]
    /\ Known \subseteq Source
    /\ NoFilter \in Filter
    /\ {LastOffset, MaxEvents} \subseteq Nat

VARIABLES
    app,            \* App: the fields of the Discover view and the receivers
    store,          \* the sources in the state store
    reachable,      \* whether the Sentinel answers
    events          \* keys, outages and failures so far

vars == <<app, store, reachable, events>>

Prefix == {"", "dir/"}                  \* folders of the explorer
Pattern == {"**/*", "*.csv", ""}        \* patterns of the rule builder
View == {"Files", "RuleBuilder", "SourcesDropdown", "Scanning"}
Slot == {"sources", "search", "cache", "folders", "files", "tags", "scan"}

(* GlobExplorerState and RuleBuilderState.  folders is what the explorer   *)
(* shows: None when empty, a placeholder, or the origin of a listing.      *)
NewExplorer == [cache |-> [p \in Prefix |-> None], cache_loaded |-> FALSE,
                source |-> None, workspace |-> None, prefix |-> "", folders |-> None]
NewBuilder(source) == [source |-> source, pattern |-> "**/*", changed |-> FALSE,
                       streaming |-> FALSE, results |-> None]

(* DiscoverState::default(), with the page size set.                       *)
FreshDiscover ==
    [view |-> "Files", sources |-> {}, sources_loaded |-> FALSE, source |-> None,
     select_path |-> None, filter |-> NoFilter, page |-> 0, last |-> 0,
     data_loaded |-> FALSE, error |-> FALSE, files |-> None, tags |-> None,
     explorer |-> None, builder |-> None]

Origin(w, s) == [workspace |-> w, source |-> s]
Answer == {"none", "ok", "error", "gone"}

(* None is the None of Rust's Option: no workspace, no source, and no      *)
(* receiver of a cache load, answered or not.                              *)
ASSUME NoneIsNothing ==
    LET asked == [workspace : Workspace, source : Source]
    IN  None \notin UNION {Workspace, Source, [question : asked, answer : Answer],
                          [question : asked, answer : Answer, list : {{}}]}

(* The user has opened Discover: the sources are listed, the first one is  *)
(* selected, and none of its data is loaded.  ingest: in Ingest mode, on a *)
(* tab other than Sources (mode, ingest_tab).                              *)
Init ==
    /\ store = Known
    /\ \E s \in {k \in Known : home[k] = saved}, view \in {"RuleBuilder", "Files"} :
          app = [discover |-> [FreshDiscover EXCEPT
                                 !.view = view, !.sources = {k \in Known : home[k] = saved},
                                 !.sources_loaded = TRUE, !.source = s,
                                 !.builder = NewBuilder(s)],
                 workspace |-> saved, ingest |-> TRUE, connected |-> TRUE, progress |-> FALSE,
                 pending |-> [k \in Slot |-> None], returned |-> FALSE]
    /\ reachable = TRUE
    /\ events = 0

---------------------------------------------------------------------------
(* Operators on the App record.  Ask spawns a thread and keeps its         *)
(* receiver; Drop forgets the receiver; Arrived is try_recv.               *)

Ask(a, slot, question) ==
    [a EXCEPT !.pending[slot] = [question |-> question, answer |-> "none"]]
Drop(a, slot) == [a EXCEPT !.pending[slot] = None]
Waiting(a, slot) == a.pending[slot] # None
Arrived(a, slot, answers) == Waiting(a, slot) /\ a.pending[slot].answer \in answers
Return(a) == [a EXCEPT !.returned = TRUE]

start_sources_load(a) ==
    IF Waiting(a, "sources") THEN a
    ELSE IF ~a.connected THEN [a EXCEPT !.discover.sources_loaded = TRUE]
    ELSE IF a.workspace = None THEN a
    ELSE Ask(a, "sources", [workspace |-> a.workspace])

load_scout_files(a) ==
    LET d == a.discover
        Give(b) == [b EXCEPT !.discover.error = TRUE, !.discover.page = 0,
                             !.discover.last = 0, !.discover.data_loaded = TRUE]
    IN  IF d.select_path # None THEN a
        ELSE IF d.source = None THEN Give([a EXCEPT !.discover.files = None])
        ELSE IF a.workspace = None \/ ~a.connected THEN Give(a)
        ELSE IF Waiting(a, "files") THEN a
        ELSE Ask(a, "files", [workspace |-> a.workspace, source |-> d.source,
                              filter |-> d.filter, page |-> d.page])

refresh_tags_list(a) ==
    IF a.workspace = None \/ a.discover.source = None \/ ~a.connected
    THEN [a EXCEPT !.discover.tags = None]
    ELSE IF Waiting(a, "tags") THEN a
    ELSE Ask(a, "tags", Origin(a.workspace, a.discover.source))

start_folder_query(a, w, s, prefix) ==
    IF Waiting(a, "folders") \/ ~a.connected THEN a
    ELSE Ask(a, "folders", [workspace |-> w, source |-> s, prefix |-> prefix])

update_folders_from_cache(a) ==
    LET e == a.discover.explorer IN
    IF e = None THEN a
    ELSE IF e.cache[e.prefix] # None
    THEN [a EXCEPT !.discover.explorer.folders = e.cache[e.prefix]]
    ELSE LET b == [a EXCEPT !.discover.explorer.folders = Message]
         IN  IF e.source = None \/ e.workspace = None THEN b
             ELSE start_folder_query(b, e.workspace, e.source, e.prefix)

start_cache_load(a) ==
    LET d == a.discover
        Own == Origin(a.workspace, d.source)
    IN  IF d.source = None \/ a.workspace = None \/ Waiting(a, "cache") \/ ~a.connected THEN a
        ELSE IF d.explorer # None /\ d.explorer.cache_loaded
                /\ Origin(d.explorer.workspace, d.explorer.source) = Own
        THEN [a EXCEPT !.discover.data_loaded = TRUE]
        ELSE IF a.progress \/ d.error THEN a
        ELSE LET b == [Ask(a, "cache", Own) EXCEPT !.progress = TRUE] IN
             IF d.explorer = None THEN b
             ELSE [b EXCEPT !.discover.explorer = [@ EXCEPT !.cache = [p \in Prefix |-> None],
                                                            !.source = d.source,
                                                            !.workspace = a.workspace]]

(* update_rule_builder_files and update_rule_builder_exploration.  Without *)
(* a connection the sending end is dropped at once.                        *)
update_rule_builder_files(a) ==
    LET b == a.discover.builder
        cleared == [a EXCEPT !.discover.builder.results = None]
        asked == [Ask(cleared, "search", [workspace |-> a.workspace, source |-> b.source,
                                          pattern |-> b.pattern])
                     EXCEPT !.discover.builder.streaming = TRUE]
    IN  IF b = None THEN a
        ELSE IF b.pattern = "" \/ a.workspace = None \/ b.source = None THEN cleared
        ELSE IF a.connected THEN asked
        ELSE [asked EXCEPT !.pending["search"].answer = "gone"]
---------------------------------------------------------------------------
(* The steps of tick(), in its order.  An answer is "ok", "error" or       *)
(* "gone" (the thread ended without sending).                              *)

maybe_probe_control_connection(a, connected) == [a EXCEPT !.connected = connected]

(* The saved workspace, or None if it cannot be read.                      *)
ensure_active_workspace(a, w) ==
    IF a.workspace # None THEN a ELSE [a EXCEPT !.workspace = w]

PreloadSources(a) ==
    IF ~a.discover.sources_loaded /\ ~Waiting(a, "sources") THEN start_sources_load(a) ELSE a

validate_source_selection(d, first) ==
    IF d.sources = {} THEN None
    ELSE IF d.source \in d.sources THEN d.source ELSE first

(* The selection after a list of sources arrived: the source that was just *)
(* scanned if the list has it, else the one that was selected.             *)
SelectedAfter(d, first) ==
    IF d.select_path \in d.sources THEN d.select_path ELSE validate_source_selection(d, first)

(* The list is sorted by last use, so any of its sources may be first.     *)
PollSources(a, first) ==
    LET p == a.pending["sources"]
        got == [a.discover EXCEPT !.sources = p.list]
        source == SelectedAfter(got, first)
        lost == a.ingest /\ source = None /\ got.view \in {"RuleBuilder", "Files"}
        d == [got EXCEPT !.sources_loaded = TRUE,
                         !.source = source,
                         !.data_loaded = @ /\ got.select_path \notin got.sources,
                         !.select_path = None,
                         !.builder = IF @ # None /\ source # None
                                     THEN [@ EXCEPT !.source = source] ELSE @,
                         !.view = IF lost THEN "SourcesDropdown" ELSE @]
    IN  IF Arrived(a, "sources", {"ok"}) THEN [Drop(a, "sources") EXCEPT !.discover = d]
        ELSE IF Arrived(a, "sources", {"error", "gone"})
        THEN [Drop(a, "sources") EXCEPT !.discover.sources_loaded = TRUE,
                                        !.discover.select_path = None]
        ELSE a

DebounceBuilder(a, elapsed) ==
    IF /\ elapsed
       /\ a.discover.view = "RuleBuilder"
       /\ a.discover.builder # None
       /\ a.discover.builder.changed
    THEN update_rule_builder_files([a EXCEPT !.discover.builder.changed = FALSE])
    ELSE a

PollSearch(a) ==
    LET q == a.pending["search"].question
        b == a.discover.builder
        done(shown) == [Drop(a, "search") EXCEPT
                           !.discover.builder = [@ EXCEPT !.streaming = FALSE, !.results = shown]]
    IN  IF ~Arrived(a, "search", {"ok", "error", "gone"}) THEN a
        ELSE IF b = None THEN Drop(a, "search")
        ELSE IF Arrived(a, "search", {"gone"}) THEN done(b.results)
        ELSE IF q.pattern # b.pattern THEN Drop(a, "search")
        ELSE IF Arrived(a, "search", {"ok"}) THEN done(Origin(q.workspace, q.source))
        ELSE done(None)

FilledExplorer(e, origin) ==
    IF e = None THEN None
    ELSE [e EXCEPT !.cache = [p \in Prefix |-> IF p = "" THEN origin ELSE None],
                   !.cache_loaded = TRUE, !.source = origin.source,
                   !.workspace = origin.workspace, !.folders = origin]

(* The cache load is over: its receiver and its progress bar are gone.     *)
CacheEnded(a) == [Drop(a, "cache") EXCEPT !.progress = FALSE]

(* The folders of the cache are shown, and the tags that came with it.     *)
CacheShown(a, q) ==
    LET filled == [CacheEnded(a) EXCEPT !.discover.explorer = FilledExplorer(@, q)]
    IN  [update_folders_from_cache(filled) EXCEPT !.discover.tags = q,
                                                  !.discover.data_loaded = TRUE]

PollCache(a) ==
    LET q == a.pending["cache"].question
        shown == CacheShown(a, q)
    IN  IF Arrived(a, "cache", {"ok"})
        THEN IF q.workspace # a.workspace THEN Return(Drop(a, "cache"))
             ELSE IF shown.discover.view = "RuleBuilder" THEN update_rule_builder_files(shown)
             ELSE shown
        ELSE IF Arrived(a, "cache", {"error"})
        THEN [CacheEnded(a) EXCEPT
                 !.discover.error = TRUE,
                 !.discover.explorer = IF @ = None THEN @ ELSE [@ EXCEPT !.folders = None]]
        ELSE IF Arrived(a, "cache", {"gone"}) THEN CacheEnded(a)
        ELSE a

PollFolders(a) ==
    LET q == a.pending["folders"].question
        e == a.discover.explorer
        origin == Origin(q.workspace, q.source)
        b == Drop(a, "folders")
    IN  IF Arrived(a, "folders", {"ok"})
        THEN IF q.workspace # a.workspace THEN Return(b)
             ELSE IF e = None THEN b
             ELSE IF e.workspace # q.workspace THEN Return(b)
             ELSE [b EXCEPT !.discover.explorer.cache[q.prefix] = origin,
                            !.discover.explorer.folders = IF e.prefix = q.prefix THEN origin ELSE @]
        ELSE IF Arrived(a, "folders", {"error"})
        THEN IF e = None THEN b ELSE [b EXCEPT !.discover.explorer.folders = Message]
        ELSE IF Arrived(a, "folders", {"gone"}) THEN b
        ELSE a

(* Mutant: an answer for another page keeps its receiver.                  *)
poll_files_keeping_receiver(a, last) ==
    IF ~Arrived(a, "files", {"ok", "error", "gone"}) THEN a
    ELSE IF a.pending["files"].question.page # a.discover.page
            \/ a.pending["files"].question.source # a.discover.source
    THEN Return(a)
    ELSE [Drop(a, "files") EXCEPT !.discover.data_loaded = TRUE]

(* A files answer is compared with the workspace, the source and the page, *)
(* but not with the filter; an error is compared with nothing.  last is    *)
(* the offset of the last page there is.                                   *)
PollFiles(a, last) ==
    LET q == a.pending["files"].question
        b == Drop(a, "files")
    IN  IF Arrived(a, "files", {"ok"})
        THEN IF <<q.workspace, q.source, q.page>>
                    # <<a.workspace, a.discover.source, a.discover.page>>
             THEN Return(b)
             ELSE IF a.discover.page > last
             THEN Return([b EXCEPT !.discover.page = last, !.discover.data_loaded = FALSE])
             ELSE refresh_tags_list(
                    [b EXCEPT !.discover.files = q, !.discover.last = last,
                              !.discover.data_loaded = TRUE, !.discover.error = FALSE])
        ELSE IF Arrived(a, "files", {"error"})
        THEN [b EXCEPT !.discover.error = TRUE, !.discover.data_loaded = TRUE]
        ELSE IF Arrived(a, "files", {"gone"}) THEN b
        ELSE a

PollTags(a) ==
    LET q == a.pending["tags"].question
        b == Drop(a, "tags")
    IN  IF Arrived(a, "tags", {"ok"})
        THEN IF q # Origin(a.workspace, a.discover.source) THEN Return(b)
             ELSE [b EXCEPT !.discover.tags = q]
        ELSE IF Arrived(a, "tags", {"error", "gone"}) THEN b
        ELSE a

(* What the view still lacks is loaded, unless a scan is on the screen.    *)
LoadMissing(a) ==
    LET d == a.discover
        ready == [a EXCEPT !.discover.explorer = IF @ = None THEN NewExplorer ELSE @,
                           !.discover.builder = IF @ = None /\ d.view = "RuleBuilder"
                                                THEN NewBuilder(d.source) ELSE @]
        asked == load_scout_files(ready)
        e == asked.discover.explorer
        marked == IF ~e.cache_loaded /\ ~asked.discover.error /\ e.folders = None
                  THEN [asked EXCEPT !.discover.explorer.folders = Message] ELSE asked
    IN  IF a.ingest /\ d.view # "Scanning" /\ ~d.data_loaded
        THEN start_cache_load(marked) ELSE a

(* The explorer forgets its listings and stays in its folder.              *)
EmptyExplorer(e) == IF e = None THEN None ELSE [NewExplorer EXCEPT !.prefix = e.prefix]

ScanCompleted(a, path, last) ==
    LET b == start_sources_load([a EXCEPT !.discover.select_path = path,
                                          !.discover.sources_loaded = FALSE])
    IN  [CacheEnded(b) EXCEPT
            !.discover = [@ EXCEPT !.data_loaded = FALSE, !.page = 0, !.last = last,
                                   !.explorer = EmptyExplorer(a.discover.explorer),
                                   !.error = FALSE, !.view = "RuleBuilder"]]

PollScan(a, last) ==
    IF Arrived(a, "scan", {"ok"})
    THEN Drop(ScanCompleted(a, a.pending["scan"].question.source, last), "scan")
    ELSE IF Arrived(a, "scan", {"error", "gone"})
    THEN [Drop(a, "scan") EXCEPT !.discover.error = TRUE, !.discover.view = "Files"]
    ELSE a

(* Each poll happens only if no earlier one returned from tick().          *)
Then(a, Step(_)) == IF a.returned THEN a ELSE Step(a)

(* The polls of tick() that concern the sources and their data, in its     *)
(* order; home, jobs, approvals and the other views have polls of their    *)
(* own in between.                                                         *)
tick(connected, elapsed, w, first, last) ==
    LET Files(a) == PollFiles(a, last)
        Scan(a) == PollScan(a, last)
    IN  \E probed \in {maybe_probe_control_connection(app, connected)} :
        \E active \in {ensure_active_workspace(probed, w)} :
        \E preloaded \in {PreloadSources(active)} :
        \E listed \in {PollSources(preloaded, first)} :
        \E debounced \in {DebounceBuilder(listed, elapsed)} :
        \E searched \in {PollSearch(debounced)} :
        \E cached \in {PollCache(searched)} :
        \E browsed \in {Then(cached, PollFolders)} :
        \E filed \in {Then(browsed, Files)} :
        \E tagged \in {Then(filed, PollTags)} :
        \E loading \in {Then(tagged, LoadMissing)} :
            app' = [Then(loading, Scan) EXCEPT !.returned = FALSE]

(* What a tick finds: the connection, the workspace, the order of a list   *)
(* of sources and the number of pages.                                     *)
Tick(connected, elapsed) ==
    /\ \E w \in IF app.workspace = None THEN {saved, None} ELSE {None},
          first \in IF Arrived(app, "sources", {"ok"}) /\ app.pending["sources"].list # {}
                    THEN app.pending["sources"].list ELSE {None},
          last \in IF Arrived(app, "files", {"ok"}) \/ Arrived(app, "scan", {"ok"})
                   THEN 0..LastOffset ELSE {0} :
             tick(connected, elapsed, w, first, last)
    /\ UNCHANGED <<store, reachable, events>>

---------------------------------------------------------------------------
(* Keys.                                                                   *)

Press(a) ==
    /\ events < MaxEvents
    /\ app' = a
    /\ events' = events + 1
    /\ UNCHANGED <<store, reachable>>

Reload(a) == [a EXCEPT !.discover.data_loaded = FALSE]
Browsing == app.ingest /\ app.discover.view # "Scanning"

enter_discover_mode(a) ==
    [a EXCEPT !.ingest = TRUE,
              !.discover.view = "RuleBuilder",
              !.discover.builder = IF @ = None THEN NewBuilder(a.discover.source) ELSE @]

EnterDiscover == ~app.ingest /\ Press(enter_discover_mode(app))

(* Back to Home; a scan that is on the screen goes on in the background.   *)
LeaveDiscover ==
    /\ app.ingest
    /\ Press([app EXCEPT !.ingest = FALSE,
                        !.discover.view = IF @ = "Scanning" THEN "Files" ELSE @])

(* Enter in the sources dropdown.                                          *)
SelectSource(s) ==
    /\ Browsing
    /\ s \in app.discover.sources
    /\ Press([CacheEnded(Reload(app)) EXCEPT
                 !.discover = [@ EXCEPT !.source = s, !.page = 0, !.last = 0,
                                        !.filter = NoFilter, !.explorer = None,
                                        !.builder = None, !.view = "RuleBuilder"]])

(* A tag is chosen in the tags dropdown, or a path filter is committed.    *)
SetFilter(f) ==
    /\ Browsing
    /\ f # app.discover.filter
    /\ Press([Reload(app) EXCEPT !.discover.filter = f, !.discover.page = 0])

TurnPage(p) ==
    /\ Browsing
    /\ app.discover.view = "Files"
    /\ app.discover.explorer = None
    /\ p # app.discover.page /\ p <= app.discover.last
    /\ Press([Reload(app) EXCEPT !.discover.page = p])

ReloadKey == Browsing /\ Press([Reload(app) EXCEPT !.discover.sources_loaded = FALSE])
refresh_current_view == Browsing /\ Press(refresh_tags_list(Reload(app)))

(* The glob explorer, in the Files view: into a folder, back, and off.     *)
Exploring == Browsing /\ app.discover.view = "Files" /\ app.discover.explorer # None
Drill(prefix) ==
    /\ Exploring
    /\ prefix # app.discover.explorer.prefix
    /\ prefix # "" => app.discover.explorer.folders \notin {None, Message}
    /\ Press(update_folders_from_cache([app EXCEPT !.discover.explorer.prefix = prefix]))
ExitExplorer == Exploring /\ Press([Reload(app) EXCEPT !.discover.explorer = None])

TypePattern(p) ==
    /\ Browsing
    /\ app.discover.view = "RuleBuilder"
    /\ app.discover.builder # None
    /\ p # app.discover.builder.pattern
    /\ Press([app EXCEPT !.discover.builder.pattern = p, !.discover.builder.changed = TRUE])

(* The dialog for the path of a scan is opened, and closed with Esc.       *)
ClosePathDialog ==
    Browsing /\ Press([app EXCEPT !.discover.view = "Files", !.discover.error = FALSE])

(* scan_directory: without a connection scans are blocked.                 *)
scan_directory(s) ==
    /\ Browsing
    /\ home[s] = app.workspace
    /\ Press(IF ~app.connected
             THEN [app EXCEPT !.discover.view = "Files", !.discover.error = TRUE]
             ELSE [Ask(app, "scan", Origin(app.workspace, s)) EXCEPT
                     !.discover.view = "Scanning", !.discover.error = FALSE])

CancelScan ==
    /\ app.ingest /\ app.discover.view = "Scanning"
    /\ Press([Drop(app, "scan") EXCEPT !.discover.view = "Files"])

(* Mutant: the search of the rule builder outlives the switch.             *)
reset_keeping_search(a) ==
    [a EXCEPT !.discover = FreshDiscover,
              !.pending = [k \in Slot |-> IF k \in {"cache", "folders", "sources"}
                                           THEN None ELSE @[k]],
              !.progress = FALSE]

(* What a switch of workspace forgets.  The files and tags receivers stay. *)
reset_workspace_scoped_state(a) ==
    [a EXCEPT !.discover = FreshDiscover,
              !.pending = [k \in Slot |-> IF k \in {"cache", "folders", "search", "sources"}
                                           THEN None ELSE @[k]],
              !.progress = FALSE]

apply_active_workspace(w) ==
    /\ app.workspace \notin {None, w}
    /\ LET a == [reset_workspace_scoped_state(app) EXCEPT !.workspace = w]
       IN  Press(IF app.ingest THEN enter_discover_mode(a) ELSE a)

---------------------------------------------------------------------------
(* The threads and the Sentinel behind them.                               *)

Deliver(slot, p) ==
    /\ Arrived(app, slot, {"none"})
    /\ app' = [app EXCEPT !.pending[slot] = p]
    /\ UNCHANGED reachable

SourcesOf(w) == {s \in store : home[s] = w}

(* The request succeeds; a finished scan has put its source in the store.  *)
Answered(slot) ==
    /\ reachable
    /\ Waiting(app, slot)
    /\ LET q == app.pending[slot].question IN
       /\ Deliver(slot, [question |-> q, answer |-> "ok",
                         list |-> IF slot = "sources" THEN SourcesOf(q.workspace) ELSE {}])
       /\ store' = IF slot = "scan" THEN store \cup {q.source} ELSE store
    /\ UNCHANGED events

(* The Sentinel cannot be reached, the query fails, or the thread dies     *)
(* without an answer.                                                      *)
Refused(slot) ==
    /\ ~reachable
    /\ Waiting(app, slot)
    /\ Deliver(slot, [app.pending[slot] EXCEPT !.answer = "error"])
    /\ UNCHANGED <<store, events>>

Failed(slot, how) ==
    /\ events < MaxEvents
    /\ Waiting(app, slot)
    /\ Deliver(slot, [app.pending[slot] EXCEPT !.answer = how])
    /\ events' = events + 1
    /\ UNCHANGED store

SentinelStops ==
    /\ reachable
    /\ events < MaxEvents
    /\ reachable' = FALSE
    /\ events' = events + 1
    /\ UNCHANGED <<app, store>>

SentinelStarts ==
    /\ ~reachable
    /\ reachable' = TRUE
    /\ UNCHANGED <<app, store, events>>

---------------------------------------------------------------------------
Key ==
    \/ EnterDiscover \/ LeaveDiscover \/ ReloadKey \/ refresh_current_view
    \/ ExitExplorer \/ ClosePathDialog \/ CancelScan
    \/ \E s \in Source : SelectSource(s) \/ scan_directory(s)
    \/ \E f \in Filter : SetFilter(f)
    \/ \E p \in 0..LastOffset : TurnPage(p)
    \/ \E p \in Prefix : Drill(p)
    \/ \E p \in Pattern : TypePattern(p)
    \/ \E w \in Workspace : apply_active_workspace(w)

Background ==
    \/ \E k \in Slot : Answered(k) \/ Refused(k) \/ Failed(k, "error") \/ Failed(k, "gone")
    \/ SentinelStops \/ SentinelStarts

Next ==
    \/ \E c \in {app.connected, reachable}, elapsed \in BOOLEAN : Tick(c, elapsed)
    \/ Key
    \/ Background

Spec == Init /\ [][Next]_vars

(* The event loop ticks for ever, the connection is probed every two       *)
(* seconds, typing pauses, and the threads go on until none is left (their *)
(* requests time out).                                                     *)
Fairness ==
    /\ WF_vars(Tick(reachable, TRUE))
    /\ WF_vars(\E k \in Slot : Answered(k) \/ Refused(k))

FairSpec == Spec /\ Fairness

---------------------------------------------------------------------------
OriginOK(o) == o = None \/ (o.workspace \in Workspace /\ o.source \in Source)

(* Types; a source is selected exactly if there is one, and the progress   *)
(* bar of the cache is there exactly while its receiver is (PollCache,     *)
(* start_cache_load and the resets take them away together).               *)
TypeOK ==
    LET d == app.discover IN
    /\ app.workspace \in Workspace \cup {None}
    /\ d.view \in View
    /\ d.sources \subseteq Source
    /\ d.source = None <=> d.sources = {}
    /\ d.page \in 0..LastOffset /\ d.last \in 0..LastOffset
    /\ OriginOK(d.files) /\ OriginOK(d.tags)
    /\ app.returned = FALSE
    /\ app.progress <=> Waiting(app, "cache")
    /\ store \subseteq Source

(* What is on the screen never comes from another workspace than the one   *)
(* whose name is shown, although some receivers outlive a switch and the   *)
(* answers of others do not say which workspace they are about.            *)
Shown == LET d == app.discover IN
    {d.files, d.tags}
      \cup (IF d.explorer = None THEN {}
            ELSE {d.explorer.folders} \cup {d.explorer.cache[p] : p \in Prefix})
      \cup (IF d.builder = None THEN {} ELSE {d.builder.results})

WorkspaceIsolation ==
    /\ \A o \in Shown \ {None, Message} : o.workspace = app.workspace
    /\ \A s \in app.discover.sources : home[s] = app.workspace

(* "Loading" does not stay on the screen: when the user rests and the      *)
(* Sentinel stays up, whatever was asked, answered, dropped or refused     *)
(* before, the view is loaded (or shows why it is not).                    *)
LoadingEnds ==
    []reachable =>
        ((Browsing /\ ~app.discover.data_loaded) ~> (~Browsing \/ app.discover.data_loaded))
=============================================================================
