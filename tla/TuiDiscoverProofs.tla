-------------------------- MODULE TuiDiscoverProofs --------------------------
(***************************************************************************)
(* Theorems about the Discover view.  The invariant is a type that depends *)
(* on the workspace: whatever the view shows, and every receiver that a    *)
(* switch of workspace drops, belongs to the workspace that is active;     *)
(* receivers that outlive a switch may belong to any.                      *)
(***************************************************************************)
EXTENDS TuiDiscover, TLAPS

\* The sources of workspace w, and the origins of data fetched for it.
SourcesAt(w) == {s \in Source : home[s] = w}
Origins(W) == [workspace : W, source : Source]
FileQuestions(W) ==
    [workspace : W, source : Source, filter : Filter, page : 0 .. LastOffset]

Explorers(w) ==
    [cache : [Prefix -> Origins({w}) \cup {None}], cache_loaded : BOOLEAN,
     source : Source \cup {None}, workspace : {w, None}, prefix : Prefix,
     folders : Origins({w}) \cup {None, Message}]

Builders(w) ==
    [source : Source \cup {None}, pattern : Pattern, changed : BOOLEAN,
     streaming : BOOLEAN, results : Origins({w}) \cup {None}]

Discovers(w) ==
    [view : View, sources : SUBSET SourcesAt(w), sources_loaded : BOOLEAN,
     source : Source \cup {None}, select_path : Source \cup {None}, filter : Filter,
     page : 0 .. LastOffset, last : 0 .. LastOffset, data_loaded : BOOLEAN,
     error : BOOLEAN, files : FileQuestions({w}) \cup {None},
     tags : Origins({w}) \cup {None}, explorer : Explorers(w) \cup {None},
     builder : Builders(w) \cup {None}]

\* What a thread may have been asked while w is active: the receivers of files,
\* tags and scans may be older than that.
Question(k, w) ==
    CASE k = "sources" -> [workspace : {w}]
      [] k = "search"  -> [workspace : {w}, source : Source, pattern : Pattern]
      [] k = "cache"   -> Origins({w})
      [] k = "folders" -> [workspace : {w}, source : Source, prefix : Prefix]
      [] k = "files"   -> FileQuestions(Workspace)
      [] OTHER         -> Origins(Workspace)

Listing(k, w) == IF k = "sources" THEN SUBSET SourcesAt(w) ELSE {{}}

Receivers(k, w) ==
    [question : Question(k, w), answer : Answer \ {"ok"}]
      \cup [question : Question(k, w), answer : {"ok"}, list : Listing(k, w)]

Receiver(w) == UNION {Receivers(k, w) : k \in Slot}

Pendings(w) ==
    {p \in [Slot -> Receiver(w) \cup {None}] : \A k \in Slot : p[k] \in Receivers(k, w) \cup {None}}

Apps(w) ==
    [discover : Discovers(w), workspace : {w}, ingest : BOOLEAN, connected : BOOLEAN,
     progress : BOOLEAN, pending : Pendings(w), returned : BOOLEAN]

\* A source is selected exactly if there is one; the progress bar of the cache is
\* there exactly while its receiver is.
Selected(d) == /\ d.source = None <=> d.sources = {}
               /\ d.source = None \/ d.source \in d.sources
Good(a, w) ==
    /\ a \in Apps(w)
    /\ Selected(a.discover)
    /\ a.progress <=> a.pending["cache"] # None

AppInv ==
    /\ app.workspace \in Workspace
    /\ Good(app, app.workspace)
    /\ app.returned = FALSE
    /\ store \subseteq Source
    /\ reachable \in BOOLEAN

--------------------------------------------------------------------------------
(* The records. *)

\* The receiver of a slot.
LEMMA PendingAt ==
    ASSUME NEW w, NEW p \in Pendings(w), NEW k \in Slot
    PROVE  p[k] \in Receivers(k, w) \cup {None}
  BY DEF Pendings

\* A receiver is replaced or dropped.
LEMMA PendingPut ==
    ASSUME NEW w, NEW p \in Pendings(w), NEW k \in Slot, NEW r \in Receivers(k, w) \cup {None}
    PROVE  /\ [p EXCEPT ![k] = r] \in Pendings(w)
           /\ [p EXCEPT ![k] = r][k] = r
           /\ \A i \in Slot : i # k => [p EXCEPT ![k] = r][i] = p[i]
  <1>1. r \in Receiver(w) \cup {None}
    BY DEF Receiver
  <1> QED
    BY <1>1 DEF Pendings

\* The parts of an App record, and how to build one.
LEMMA AppParts ==
    ASSUME NEW w, NEW a \in Apps(w)
    PROVE  /\ a.discover \in Discovers(w) /\ a.pending \in Pendings(w) /\ a.workspace = w
           /\ a.ingest \in BOOLEAN /\ a.connected \in BOOLEAN /\ a.progress \in BOOLEAN
           /\ a.returned \in BOOLEAN
  BY DEF Apps

\* One part of an App record is replaced.
LEMMA AppPut ==
    ASSUME NEW w, NEW a \in Apps(w)
    PROVE  /\ \A d \in Discovers(w) : LET b == [a EXCEPT !.discover = d] IN
                 b \in Apps(w) /\ b.discover = d /\ b.pending = a.pending
                 /\ b.progress = a.progress /\ b.connected = a.connected /\ b.ingest = a.ingest
                 /\ b.returned = a.returned
           /\ \A p \in Pendings(w) : LET b == [a EXCEPT !.pending = p] IN
                 b \in Apps(w) /\ b.discover = a.discover /\ b.pending = p
                 /\ b.progress = a.progress /\ b.connected = a.connected /\ b.ingest = a.ingest
                 /\ b.returned = a.returned
           /\ \A x \in BOOLEAN : LET b == [a EXCEPT !.progress = x] IN
                 b \in Apps(w) /\ b.discover = a.discover /\ b.pending = a.pending
                 /\ b.progress = x
  BY DEF Apps

\* b is a good App that differs from a only in its view, its receivers and its
\* progress bar.
Keeps(a, b, w) ==
    /\ Good(b, w)
    /\ b.connected = a.connected /\ b.ingest = a.ingest /\ b.returned = a.returned

\* Two changes one after the other.
LEMMA KeepsChain ==
    ASSUME NEW w, NEW a, NEW b, NEW c, Keeps(a, b, w), Keeps(b, c, w)
    PROVE  Keeps(a, c, w)
  BY DEF Keeps

\* What an operation does to an App record is built from these.
SetView(a, d) == [a EXCEPT !.discover = d]
SetSlot(a, k, r) == [a EXCEPT !.pending[k] = r]
SetCache(a, r, x) == [a EXCEPT !.pending["cache"] = r, !.progress = x]

\* Several fields of the view, or of a part of it, changed one after the other are
\* one change.
LEMMA Nest ==
    ASSUME NEW w, NEW a \in Apps(w)
    PROVE  /\ \A d : [a EXCEPT !.discover = d].discover = d
           /\ \A d, e : [[a EXCEPT !.discover = d] EXCEPT !.discover = e] = [a EXCEPT !.discover = e]
  BY DEF Apps

\* The same for the explorer and the builder of a view.
LEMMA NestView ==
    ASSUME NEW w, NEW d \in Discovers(w)
    PROVE  /\ \A e : [d EXCEPT !.explorer = e].explorer = e
           /\ \A e, f : [[d EXCEPT !.explorer = e] EXCEPT !.explorer = f] = [d EXCEPT !.explorer = f]
           /\ \A e : [d EXCEPT !.builder = e].builder = e
           /\ \A e, f : [[d EXCEPT !.builder = e] EXCEPT !.builder = f] = [d EXCEPT !.builder = f]
  BY DEF Discovers

\* The view is replaced by another of the same workspace.
LEMMA ViewGood ==
    ASSUME NEW w, NEW a, Good(a, w), NEW d \in Discovers(w), Selected(d)
    PROVE  /\ Keeps(a, SetView(a, d), w)
           /\ SetView(a, d).discover = d /\ SetView(a, d).pending = a.pending
  <1> DEFINE b == SetView(a, d)
  <1>1. /\ b \in Apps(w) /\ b.discover = d /\ b.pending = a.pending
        /\ b.progress = a.progress /\ b.connected = a.connected /\ b.ingest = a.ingest
        /\ b.returned = a.returned
    BY AppPut DEF Good, SetView
  <1> HIDE DEF b
  <1>2. Good(b, w)
    BY <1>1 DEF Good
  <1> QED
    BY <1>1, <1>2 DEF b, Keeps

\* A receiver other than the cache's is replaced.
LEMMA SlotGood ==
    ASSUME NEW w, NEW a, Good(a, w), NEW k \in Slot, k # "cache", NEW r \in Receivers(k, w) \cup {None}
    PROVE  LET b == SetSlot(a, k, r)
           IN  Keeps(a, b, w) /\ b.discover = a.discover /\ b.pending[k] = r
  <1> DEFINE p == [a.pending EXCEPT ![k] = r]
             b == [a EXCEPT !.pending = p]
  <1>1. "cache" \in Slot
    BY DEF Slot
  <1>2. p \in Pendings(w) /\ p["cache"] = a.pending["cache"] /\ p[k] = r
    BY <1>1, PendingPut, AppParts DEF Good
  <1> HIDE DEF p
  <1>4. /\ b \in Apps(w) /\ b.discover = a.discover /\ b.pending = p
        /\ b.progress = a.progress /\ b.connected = a.connected /\ b.ingest = a.ingest
        /\ b.returned = a.returned
    BY <1>2, AppPut DEF Good
  <1> HIDE DEF b
  <1>5. Good(b, w)
    BY <1>2, <1>4 DEF Good
  <1>6. SetSlot(a, k, r) = b
    BY DEF SetSlot, b, p
  <1> QED
    BY <1>2, <1>4, <1>5, <1>6 DEF p, Keeps

\* The receiver of the cache is replaced, and the progress bar with it.
LEMMA CacheGood ==
    ASSUME NEW w, NEW a, Good(a, w), NEW r \in Receivers("cache", w) \cup {None},
           NEW x \in BOOLEAN, x = TRUE <=> r # None
    PROVE  LET b == SetCache(a, r, x)
           IN  Keeps(a, b, w) /\ b.discover = a.discover
  <1> DEFINE p == [a.pending EXCEPT !["cache"] = r]
             c == [a EXCEPT !.pending = p]
             b == [c EXCEPT !.progress = x]
  <1>0. "cache" \in Slot
    BY DEF Slot
  <1>1. p \in Pendings(w) /\ p["cache"] = r
    BY <1>0, PendingPut, AppParts DEF Good
  <1> HIDE DEF p
  <1>2. c \in Apps(w) /\ c.discover = a.discover /\ c.pending = p /\ c.connected = a.connected
        /\ c.ingest = a.ingest /\ c.returned = a.returned
    BY <1>1, AppPut DEF Good
  <1> HIDE DEF c
  <1>3. b \in Apps(w) /\ b.discover = a.discover /\ b.pending = p /\ b.progress = x
        /\ b.connected = a.connected /\ b.ingest = a.ingest /\ b.returned = a.returned
    BY <1>2 DEF Apps
  <1> HIDE DEF b
  <1>4. Good(b, w)
    BY <1>1, <1>3 DEF Good
  <1>5. SetCache(a, r, x) = b
    BY DEF SetCache, b, c, p
  <1> QED
    BY <1>1, <1>3, <1>4, <1>5 DEF Keeps

\* Asking and dropping.
LEMMA AskGood ==
    ASSUME NEW w, NEW a, Good(a, w), NEW k \in Slot, k # "cache", NEW q \in Question(k, w)
    PROVE  LET b == Ask(a, k, q)
           IN  Keeps(a, b, w) /\ b.discover = a.discover /\ b.pending[k].answer = "none"
  <1> DEFINE r == [question |-> q, answer |-> "none"]
  <1>1. r \in Receivers(k, w)
    BY DEF Receivers, Answer
  <1>2. Ask(a, k, q) = SetSlot(a, k, r)
    BY DEF Ask, SetSlot
  <1> HIDE DEF r
  <1>3. r \in Receivers(k, w) \cup {None}
    BY <1>1
  <1>4. Keeps(a, SetSlot(a, k, r), w) /\ SetSlot(a, k, r).discover = a.discover
        /\ SetSlot(a, k, r).pending[k] = r
    BY <1>3, SlotGood
  <1> QED
    BY <1>2, <1>4 DEF r

\* A receiver is dropped.
LEMMA DropGood ==
    ASSUME NEW w, NEW a, Good(a, w), NEW k \in Slot, k # "cache"
    PROVE  Keeps(a, Drop(a, k), w) /\ Drop(a, k).discover = a.discover
  <1>1. Drop(a, k) = SetSlot(a, k, None)
    BY DEF Drop, SetSlot
  <1> QED
    BY <1>1, SlotGood

\* The cache load ends, and its progress bar with it.
LEMMA CacheDrop ==
    ASSUME NEW w, NEW a, Good(a, w)
    PROVE  Keeps(a, CacheEnded(a), w) /\ CacheEnded(a).discover = a.discover
  <1>1. CacheEnded(a) = SetCache(a, None, FALSE)
    BY DEF CacheEnded, Drop, SetCache
  <1>2. Keeps(a, SetCache(a, None, FALSE), w) /\ SetCache(a, None, FALSE).discover = a.discover
    BY CacheGood
  <1> QED
    BY <1>1, <1>2

\* The cache is asked for, and its progress bar appears.
LEMMA CacheAsk ==
    ASSUME NEW w \in Workspace, NEW a, Good(a, w), NEW q \in Question("cache", w)
    PROVE  LET b == [Ask(a, "cache", q) EXCEPT !.progress = TRUE]
           IN  Keeps(a, b, w) /\ b.discover = a.discover
  <1> DEFINE r == [question |-> q, answer |-> "none"]
  <1>1. r \in Receivers("cache", w)
    BY DEF Receivers, Answer
  <1>2. q \in [workspace : Workspace, source : Source]
    BY DEF Question, Origins
  <1>3. r # None
    BY <1>2, NoneIsNothing DEF Answer
  <1>4. [Ask(a, "cache", q) EXCEPT !.progress = TRUE] = SetCache(a, r, TRUE)
    BY DEF Ask, SetCache
  <1> HIDE DEF r
  <1>5. r \in Receivers("cache", w) \cup {None}
    BY <1>1
  <1>6. Keeps(a, SetCache(a, r, TRUE), w) /\ SetCache(a, r, TRUE).discover = a.discover
    BY <1>3, <1>5, CacheGood
  <1> QED
    BY <1>4, <1>6

--------------------------------------------------------------------------------
(* The operators of tick() and of the keys. *)

\* The question of a receiver, and what a list of sources may contain.
LEMMA Asked ==
    ASSUME NEW w, NEW a, Good(a, w), NEW k \in Slot, a.pending[k] # None
    PROVE  /\ a.pending[k].question \in Question(k, w)
           /\ a.pending[k].answer = "ok" => a.pending[k].list \in Listing(k, w)
  <1>1. a.pending[k] \in Receivers(k, w)
    BY PendingAt, AppParts DEF Good
  <1> QED
    BY <1>1 DEF Receivers

\* The view of a good App.
LEMMA GoodView ==
    ASSUME NEW w, NEW a, Good(a, w)
    PROVE  a.discover \in Discovers(w) /\ Selected(a.discover) /\ a.workspace = w /\ a \in Apps(w)
  BY AppParts DEF Good

\* Nothing changes.
LEMMA KeepsSelf ==
    ASSUME NEW w, NEW a, Good(a, w)
    PROVE  Keeps(a, a, w)
  BY DEF Keeps

\* start_sources_load asks for the sources unless it is waiting for them already.
LEMMA StartSources ==
    ASSUME NEW w \in Workspace, NEW a, Good(a, w)
    PROVE  LET b == start_sources_load(a)
           IN  /\ Keeps(a, b, w)
               /\ b.discover.explorer = a.discover.explorer
               /\ Waiting(a, "sources") => b = a
               /\ ~Waiting(a, "sources") => ~Arrived(b, "sources", {"ok"})
  <1> "sources" \in Slot
    BY DEF Slot
  <1>0. a.discover \in Discovers(w) /\ Selected(a.discover)
    BY GoodView
  <1>1. CASE Waiting(a, "sources") \/ (a.connected /\ a.workspace = None)
    BY <1>1, KeepsSelf DEF start_sources_load, Arrived
  <1>2. CASE ~Waiting(a, "sources") /\ ~a.connected
    <2> DEFINE d == [a.discover EXCEPT !.sources_loaded = TRUE]
    <2>1. start_sources_load(a) = SetView(a, d)
      BY <1>2 DEF start_sources_load, SetView
    <2>2. d \in Discovers(w) /\ Selected(d) /\ d.explorer = a.discover.explorer
      BY <1>0 DEF Discovers, Selected
    <2> HIDE DEF d
    <2>3. /\ Keeps(a, SetView(a, d), w) /\ SetView(a, d).discover = d
          /\ SetView(a, d).pending = a.pending
      BY <2>2, ViewGood
    <2> QED
      BY <1>2, <2>1, <2>2, <2>3 DEF Waiting, Arrived
  <1>3. CASE ~Waiting(a, "sources") /\ a.connected /\ a.workspace # None
    <2> DEFINE q == [workspace |-> a.workspace]
               b == Ask(a, "sources", q)
    <2>1. start_sources_load(a) = b
      BY <1>3 DEF start_sources_load
    <2>2. q \in Question("sources", w)
      BY GoodView DEF Question
    <2> HIDE DEF q
    <2>3. /\ Keeps(a, b, w) /\ b.discover = a.discover
          /\ b.pending["sources"].answer = "none"
      BY <2>2, AskGood
    <2> HIDE DEF b
    <2> QED
      BY <1>3, <2>1, <2>3 DEF Arrived
  <1> QED
    BY <1>1, <1>2, <1>3

\* load_scout_files asks for the files, or gives up and says so.
LEMMA LoadFiles ==
    ASSUME NEW w \in Workspace, NEW a, Good(a, w)
    PROVE  /\ Keeps(a, load_scout_files(a), w)
           /\ load_scout_files(a).discover.explorer = a.discover.explorer
  <1> DEFINE o == a.discover
             f == [o EXCEPT !.files = None]
             Stops(d) == [d EXCEPT !.error = TRUE, !.page = 0, !.last = 0, !.data_loaded = TRUE]
  <1>0. o \in Discovers(w) /\ Selected(o) /\ a.workspace = w /\ a \in Apps(w)
    BY GoodView
  <1>1. ASSUME NEW d \in Discovers(w), Selected(d)
        PROVE  Stops(d) \in Discovers(w) /\ Selected(Stops(d)) /\ Stops(d).explorer = d.explorer
    <2>1. 0 \in 0 .. LastOffset
      BY DiscoverAssumption
    <2> QED
      BY <1>1, <2>1 DEF Discovers, Selected
  <1>2. ASSUME NEW b \in Apps(w)
        PROVE  [b EXCEPT !.discover.error = TRUE, !.discover.page = 0, !.discover.last = 0,
                         !.discover.data_loaded = TRUE] = SetView(b, Stops(b.discover))
    BY <1>2, Nest DEF SetView
  <1>3. CASE o.select_path # None \/ (o.source # None /\ w # None /\ a.connected /\ Waiting(a, "files"))
    BY <1>0, <1>3, KeepsSelf DEF load_scout_files
  <1>4. CASE o.select_path = None /\ o.source = None
    <2> DEFINE b == SetView(a, f)
    <2>1. f \in Discovers(w) /\ Selected(f) /\ f.explorer = o.explorer
      BY <1>0 DEF Discovers, Selected
    <2> HIDE DEF f
    <2>2. Keeps(a, b, w) /\ b.discover = f
      BY <2>1, ViewGood
    <2>3. b \in Apps(w) /\ Good(b, w)
      BY <2>2 DEF Keeps, Good
    <2>4. load_scout_files(a) = [b EXCEPT !.discover.error = TRUE, !.discover.page = 0,
                                          !.discover.last = 0, !.discover.data_loaded = TRUE]
      BY <1>4 DEF load_scout_files, SetView, f
    <2> HIDE DEF b
    <2>5. load_scout_files(a) = SetView(b, Stops(b.discover))
      BY <1>2, <2>3, <2>4
    <2> DEFINE s == Stops(f)
    <2>6. s \in Discovers(w) /\ Selected(s) /\ s.explorer = o.explorer
      BY <1>1, <2>1
    <2> HIDE DEF s
    <2>7. Keeps(b, SetView(b, s), w) /\ SetView(b, s).discover = s
      BY <2>3, <2>6, ViewGood
    <2>8. load_scout_files(a) = SetView(b, s)
      BY <2>2, <2>5 DEF s
    <2> QED
      BY <2>2, <2>6, <2>7, <2>8, KeepsChain
  <1>5. CASE o.select_path = None /\ o.source # None /\ (w = None \/ ~a.connected)
    <2> DEFINE s == Stops(o)
    <2>1. load_scout_files(a) = SetView(a, s)
      BY <1>0, <1>2, <1>5 DEF load_scout_files
    <2>2. s \in Discovers(w) /\ Selected(s) /\ s.explorer = o.explorer
      BY <1>0, <1>1
    <2> HIDE DEF s
    <2>3. Keeps(a, SetView(a, s), w) /\ SetView(a, s).discover = s
      BY <2>2, ViewGood
    <2> QED
      BY <2>1, <2>2, <2>3
  <1>6. CASE o.select_path = None /\ o.source # None /\ w # None /\ a.connected /\ ~Waiting(a, "files")
    <2> DEFINE q == [workspace |-> w, source |-> o.source, filter |-> o.filter, page |-> o.page]
    <2>1. load_scout_files(a) = Ask(a, "files", q)
      BY <1>0, <1>6 DEF load_scout_files
    <2>2. q \in FileQuestions(Workspace)
      BY <1>0, <1>6 DEF Discovers, FileQuestions
    <2> HIDE DEF q
    <2>3. q \in Question("files", w) /\ "files" \in Slot
      BY <2>2 DEF Question, Slot
    <2>4. Keeps(a, Ask(a, "files", q), w) /\ Ask(a, "files", q).discover = o
      BY <2>3, AskGood
    <2> QED
      BY <2>1, <2>4
  <1> QED
    BY <1>3, <1>4, <1>5, <1>6

\* refresh_tags_list asks for the tags of the source, or shows none.
LEMMA RefreshTags ==
    ASSUME NEW w \in Workspace, NEW a, Good(a, w)
    PROVE  Keeps(a, refresh_tags_list(a), w)
  <1> DEFINE o == a.discover
             d == [o EXCEPT !.tags = None]
             q == Origin(w, o.source)
  <1>0. o \in Discovers(w) /\ Selected(o) /\ a.workspace = w
    BY GoodView
  <1>1. CASE w = None \/ o.source = None \/ ~a.connected
    <2>1. refresh_tags_list(a) = SetView(a, d)
      BY <1>0, <1>1 DEF refresh_tags_list, SetView
    <2>2. d \in Discovers(w) /\ Selected(d)
      BY <1>0 DEF Discovers, Selected
    <2> HIDE DEF d
    <2> QED
      BY <2>1, <2>2, ViewGood
  <1>2. CASE w # None /\ o.source # None /\ a.connected
    <2>1. CASE Waiting(a, "tags")
      BY <1>0, <1>2, <2>1, KeepsSelf DEF refresh_tags_list
    <2>2. CASE ~Waiting(a, "tags")
      <3>1. refresh_tags_list(a) = Ask(a, "tags", q)
        BY <1>0, <1>2, <2>2 DEF refresh_tags_list
      <3>2. q \in Question("tags", w) /\ "tags" \in Slot
        BY <1>0, <1>2 DEF Discovers, Question, Origins, Origin, Slot
      <3> HIDE DEF q
      <3> QED
        BY <3>1, <3>2, AskGood
    <2> QED
      BY <2>1, <2>2
  <1> QED
    BY <1>1, <1>2

\* A change of the explorer alone, and of the builder alone.
LEMMA ExplorerGood ==
    ASSUME NEW w, NEW a, Good(a, w), NEW e \in Explorers(w) \cup {None}
    PROVE  LET b == SetView(a, [a.discover EXCEPT !.explorer = e])
           IN  Keeps(a, b, w) /\ b.discover.explorer = e /\ b.pending = a.pending
  <1> DEFINE d == [a.discover EXCEPT !.explorer = e]
  <1>0. a.discover \in Discovers(w) /\ Selected(a.discover)
    BY GoodView
  <1>1. d \in Discovers(w) /\ Selected(d) /\ d.explorer = e
    BY <1>0 DEF Discovers, Selected
  <1> HIDE DEF d
  <1>3. Keeps(a, SetView(a, d), w) /\ SetView(a, d).discover = d /\ SetView(a, d).pending = a.pending
    BY <1>1, ViewGood
  <1> QED
    BY <1>1, <1>3 DEF d

\* A change of the rule builder alone.
LEMMA BuilderGood ==
    ASSUME NEW w, NEW a, Good(a, w), NEW r \in Builders(w) \cup {None}
    PROVE  LET b == SetView(a, [a.discover EXCEPT !.builder = r])
           IN  /\ Keeps(a, b, w) /\ b.discover.explorer = a.discover.explorer
               /\ b.discover.builder = r
  <1> DEFINE d == [a.discover EXCEPT !.builder = r]
  <1>0. a.discover \in Discovers(w) /\ Selected(a.discover)
    BY GoodView
  <1>1. d \in Discovers(w) /\ Selected(d) /\ d.explorer = a.discover.explorer /\ d.builder = r
    BY <1>0 DEF Discovers, Selected
  <1> HIDE DEF d
  <1>3. Keeps(a, SetView(a, d), w) /\ SetView(a, d).discover = d
    BY <1>1, ViewGood
  <1> QED
    BY <1>1, <1>3 DEF d

\* start_folder_query asks for the folders of the explorer's own workspace.
LEMMA FolderQuery ==
    ASSUME NEW w, NEW a, Good(a, w), NEW s \in Source, NEW x \in Prefix
    PROVE  LET b == start_folder_query(a, w, s, x)
           IN  Keeps(a, b, w) /\ b.discover = a.discover
  <1> DEFINE q == [workspace |-> w, source |-> s, prefix |-> x]
  <1>1. CASE Waiting(a, "folders") \/ ~a.connected
    BY <1>1, KeepsSelf DEF start_folder_query
  <1>2. CASE ~(Waiting(a, "folders") \/ ~a.connected)
    <2>1. start_folder_query(a, w, s, x) = Ask(a, "folders", q)
      BY <1>2 DEF start_folder_query
    <2>2. q \in Question("folders", w) /\ "folders" \in Slot
      BY DEF Question, Slot
    <2> HIDE DEF q
    <2>3. Keeps(a, Ask(a, "folders", q), w) /\ Ask(a, "folders", q).discover = a.discover
      BY <2>2, AskGood
    <2> QED
      BY <2>1, <2>3
  <1> QED
    BY <1>1, <1>2

\* update_folders_from_cache shows a listing of the explorer's cache, or that it is
\* loading, and asks for it.
LEMMA UpdateFolders ==
    ASSUME NEW w, NEW a, Good(a, w)
    PROVE  Keeps(a, update_folders_from_cache(a), w)
  <1> DEFINE o == a.discover
             e == o.explorer
             Shows(x) == [e EXCEPT !.folders = x]
             Put(x) == SetView(a, [o EXCEPT !.explorer = Shows(x)])
  <1>0. o \in Discovers(w) /\ a \in Apps(w)
    BY GoodView
  <1>1. e \in Explorers(w) \cup {None}
    BY <1>0 DEF Discovers
  <1>2. CASE e = None
    BY <1>2, KeepsSelf DEF update_folders_from_cache
  <1>3. CASE e # None
    <2>1. e \in Explorers(w)
      BY <1>1, <1>3
    <2>2. ASSUME NEW x PROVE [a EXCEPT !.discover.explorer.folders = x] = Put(x)
      BY DEF SetView
    <2>3. ASSUME NEW x \in Origins({w}) \cup {None, Message}
          PROVE  Keeps(a, Put(x), w) /\ Put(x).discover.explorer = Shows(x)
      <3> DEFINE n == Shows(x)
      <3>1. n \in Explorers(w) \cup {None}
        BY <2>1, <2>3 DEF Explorers
      <3> HIDE DEF n
      <3>2. LET b == SetView(a, [o EXCEPT !.explorer = n])
            IN  Keeps(a, b, w) /\ b.discover.explorer = n
        BY <3>1, ExplorerGood
      <3> QED
        BY <3>2 DEF n
    <2>4. e.cache[e.prefix] \in Origins({w}) \cup {None}
      BY <2>1 DEF Explorers
    <2>5. CASE e.cache[e.prefix] # None
      <3>1. update_folders_from_cache(a) = Put(e.cache[e.prefix])
        BY <1>3, <2>2, <2>5 DEF update_folders_from_cache
      <3> QED
        BY <2>3, <2>4, <3>1
    <2>6. CASE e.cache[e.prefix] = None
      <3> DEFINE b == Put(Message)
      <3>1. Keeps(a, b, w)
        BY <2>3
      <3>2. update_folders_from_cache(a) = IF e.source = None \/ e.workspace = None THEN b
                                           ELSE start_folder_query(b, e.workspace, e.source, e.prefix)
        BY <1>3, <2>2, <2>6 DEF update_folders_from_cache
      <3> HIDE DEF b
      <3>3. CASE e.source = None \/ e.workspace = None
        BY <3>1, <3>2, <3>3
      <3>4. CASE ~(e.source = None \/ e.workspace = None)
        <4>1. e.source \in Source /\ e.workspace = w /\ e.prefix \in Prefix
          BY <2>1, <3>4 DEF Explorers
        <4>2. Good(b, w)
          BY <3>1 DEF Keeps
        <4>3. Keeps(b, start_folder_query(b, w, e.source, e.prefix), w)
          BY <4>1, <4>2, FolderQuery
        <4> QED
          BY <3>1, <3>2, <3>4, <4>1, <4>3, KeepsChain
      <3> QED
        BY <3>3, <3>4
    <2> QED
      BY <2>5, <2>6
  <1> QED
    BY <1>2, <1>3

\* start_cache_load asks for the cache of the selected source and empties the
\* explorer for it.
LEMMA StartCache ==
    ASSUME NEW w \in Workspace, NEW a, Good(a, w)
    PROVE  Keeps(a, start_cache_load(a), w)
  <1> DEFINE o == a.discover
             l == [o EXCEPT !.data_loaded = TRUE]
             q == Origin(w, o.source)
             b == [Ask(a, "cache", q) EXCEPT !.progress = TRUE]
             c == [x \in Prefix |-> None]
             n == [o.explorer EXCEPT !.cache = c, !.source = o.source, !.workspace = w]
  <1>0. o \in Discovers(w) /\ Selected(o) /\ a.workspace = w
    BY GoodView
  <1>1. CASE o.source = None \/ w = None \/ Waiting(a, "cache") \/ ~a.connected
    BY <1>0, <1>1, KeepsSelf DEF start_cache_load
  <1>2. CASE ~(o.source = None \/ w = None \/ Waiting(a, "cache") \/ ~a.connected)
    <2>1. start_cache_load(a) = SetView(a, l) \/ start_cache_load(a) = a
          \/ start_cache_load(a) = IF o.explorer = None THEN b
                ELSE [b EXCEPT !.discover.explorer =
                        [@ EXCEPT !.cache = c, !.source = o.source, !.workspace = w]]
      BY <1>0, <1>2 DEF start_cache_load, SetView
    <2>2. CASE start_cache_load(a) = SetView(a, l)
      <3>1. l \in Discovers(w) /\ Selected(l)
        BY <1>0 DEF Discovers, Selected
      <3> HIDE DEF l
      <3> QED
        BY <2>2, <3>1, ViewGood
    <2>3. CASE start_cache_load(a) = a
      BY <2>3, KeepsSelf
    <2>4. CASE start_cache_load(a) = IF o.explorer = None THEN b
                ELSE [b EXCEPT !.discover.explorer =
                        [@ EXCEPT !.cache = c, !.source = o.source, !.workspace = w]]
      <3>1. q \in Question("cache", w) /\ o.source \in Source
        BY <1>0, <1>2 DEF Discovers, Question, Origins, Origin
      <3> HIDE DEF q
      <3>2. Keeps(a, b, w) /\ b.discover = o
        BY <3>1, CacheAsk
      <3> HIDE DEF b
      <3>3. CASE o.explorer = None
        BY <2>4, <3>2, <3>3
      <3>4. CASE o.explorer # None
        <4>1. Good(b, w) /\ b \in Apps(w)
          BY <3>2 DEF Keeps, Good
        <4>2. o.explorer \in Explorers(w)
          BY <1>0, <3>4 DEF Discovers
        <4>3. n \in Explorers(w) \cup {None}
          BY <3>1, <4>2 DEF Explorers
        <4>4. b.discover.explorer = o.explorer
          BY <3>2
        <4>5. start_cache_load(a) = [b EXCEPT !.discover.explorer = n]
          BY <2>4, <3>4, <4>4
        <4> HIDE DEF n
        <4>6. start_cache_load(a) = SetView(b, [b.discover EXCEPT !.explorer = n])
          BY <4>5 DEF SetView
        <4>7. Keeps(b, SetView(b, [b.discover EXCEPT !.explorer = n]), w)
          BY <4>1, <4>3, ExplorerGood
        <4> QED
          BY <3>2, <4>6, <4>7, KeepsChain
      <3> QED
        BY <3>3, <3>4
    <2> QED
      BY <2>1, <2>2, <2>3, <2>4
  <1> QED
    BY <1>1, <1>2

\* update_rule_builder_files clears the results and searches for the pattern.
LEMMA UpdateBuilder ==
    ASSUME NEW w \in Workspace, NEW a, Good(a, w)
    PROVE  Keeps(a, update_rule_builder_files(a), w)
  <1> DEFINE o == a.discover
             r == o.builder
             n == [r EXCEPT !.results = None]
             m == [n EXCEPT !.streaming = TRUE]
             b == SetView(a, [o EXCEPT !.builder = n])
             q == [workspace |-> w, source |-> r.source, pattern |-> r.pattern]
             c == Ask(b, "search", q)
             d == SetView(c, [c.discover EXCEPT !.builder = m])
             gone == [question |-> q, answer |-> "gone"]
  <1>0. o \in Discovers(w) /\ Selected(o) /\ a.workspace = w /\ a \in Apps(w)
    BY GoodView
  <1>1. CASE r = None
    BY <1>1, KeepsSelf DEF update_rule_builder_files
  <1>2. CASE r # None
    <2>1. r \in Builders(w)
      BY <1>0, <1>2 DEF Discovers
    <2>2. n \in Builders(w) \cup {None} /\ m \in Builders(w) \cup {None}
      BY <2>1 DEF Builders
    <2>3. [a EXCEPT !.discover.builder.results = None] = b
      BY DEF SetView
    <2> HIDE DEF n, m
    <2>4. Keeps(a, b, w) /\ b.discover.builder = n
      BY <2>2, BuilderGood
    <2>5. Good(b, w)
      BY <2>4 DEF Keeps
    <2>6. CASE r.pattern = "" \/ w = None \/ r.source = None
      BY <1>0, <1>2, <2>3, <2>4, <2>6 DEF update_rule_builder_files
    <2>7. CASE ~(r.pattern = "" \/ w = None \/ r.source = None)
      <3> HIDE DEF b
      <3>1. q \in Question("search", w) /\ "search" \in Slot
        BY <2>1, <2>7 DEF Builders, Question, Slot
      <3>2. [Ask([a EXCEPT !.discover.builder.results = None], "search",
                 [workspace |-> a.workspace, source |-> r.source, pattern |-> r.pattern])
               EXCEPT !.discover.builder.streaming = TRUE]
             = [c EXCEPT !.discover.builder.streaming = TRUE]
        BY <1>0, <2>3
      <3> DEFINE asked == [c EXCEPT !.discover.builder.streaming = TRUE]
      <3>3. update_rule_builder_files(a) = asked
            \/ update_rule_builder_files(a) = [asked EXCEPT !.pending["search"].answer = "gone"]
        BY <1>2, <2>7, <3>2, <1>0 DEF update_rule_builder_files
      <3> HIDE DEF q
      <3>4. Keeps(b, c, w) /\ c.discover = b.discover
        BY <2>5, <3>1, AskGood
      <3>5. Good(c, w) /\ c.pending["search"] = [question |-> q, answer |-> "none"]
        <4>1. Good(c, w)
          BY <3>4 DEF Keeps
        <4>2. "search" \in DOMAIN b.pending
          BY <2>5, <3>1, AppParts DEF Good, Pendings
        <4>3. b.pending = [b EXCEPT !.pending = b.pending].pending
          BY <2>5 DEF Good, Apps
        <4>4. \A p : [b EXCEPT !.pending = p].pending = p
          BY <2>5 DEF Good, Apps
        <4>5. c.pending = [b.pending EXCEPT !["search"] = [question |-> q, answer |-> "none"]]
          BY <4>4 DEF Ask
        <4> QED
          BY <4>1, <4>2, <4>5
      <3> HIDE DEF c
      <3>6. asked = d
        <4>1. m = [c.discover.builder EXCEPT !.streaming = TRUE]
          BY <2>4, <3>4 DEF m
        <4> QED
          BY <4>1 DEF SetView
      <3>7. Keeps(c, d, w) /\ d.pending = c.pending
        <4> DEFINE v == [c.discover EXCEPT !.builder = m]
        <4>1. Keeps(c, SetView(c, v), w)
          BY <2>2, <3>5, BuilderGood
        <4>2. \A e : [c EXCEPT !.discover = e].pending = c.pending
          BY <3>5 DEF Good, Apps
        <4> QED
          BY <4>1, <4>2 DEF SetView
      <3> HIDE DEF d
      <3>8. gone \in Receivers("search", w) \cup {None}
        BY <3>1 DEF Receivers, Answer
      <3>9. [d EXCEPT !.pending["search"].answer = "gone"] = SetSlot(d, "search", gone)
        <4>1. d.pending["search"] = [question |-> q, answer |-> "none"]
          BY <3>5, <3>7
        <4>2. [d.pending["search"] EXCEPT !.answer = "gone"] = gone
          BY <4>1
        <4> HIDE DEF gone
        <4> QED
          BY <4>2 DEF SetSlot
      <3> HIDE DEF gone
      <3>10. Keeps(d, SetSlot(d, "search", gone), w)
        <4>1. Good(d, w)
          BY <3>7 DEF Keeps
        <4> QED
          BY <3>1, <3>8, <4>1, SlotGood
      <3>11. Keeps(a, d, w)
        BY <2>4, <3>4, <3>7, KeepsChain
      <3>12. Keeps(a, SetSlot(d, "search", gone), w)
        BY <3>10, <3>11, KeepsChain
      <3> HIDE DEF asked
      <3> QED
        BY <3>3, <3>6, <3>9, <3>11, <3>12
    <2> QED
      BY <2>6, <2>7
  <1> QED
    BY <1>1, <1>2

--------------------------------------------------------------------------------
(* The steps of tick(). *)

\* tick() returns early.
LEMMA ReturnGood ==
    ASSUME NEW w, NEW a, Good(a, w)
    PROVE  Good(Return(a), w)
  <1>1. /\ Return(a) \in Apps(w) /\ Return(a).discover = a.discover
        /\ Return(a).pending = a.pending /\ Return(a).progress = a.progress
    BY DEF Return, Good, Apps
  <1> QED
    BY <1>1 DEF Good

\* The list of sources that arrived is of the active workspace; the selection that
\* follows is in it.
LEMMA PollSourcesGood ==
    ASSUME NEW w \in Workspace, NEW a, Good(a, w), NEW first,
           (Arrived(a, "sources", {"ok"}) /\ a.pending["sources"].list # {})
              => first \in a.pending["sources"].list
    PROVE  Good(PollSources(a, first), w)
  <1> DEFINE o == a.discover
             L == a.pending["sources"].list
             b == Drop(a, "sources")
  <1>0. o \in Discovers(w) /\ Selected(o) /\ "sources" \in Slot
    BY GoodView DEF Slot
  <1>1. Keeps(a, b, w) /\ b.discover = o /\ Good(b, w)
    BY <1>0, DropGood DEF Keeps
  <1>2. CASE Arrived(a, "sources", {"ok"})
    <2> DEFINE got == [o EXCEPT !.sources = L]
               source == SelectedAfter(got, first)
               B == IF o.builder # None /\ source # None THEN [o.builder EXCEPT !.source = source]
                    ELSE o.builder
               V == IF a.ingest /\ source = None /\ o.view \in {"RuleBuilder", "Files"}
                    THEN "SourcesDropdown" ELSE o.view
               X == o.data_loaded /\ o.select_path \notin L
               d == [got EXCEPT !.sources_loaded = TRUE, !.source = source, !.data_loaded = X,
                                !.select_path = None, !.builder = B, !.view = V]
    <2>1. L \in SUBSET SourcesAt(w)
      BY <1>0, <1>2, Asked DEF Arrived, Waiting, Listing
    <2>2. got \in Discovers(w) /\ got.sources = L /\ got.source = o.source
          /\ got.select_path = o.select_path
          /\ got.view = o.view /\ got.data_loaded = o.data_loaded /\ got.builder = o.builder
      BY <1>0, <2>1 DEF Discovers
    <2>3. /\ source \in Source \cup {None}
          /\ source = None <=> L = {}
          /\ source = None \/ source \in L
      <3>1. None \notin Source
        BY NoneIsNothing
      <3>2. L \subseteq Source
        BY <2>1 DEF SourcesAt
      <3> HIDE DEF got
      <3> QED
        BY <1>2, <2>2, <3>1, <3>2 DEF SelectedAfter, validate_source_selection
    <2>4. PollSources(a, first) = [b EXCEPT !.discover = d]
      <3>1. PollSources(a, first) = [b EXCEPT !.discover =
               [got EXCEPT !.sources_loaded = TRUE, !.source = source,
                           !.data_loaded = @ /\ got.select_path \notin got.sources,
                           !.select_path = None,
                           !.builder = IF @ # None /\ source # None
                                       THEN [@ EXCEPT !.source = source] ELSE @,
                           !.view = IF a.ingest /\ source = None /\ got.view \in {"RuleBuilder", "Files"}
                                    THEN "SourcesDropdown" ELSE @]]
        BY <1>2 DEF PollSources
      <3> HIDE DEF got
      <3> HIDE DEF source
      <3>2. [got EXCEPT !.sources_loaded = TRUE, !.source = source,
                           !.data_loaded = @ /\ got.select_path \notin got.sources,
                           !.select_path = None,
                           !.builder = IF @ # None /\ source # None
                                       THEN [@ EXCEPT !.source = source] ELSE @,
                           !.view = IF a.ingest /\ source = None /\ got.view \in {"RuleBuilder", "Files"}
                                    THEN "SourcesDropdown" ELSE @] = d
        BY <2>2 DEF Discovers
      <3> QED
        BY <3>1, <3>2 DEF source
    <2>5. B \in Builders(w) \cup {None} /\ V \in View /\ X \in BOOLEAN
      <3> HIDE DEF source
      <3>1. o.builder \in Builders(w) \cup {None} /\ o.view \in View
        BY <1>0 DEF Discovers
      <3>2. ASSUME NEW r \in Builders(w) PROVE [r EXCEPT !.source = source] \in Builders(w)
        BY <2>3 DEF Builders
      <3> QED
        BY <3>1, <3>2 DEF View
    <2> HIDE DEF B, V, X, got, source
    <2>6. d \in Discovers(w) /\ Selected(d)
      BY ZenonT(60), <2>2, <2>3, <2>5 DEF Discovers, Selected
    <2> HIDE DEF d
    <2>7. Keeps(b, SetView(b, d), w)
      BY <1>1, <2>6, ViewGood
    <2> QED
      BY <2>4, <2>7 DEF SetView, Keeps
  <1>3. CASE ~Arrived(a, "sources", {"ok"}) /\ Arrived(a, "sources", {"error", "gone"})
    <2> DEFINE d == [o EXCEPT !.sources_loaded = TRUE, !.select_path = None]
    <2>1. d \in Discovers(w) /\ Selected(d)
      BY <1>0 DEF Discovers, Selected
    <2>2. b \in Apps(w)
      BY <1>1 DEF Good
    <2>3. PollSources(a, first) = [b EXCEPT !.discover.sources_loaded = TRUE,
                                            !.discover.select_path = None]
      BY <1>3 DEF PollSources
    <2> HIDE DEF b
    <2>4. PollSources(a, first) = SetView(b, d)
      BY <1>1, <2>2, <2>3, Nest DEF SetView
    <2> HIDE DEF d
    <2>5. Keeps(b, SetView(b, d), w)
      BY <1>1, <2>1, ViewGood
    <2> QED
      BY <2>4, <2>5 DEF Keeps
  <1>4. CASE ~Arrived(a, "sources", {"ok"}) /\ ~Arrived(a, "sources", {"error", "gone"})
    BY <1>4 DEF PollSources
  <1> QED
    BY <1>2, <1>3, <1>4

\* The debounced search of the rule builder.
LEMMA DebounceGood ==
    ASSUME NEW w \in Workspace, NEW a, Good(a, w), NEW elapsed
    PROVE  Good(DebounceBuilder(a, elapsed), w)
  <1> DEFINE r == a.discover.builder
             n == [r EXCEPT !.changed = FALSE]
             b == SetView(a, [a.discover EXCEPT !.builder = n])
  <1>1. DebounceBuilder(a, elapsed) = a
        \/ (r # None /\ DebounceBuilder(a, elapsed) = update_rule_builder_files(b))
    BY DEF DebounceBuilder, SetView
  <1>2. CASE r # None /\ DebounceBuilder(a, elapsed) = update_rule_builder_files(b)
    <2>1. r \in Builders(w)
      BY ZenonT(60), <1>2, GoodView DEF Discovers
    <2>2. n \in Builders(w) \cup {None}
      BY <2>1 DEF Builders
    <2> HIDE DEF n
    <2>3. Good(b, w)
      BY <2>2, BuilderGood DEF Keeps
    <2> HIDE DEF b
    <2> QED
      BY <1>2, <2>3, UpdateBuilder DEF Keeps
  <1> HIDE DEF b
  <1> QED
    BY <1>1, <1>2

\* Results of a search are of the active workspace, because the switch drops the
\* receiver.
LEMMA PollSearchGood ==
    ASSUME NEW w \in Workspace, NEW a, Good(a, w)
    PROVE  Good(PollSearch(a), w)
  <1> DEFINE r == a.discover.builder
             q == a.pending["search"].question
             b == Drop(a, "search")
             n(x) == [r EXCEPT !.streaming = FALSE, !.results = x]
             done(x) == SetView(b, [b.discover EXCEPT !.builder = n(x)])
  <1>0. "search" \in Slot
    BY DEF Slot
  <1>1. Keeps(a, b, w) /\ b.discover = a.discover /\ Good(b, w)
    BY <1>0, DropGood DEF Keeps
  <1>2. CASE ~Arrived(a, "search", {"ok", "error", "gone"})
    BY <1>2 DEF PollSearch
  <1>3. CASE Arrived(a, "search", {"ok", "error", "gone"}) /\ r = None
    BY <1>1, <1>3 DEF PollSearch
  <1>4. CASE Arrived(a, "search", {"ok", "error", "gone"}) /\ r # None
    <2>1. r \in Builders(w)
      BY ZenonT(60), <1>4, GoodView DEF Discovers
    <2>2. q \in Question("search", w)
      BY <1>0, <1>4, Asked DEF Arrived, Waiting
    <2> DEFINE shown == {r.results, Origin(q.workspace, q.source), None}
    <2>3. shown \subseteq Origins({w}) \cup {None}
      BY <2>1, <2>2 DEF Builders, Question, Origins, Origin
    <2>4. ASSUME NEW x \in shown
          PROVE  [b EXCEPT !.discover.builder = [@ EXCEPT !.streaming = FALSE, !.results = x]] = done(x)
      <3> HIDE DEF b
      <3> QED
        BY <1>1 DEF SetView
    <2>5. PollSearch(a) = b \/ \E x \in shown : PollSearch(a) = done(x)
      <3> HIDE DEF b, done
      <3>1. PollSearch(a) = b \/ \E x \in shown : PollSearch(a) =
               [b EXCEPT !.discover.builder = [@ EXCEPT !.streaming = FALSE, !.results = x]]
        BY <1>4 DEF PollSearch, b
      <3> QED
        BY <2>4, <3>1
    <2>6. ASSUME NEW x \in shown PROVE Good(done(x), w)
      <3> DEFINE m == n(x)
      <3>1. x \in Origins({w}) \cup {None}
        BY <2>3
      <3> HIDE DEF shown
      <3>2. m \in Builders(w) \cup {None}
        BY <2>1, <3>1 DEF Builders
      <3> HIDE DEF m, b
      <3>3. Good(SetView(b, [b.discover EXCEPT !.builder = m]), w)
        BY <1>1, <3>2, BuilderGood DEF Keeps
      <3> QED
        BY <3>3 DEF m
    <2> HIDE DEF b, done, shown
    <2> QED
      BY <1>1, <2>5, <2>6
  <1> QED
    BY <1>2, <1>3, <1>4

\* The cache that arrived fills the explorer, the tags and the rule builder.
LEMMA PollCacheGood ==
    ASSUME NEW w \in Workspace, NEW a, Good(a, w)
    PROVE  Good(PollCache(a), w)
  <1> DEFINE q == a.pending["cache"].question
             e == a.discover.explorer
             b == CacheEnded(a)
  <1>0. "cache" \in Slot /\ a.discover \in Discovers(w) /\ Selected(a.discover) /\ a.workspace = w
    BY GoodView DEF Slot
  <1>1. b.discover = a.discover /\ Good(b, w)
    BY <1>0, CacheDrop DEF Keeps
  <1>2. e \in Explorers(w) \cup {None}
    BY <1>0 DEF Discovers
  <1>3. CASE Arrived(a, "cache", {"ok"})
    <2> DEFINE n == FilledExplorer(e, q)
               f == SetView(b, [b.discover EXCEPT !.explorer = n])
               g == update_folders_from_cache(f)
               d == [g.discover EXCEPT !.tags = q, !.data_loaded = TRUE]
               h == SetView(g, d)
    <2>1. q \in Origins({w})
      <3>1. q \in Question("cache", w)
        BY <1>0, <1>3, Asked DEF Arrived, Waiting
      <3> QED
        BY <3>1 DEF Question
    <2>2. q.workspace = w
      BY <2>1 DEF Origins
    <2>3. n \in Explorers(w) \cup {None}
      <3>1. CASE e = None
        BY <3>1 DEF FilledExplorer
      <3>2. CASE e # None
        <4> DEFINE c == [p \in Prefix |-> IF p = "" THEN q ELSE None]
        <4>1. c \in [Prefix -> Origins({w}) \cup {None}]
          BY <2>1
        <4>2. e \in Explorers(w) /\ q.source \in Source
          BY <1>2, <2>1, <3>2 DEF Origins
        <4>3. n = [e EXCEPT !.cache = c, !.cache_loaded = TRUE, !.source = q.source,
                            !.workspace = q.workspace, !.folders = q]
          BY <3>2 DEF FilledExplorer
        <4> HIDE DEF n, c
        <4> QED
          BY <2>1, <2>2, <4>1, <4>2, <4>3 DEF Explorers
      <3> QED
        BY <3>1, <3>2
    <2>4. [b EXCEPT !.discover.explorer = FilledExplorer(@, q)] = f
      <3> HIDE DEF b
      <3> QED
        BY <1>1 DEF SetView
    <2> HIDE DEF n, b
    <2>5. Good(f, w)
      BY <1>1, <2>3, ExplorerGood DEF Keeps
    <2> HIDE DEF f
    <2>6. Good(g, w) /\ g \in Apps(w)
      BY <2>5, UpdateFolders DEF Keeps, Good
    <2>7. CacheShown(a, q) = [g EXCEPT !.discover.tags = q, !.discover.data_loaded = TRUE]
      BY <2>4 DEF CacheShown, b
    <2>8. PollCache(a) = CacheShown(a, q) \/ PollCache(a) = update_rule_builder_files(CacheShown(a, q))
      BY <1>0, <1>3, <2>2 DEF PollCache
    <2> HIDE DEF g
    <2>12. CacheShown(a, q) = h
      BY <2>6, <2>7, Nest DEF SetView
    <2>9. d \in Discovers(w) /\ Selected(d)
      <3>1. g.discover \in Discovers(w) /\ Selected(g.discover)
        BY <2>6, GoodView
      <3> HIDE DEF q
      <3> QED
        BY <2>1, <3>1 DEF Discovers, Selected
    <2> HIDE DEF d
    <2>10. Good(h, w)
      BY <2>6, <2>9, ViewGood DEF Keeps
    <2> HIDE DEF h
    <2>11. Good(update_rule_builder_files(h), w)
      BY <2>10, UpdateBuilder DEF Keeps
    <2> QED
      BY <2>8, <2>10, <2>11, <2>12
  <1>4. CASE ~Arrived(a, "cache", {"ok"}) /\ Arrived(a, "cache", {"error"})
    <2> DEFINE n == IF e = None THEN e ELSE [e EXCEPT !.folders = None]
               d == [a.discover EXCEPT !.error = TRUE, !.explorer = n]
    <2>1. n \in Explorers(w) \cup {None}
      BY <1>2 DEF Explorers
    <2>2. PollCache(a) = [b EXCEPT !.discover.error = TRUE, !.discover.explorer =
                             IF @ = None THEN @ ELSE [@ EXCEPT !.folders = None]]
      BY <1>4 DEF PollCache
    <2> HIDE DEF b
    <2>3. b \in Apps(w)
      BY <1>1 DEF Good
    <2>4. PollCache(a) = [b EXCEPT !.discover.error = TRUE, !.discover.explorer = n]
      BY <1>1, <2>2
    <2> HIDE DEF n
    <2>5. PollCache(a) = SetView(b, d)
      BY <1>1, <2>3, <2>4, Nest DEF SetView
    <2>6. d \in Discovers(w) /\ Selected(d)
      BY ZenonT(60), <1>0, <2>1 DEF Discovers, Selected
    <2> HIDE DEF d
    <2> QED
      BY <1>1, <2>5, <2>6, ViewGood DEF Keeps
  <1>5. CASE ~Arrived(a, "cache", {"ok"}) /\ ~Arrived(a, "cache", {"error"})
    BY <1>1, <1>5 DEF PollCache
  <1> QED
    BY <1>3, <1>4, <1>5

\* The folders that arrived are of the explorer's workspace, which is the active one.
LEMMA PollFoldersGood ==
    ASSUME NEW w \in Workspace, NEW a, Good(a, w)
    PROVE  Good(PollFolders(a), w)
  <1> DEFINE q == a.pending["folders"].question
             e == a.discover.explorer
             origin == Origin(q.workspace, q.source)
             b == Drop(a, "folders")
  <1>0. "folders" \in Slot /\ a.discover \in Discovers(w) /\ a.workspace = w
    BY GoodView DEF Slot
  <1>1. b.discover = a.discover /\ Good(b, w) /\ b \in Apps(w)
    BY <1>0, DropGood DEF Keeps, Good
  <1>2. e \in Explorers(w) \cup {None}
    BY <1>0 DEF Discovers
  <1>3. Good(Return(b), w)
    BY <1>1, ReturnGood
  <1>4. ASSUME NEW n \in Explorers(w)
        PROVE  Good(SetView(b, [b.discover EXCEPT !.explorer = n]), w)
    <2> n \in Explorers(w) \cup {None}
      OBVIOUS
    <2> QED
      BY <1>1, ExplorerGood DEF Keeps
  <1>5. CASE /\ Arrived(a, "folders", {"ok"})
             /\ e # None /\ e.workspace = q.workspace /\ q.workspace = a.workspace
    <2> DEFINE c == [e.cache EXCEPT ![q.prefix] = origin]
               m == IF e.prefix = q.prefix THEN origin ELSE e.folders
               n == [e EXCEPT !.cache = c, !.folders = m]
    <2>1. e \in Explorers(w)
      BY <1>2, <1>5
    <2>2. q \in Question("folders", w)
      BY <1>0, <1>5, Asked DEF Arrived, Waiting
    <2>3. q.prefix \in Prefix /\ origin \in Origins({w})
      BY <2>2 DEF Question, Origins, Origin
    <2>4. PollFolders(a) =
              [b EXCEPT !.discover.explorer.cache[q.prefix] = origin,
                        !.discover.explorer.folders = IF e.prefix = q.prefix THEN origin ELSE @]
      BY <1>5 DEF PollFolders
    <2> HIDE DEF q, origin, b
    <2>5. e.cache \in [Prefix -> Origins({w}) \cup {None}]
      BY <2>1 DEF Explorers
    <2>6. c \in [Prefix -> Origins({w}) \cup {None}]
      <3> HIDE DEF e
      <3> QED
        BY <2>3, <2>5
    <2>7. m \in Origins({w}) \cup {None, Message}
      BY <2>1, <2>3 DEF Explorers
    <2>8. PollFolders(a) = [b EXCEPT !.discover.explorer.cache = c, !.discover.explorer.folders = m]
      BY <1>1, <2>4
    <2> HIDE DEF c, m
    <2>9. n \in Explorers(w)
      BY <2>1, <2>6, <2>7 DEF Explorers
    <2>10. [[a.discover EXCEPT !.explorer = [e EXCEPT !.cache = c]] EXCEPT !.explorer.folders = m]
           = [a.discover EXCEPT !.explorer = n]
      <3> DEFINE x == [e EXCEPT !.cache = c]
                 k == [a.discover EXCEPT !.explorer = x]
                 y == [x EXCEPT !.folders = m]
      <3>1. y = n
        OBVIOUS
      <3> HIDE DEF x
      <3>2. k.explorer = x /\ [k EXCEPT !.explorer = y] = [a.discover EXCEPT !.explorer = y]
        <4> HIDE DEF y
        <4> QED
          BY <1>0, NestView
      <3> HIDE DEF k
      <3>3. [k EXCEPT !.explorer.folders = m] = [k EXCEPT !.explorer = y]
        BY <3>2
      <3> HIDE DEF y, n
      <3> QED
        BY <3>1, <3>2, <3>3 DEF k, x
    <2>11. PollFolders(a) = SetView(b, [b.discover EXCEPT !.explorer = n])
      BY ZenonT(60), <1>1, <2>8, <2>10, Nest DEF SetView
    <2> HIDE DEF n
    <2> QED
      BY <1>4, <2>9, <2>11
  <1>6. CASE /\ ~Arrived(a, "folders", {"ok"}) /\ Arrived(a, "folders", {"error"}) /\ e # None
    <2> DEFINE n == [e EXCEPT !.folders = Message]
    <2>1. e \in Explorers(w)
      BY <1>2, <1>6
    <2>2. n \in Explorers(w)
      BY <2>1 DEF Explorers
    <2>3. PollFolders(a) = [b EXCEPT !.discover.explorer.folders = Message]
      BY <1>6 DEF PollFolders
    <2>4. PollFolders(a) = SetView(b, [b.discover EXCEPT !.explorer = n])
      BY <1>1, <2>3 DEF SetView
    <2> HIDE DEF n
    <2> QED
      BY <1>4, <2>2, <2>4
  <1> HIDE DEF b
  <1>7. PollFolders(a) = a \/ PollFolders(a) = b \/ PollFolders(a) = Return(b)
        \/ (/\ Arrived(a, "folders", {"ok"})
            /\ e # None /\ e.workspace = q.workspace /\ q.workspace = a.workspace)
        \/ (/\ ~Arrived(a, "folders", {"ok"}) /\ Arrived(a, "folders", {"error"}) /\ e # None)
    BY DEF PollFolders, b
  <1> QED
    BY <1>1, <1>3, <1>5, <1>6, <1>7

\* The files that arrived are shown only in the workspace they were asked for.
LEMMA PollFilesGood ==
    ASSUME NEW w \in Workspace, NEW a, Good(a, w), NEW last \in 0 .. LastOffset
    PROVE  Good(PollFiles(a, last), w)
  <1> DEFINE q == a.pending["files"].question
             o == a.discover
             b == Drop(a, "files")
             Put(d) == SetView(b, d)
  <1>0. "files" \in Slot /\ o \in Discovers(w) /\ Selected(o) /\ a.workspace = w
    BY GoodView DEF Slot
  <1>1. b.discover = o /\ Good(b, w) /\ b \in Apps(w)
    BY <1>0, DropGood DEF Keeps, Good
  <1>2. ASSUME NEW d \in Discovers(w), Selected(d)
        PROVE  Good(Put(d), w)
    BY <1>1, <1>2, ViewGood DEF Keeps
  <1> HIDE DEF b
  <1>3. Good(Return(b), w)
    BY <1>1, ReturnGood
  <1>4. CASE Arrived(a, "files", {"ok"}) /\ <<q.workspace, q.source, q.page>> = <<w, o.source, o.page>>
    <2>1. q \in Question("files", w)
      BY <1>0, <1>4, Asked DEF Arrived, Waiting
    <2>2. q \in FileQuestions({w})
      BY <1>4, <2>1 DEF Question, FileQuestions
    <2>3. CASE o.page > last
      <3> DEFINE d == [o EXCEPT !.page = last, !.data_loaded = FALSE]
      <3>1. d \in Discovers(w) /\ Selected(d)
        BY ZenonT(60), <1>0 DEF Discovers, Selected
      <3>2. PollFiles(a, last) = Return([b EXCEPT !.discover.page = last, !.discover.data_loaded = FALSE])
        BY <1>0, <1>4, <2>3 DEF PollFiles, b
      <3>3. [b EXCEPT !.discover.page = last, !.discover.data_loaded = FALSE] = Put(d)
        BY <1>1, Nest DEF SetView
      <3> HIDE DEF d, Put
      <3> QED
        BY <1>2, <3>1, <3>2, <3>3, ReturnGood
    <2>4. CASE ~(o.page > last)
      <3> DEFINE d == [o EXCEPT !.files = q, !.last = last, !.data_loaded = TRUE, !.error = FALSE]
      <3>2. PollFiles(a, last) = refresh_tags_list(
                [b EXCEPT !.discover.files = q, !.discover.last = last,
                          !.discover.data_loaded = TRUE, !.discover.error = FALSE])
        BY <1>0, <1>4, <2>4 DEF PollFiles, b
      <3> HIDE DEF q
      <3>1. d \in Discovers(w) /\ Selected(d)
        BY ZenonT(60), <1>0, <2>2 DEF Discovers, Selected
      <3>3. [b EXCEPT !.discover.files = q, !.discover.last = last,
                      !.discover.data_loaded = TRUE, !.discover.error = FALSE] = Put(d)
        BY <1>1, Nest DEF SetView
      <3> HIDE DEF d, Put
      <3>4. Good(Put(d), w)
        BY <1>2, <3>1
      <3> QED
        BY <3>2, <3>3, <3>4, RefreshTags DEF Keeps
    <2> QED
      BY <2>3, <2>4
  <1>5. CASE ~Arrived(a, "files", {"ok"}) /\ Arrived(a, "files", {"error"})
    <2> DEFINE d == [o EXCEPT !.error = TRUE, !.data_loaded = TRUE]
    <2>1. d \in Discovers(w) /\ Selected(d)
      BY <1>0 DEF Discovers, Selected
    <2>2. PollFiles(a, last) = [b EXCEPT !.discover.error = TRUE, !.discover.data_loaded = TRUE]
      BY <1>5 DEF PollFiles, b
    <2>3. PollFiles(a, last) = Put(d)
      BY <1>1, <2>2, Nest DEF SetView
    <2> HIDE DEF d, Put
    <2> QED
      BY <1>2, <2>1, <2>3
  <1>6. CASE Arrived(a, "files", {"ok"}) /\ <<q.workspace, q.source, q.page>> # <<w, o.source, o.page>>
    BY <1>0, <1>3, <1>6 DEF PollFiles, b
  <1>7. CASE ~Arrived(a, "files", {"ok"}) /\ ~Arrived(a, "files", {"error"})
    BY <1>1, <1>7 DEF PollFiles, b
  <1> QED
    BY <1>4, <1>5, <1>6, <1>7

\* The tags that arrived are shown only in the workspace they were asked for.
LEMMA PollTagsGood ==
    ASSUME NEW w \in Workspace, NEW a, Good(a, w)
    PROVE  Good(PollTags(a), w)
  <1> DEFINE q == a.pending["tags"].question
             o == a.discover
             b == Drop(a, "tags")
             d == [o EXCEPT !.tags = q]
  <1>0. "tags" \in Slot /\ o \in Discovers(w) /\ Selected(o) /\ a.workspace = w
    BY GoodView DEF Slot
  <1>1. b.discover = o /\ Good(b, w)
    BY <1>0, DropGood DEF Keeps
  <1> HIDE DEF b
  <1>2. Good(Return(b), w)
    BY <1>1, ReturnGood
  <1>3. PollTags(a) = a \/ PollTags(a) = b \/ PollTags(a) = Return(b)
        \/ (/\ Arrived(a, "tags", {"ok"}) /\ q = Origin(a.workspace, o.source)
            /\ PollTags(a) = [b EXCEPT !.discover.tags = q])
    BY DEF PollTags, b
  <1>4. CASE /\ Arrived(a, "tags", {"ok"}) /\ q = Origin(a.workspace, o.source)
             /\ PollTags(a) = [b EXCEPT !.discover.tags = q]
    <2>1. q \in Question("tags", w)
      BY <1>0, <1>4, Asked DEF Arrived, Waiting
    <2>2. q \in Origins({w})
      BY <1>0, <1>4, <2>1 DEF Question, Origins, Origin
    <2> HIDE DEF q
    <2>3. d \in Discovers(w) /\ Selected(d)
      BY <1>0, <2>2 DEF Discovers, Selected
    <2>4. PollTags(a) = SetView(b, d)
      BY <1>1, <1>4 DEF SetView
    <2> HIDE DEF d
    <2> QED
      BY <1>1, <2>3, <2>4, ViewGood DEF Keeps
  <1> QED
    BY <1>1, <1>2, <1>3, <1>4

\* LoadMissing gives the view an explorer and a rule builder, and asks for files and
\* for the cache.
LEMMA LoadMissingGood ==
    ASSUME NEW w \in Workspace, NEW a, Good(a, w)
    PROVE  Good(LoadMissing(a), w)
  <1> DEFINE o == a.discover
             x == IF o.explorer = None THEN NewExplorer ELSE o.explorer
             y == IF o.builder = None /\ o.view = "RuleBuilder" THEN NewBuilder(o.source) ELSE o.builder
             r == [o EXCEPT !.explorer = x, !.builder = y]
             ready == SetView(a, r)
             asked == load_scout_files(ready)
             n == [x EXCEPT !.folders = Message]
             marked == SetView(asked, [asked.discover EXCEPT !.explorer = n])
  <1>0. o \in Discovers(w) /\ Selected(o) /\ a \in Apps(w)
    BY GoodView
  <1>1. x \in Explorers(w)
    <2>1. NewExplorer \in Explorers(w)
      BY DEF NewExplorer, Explorers, Prefix
    <2> QED
      BY <1>0, <2>1 DEF Discovers
  <1>2. y \in Builders(w) \cup {None}
    <2>1. NewBuilder(o.source) \in Builders(w)
      BY <1>0 DEF Discovers, NewBuilder, Builders, Pattern
    <2> QED
      BY <1>0, <2>1 DEF Discovers
  <1>3. [a EXCEPT !.discover.explorer = IF @ = None THEN NewExplorer ELSE @,
                  !.discover.builder = IF @ = None /\ o.view = "RuleBuilder"
                                       THEN NewBuilder(o.source) ELSE @] = ready
    <2>1. [a EXCEPT !.discover.explorer = IF @ = None THEN NewExplorer ELSE @,
                    !.discover.builder = IF @ = None /\ o.view = "RuleBuilder"
                                         THEN NewBuilder(o.source) ELSE @]
          = [a EXCEPT !.discover.explorer = x, !.discover.builder = y]
      OBVIOUS
    <2> HIDE DEF x, y
    <2>2. [a EXCEPT !.discover.explorer = x, !.discover.builder = y] = SetView(a, r)
      BY <1>0, Nest DEF SetView
    <2> QED
      BY <2>1, <2>2
  <1> HIDE DEF x, y
  <1>4. r \in Discovers(w) /\ Selected(r) /\ r.explorer = x
    BY <1>0, <1>1, <1>2 DEF Discovers, Selected
  <1> HIDE DEF r
  <1>5. Good(ready, w) /\ ready.discover = r
    BY <1>4, ViewGood DEF Keeps
  <1>6. LoadMissing(a) = a \/ LoadMissing(a) = start_cache_load(asked)
        \/ LoadMissing(a) = start_cache_load([asked EXCEPT !.discover.explorer.folders = Message])
    BY <1>3 DEF LoadMissing
  <1> HIDE DEF ready
  <1>7. Good(asked, w) /\ asked.discover.explorer = x
    BY <1>4, <1>5, LoadFiles DEF Keeps
  <1> HIDE DEF asked
  <1>8. [asked EXCEPT !.discover.explorer.folders = Message] = marked
    BY <1>7 DEF SetView
  <1>9. n \in Explorers(w) \cup {None}
    BY <1>1 DEF Explorers
  <1> HIDE DEF n
  <1>10. Good(marked, w)
    BY <1>7, <1>9, ExplorerGood DEF Keeps
  <1> HIDE DEF marked
  <1>11. Good(start_cache_load(asked), w) /\ Good(start_cache_load(marked), w)
    BY <1>7, <1>10, StartCache DEF Keeps
  <1> QED
    BY <1>6, <1>8, <1>11

\* A finished scan lists the sources again, drops the cache load and empties the
\* explorer.
LEMMA ScanCompletedGood ==
    ASSUME NEW w \in Workspace, NEW a, Good(a, w), NEW path \in Source,
           NEW last \in 0 .. LastOffset
    PROVE  Good(ScanCompleted(a, path, last), w)
  <1> DEFINE o == a.discover
             d == [o EXCEPT !.select_path = path, !.sources_loaded = FALSE]
             b == start_sources_load(SetView(a, d))
             c == CacheEnded(b)
             x == EmptyExplorer(o.explorer)
             v == [c.discover EXCEPT !.data_loaded = FALSE, !.page = 0, !.last = last,
                                     !.explorer = x, !.error = FALSE, !.view = "RuleBuilder"]
  <1>0. o \in Discovers(w) /\ Selected(o) /\ a \in Apps(w)
    BY GoodView
  <1>1. d \in Discovers(w) /\ Selected(d)
    BY <1>0 DEF Discovers, Selected
  <1>2. [a EXCEPT !.discover.select_path = path, !.discover.sources_loaded = FALSE] = SetView(a, d)
    BY <1>0, Nest DEF SetView
  <1> HIDE DEF d
  <1>3. Good(SetView(a, d), w)
    BY <1>1, ViewGood DEF Keeps
  <1>4. Good(b, w)
    BY <1>3, StartSources DEF Keeps
  <1>5. ScanCompleted(a, path, last) = [c EXCEPT
            !.discover = [@ EXCEPT !.data_loaded = FALSE, !.page = 0, !.last = last,
                                   !.explorer = EmptyExplorer(o.explorer),
                                   !.error = FALSE, !.view = "RuleBuilder"]]
    BY <1>2 DEF ScanCompleted
  <1> HIDE DEF b
  <1>6. Good(c, w)
    BY <1>4, CacheDrop DEF Keeps
  <1> HIDE DEF c
  <1>7. c.discover \in Discovers(w) /\ Selected(c.discover)
    BY <1>6, GoodView
  <1>8. ScanCompleted(a, path, last) = SetView(c, v)
    BY <1>5 DEF SetView
  <1>9. x \in Explorers(w) \cup {None}
    <2>1. o.explorer \in Explorers(w) \cup {None}
      BY <1>0 DEF Discovers
    <2> QED
      BY <2>1 DEF EmptyExplorer, NewExplorer, Explorers, Prefix
  <1> HIDE DEF x
  <1>10. 0 \in 0 .. LastOffset
    BY DiscoverAssumption
  <1>11. v \in Discovers(w) /\ Selected(v)
    BY ZenonT(60), <1>7, <1>9, <1>10 DEF Discovers, Selected, View
  <1> HIDE DEF v
  <1> QED
    BY <1>6, <1>8, <1>11, ViewGood DEF Keeps

\* A scan ended, well or not.
LEMMA PollScanGood ==
    ASSUME NEW w \in Workspace, NEW a, Good(a, w), NEW last \in 0 .. LastOffset
    PROVE  Good(PollScan(a, last), w)
  <1> DEFINE q == a.pending["scan"].question
             b == Drop(a, "scan")
             d == [a.discover EXCEPT !.error = TRUE, !.view = "Files"]
  <1>0. "scan" \in Slot /\ a.discover \in Discovers(w) /\ Selected(a.discover)
    BY GoodView DEF Slot
  <1>1. b.discover = a.discover /\ Good(b, w) /\ b \in Apps(w)
    BY <1>0, DropGood DEF Keeps, Good
  <1>2. CASE Arrived(a, "scan", {"ok"})
    <2>1. q \in Question("scan", w)
      BY <1>0, <1>2, Asked DEF Arrived, Waiting
    <2>2. q.source \in Source
      BY <2>1 DEF Question, Origins
    <2>3. Good(ScanCompleted(a, q.source, last), w)
      BY <2>2, ScanCompletedGood
    <2>4. PollScan(a, last) = Drop(ScanCompleted(a, q.source, last), "scan")
      BY <1>2 DEF PollScan
    <2> QED
      BY <1>0, <2>3, <2>4, DropGood DEF Keeps
  <1>3. CASE ~Arrived(a, "scan", {"ok"}) /\ Arrived(a, "scan", {"error", "gone"})
    <2>1. d \in Discovers(w) /\ Selected(d)
      BY <1>0 DEF Discovers, Selected, View
    <2>2. PollScan(a, last) = [b EXCEPT !.discover.error = TRUE, !.discover.view = "Files"]
      BY <1>3 DEF PollScan
    <2> HIDE DEF b
    <2>3. PollScan(a, last) = SetView(b, d)
      BY <1>1, <2>2, Nest DEF SetView
    <2> HIDE DEF d
    <2> QED
      BY <1>1, <2>1, <2>3, ViewGood DEF Keeps
  <1>4. CASE ~Arrived(a, "scan", {"ok"}) /\ ~Arrived(a, "scan", {"error", "gone"})
    BY <1>4 DEF PollScan
  <1> QED
    BY <1>2, <1>3, <1>4

\* A tick keeps the invariant, wherever it returns.
LEMMA TickGood ==
    ASSUME AppInv, NEW connected \in BOOLEAN, NEW elapsed, Tick(connected, elapsed)
    PROVE  AppInv'
  <1> DEFINE ws == app.workspace
             Step(a, b) == IF a.returned THEN a ELSE b
  <1>0. ws \in Workspace /\ Good(app, ws) /\ "sources" \in Slot
    BY DEF AppInv, Slot
  <1>1. PICK w, first, last :
            /\ (Arrived(app, "sources", {"ok"}) /\ app.pending["sources"].list # {})
                  => first \in app.pending["sources"].list
            /\ last \in 0 .. LastOffset
            /\ tick(connected, elapsed, w, first, last)
    BY DiscoverAssumption DEF Tick
  <1> DEFINE Ends(x) == app' = [Step(x, PollScan(x, last)) EXCEPT !.returned = FALSE]
             Tags(x) ==
                \E tagged \in {Step(x, PollTags(x))} :
                \E loading \in {Step(tagged, LoadMissing(tagged))} : Ends(loading)
             Loads(x) ==
                \E browsed \in {Step(x, PollFolders(x))} :
                \E filed \in {Step(browsed, PollFiles(browsed, last))} : Tags(filed)
             Polls(x) ==
                \E searched \in {PollSearch(x)} :
                \E cached \in {PollCache(searched)} : Loads(cached)
  <1>2. \E probed \in {maybe_probe_control_connection(app, connected)} :
        \E active \in {ensure_active_workspace(probed, w)} :
        \E preloaded \in {PreloadSources(active)} :
        \E listed \in {PollSources(preloaded, first)} :
        \E debounced \in {DebounceBuilder(listed, elapsed)} : Polls(debounced)
    BY <1>1 DEF tick, Then
  <1> HIDE DEF Polls
  <1>3. PICK probed, active, preloaded, listed, debounced :
            /\ probed = maybe_probe_control_connection(app, connected)
            /\ active = ensure_active_workspace(probed, w)
            /\ preloaded = PreloadSources(active)
            /\ listed = PollSources(preloaded, first)
            /\ debounced = DebounceBuilder(listed, elapsed)
            /\ Polls(debounced)
    BY <1>2
  <1> HIDE DEF Loads
  <1>4. PICK searched, cached :
            searched = PollSearch(debounced) /\ cached = PollCache(searched) /\ Loads(cached)
    BY <1>3 DEF Polls
  <1> HIDE DEF Tags
  <1>5. PICK browsed, filed :
            /\ browsed = Step(cached, PollFolders(cached))
            /\ filed = Step(browsed, PollFiles(browsed, last))
            /\ Tags(filed)
    BY <1>4 DEF Loads
  <1> HIDE DEF Ends
  <1>6. PICK tagged, loading :
            /\ tagged = Step(filed, PollTags(filed))
            /\ loading = Step(tagged, LoadMissing(tagged))
            /\ Ends(loading)
    BY <1>5 DEF Tags
  <1>7. Good(probed, ws) /\ probed.pending = app.pending
    <2>1. /\ probed \in Apps(ws) /\ probed.discover = app.discover
          /\ probed.pending = app.pending /\ probed.progress = app.progress
      BY <1>0, <1>3 DEF maybe_probe_control_connection, Good, Apps
    <2> QED
      BY <1>0, <2>1 DEF Good
  <1>8. active = probed
    <2>1. probed.workspace = ws
      BY <1>7, GoodView
    <2>2. ws # None
      BY <1>0, NoneIsNothing
    <2> QED
      BY <1>3, <2>1, <2>2 DEF ensure_active_workspace
  <1>9. /\ Good(preloaded, ws)
        /\ Arrived(preloaded, "sources", {"ok"}) => preloaded.pending = app.pending
    <2>1. preloaded = active \/ (~Waiting(active, "sources") /\ preloaded = start_sources_load(active))
      BY <1>3 DEF PreloadSources
    <2>2. CASE preloaded = active
      BY <1>7, <1>8, <2>2
    <2>3. CASE ~Waiting(active, "sources") /\ preloaded = start_sources_load(active)
      BY <1>0, <1>7, <1>8, <2>3, StartSources DEF Keeps
    <2> QED
      BY <2>1, <2>2, <2>3
  <1>10. Good(listed, ws)
    <2>1. (Arrived(preloaded, "sources", {"ok"}) /\ preloaded.pending["sources"].list # {})
             => first \in preloaded.pending["sources"].list
      BY <1>1, <1>9 DEF Arrived, Waiting
    <2> QED
      BY <1>0, <1>3, <1>9, <2>1, PollSourcesGood
  <1>11. Good(debounced, ws)
    BY <1>0, <1>3, <1>10, DebounceGood
  <1>12. Good(searched, ws)
    BY <1>0, <1>4, <1>11, PollSearchGood
  <1>13. Good(cached, ws)
    BY <1>0, <1>4, <1>12, PollCacheGood
  <1>14. Good(browsed, ws)
    BY <1>0, <1>5, <1>13, PollFoldersGood
  <1>15. Good(filed, ws)
    BY <1>0, <1>1, <1>5, <1>14, PollFilesGood
  <1>16. Good(tagged, ws)
    BY <1>0, <1>6, <1>15, PollTagsGood
  <1>17. Good(loading, ws)
    BY <1>0, <1>6, <1>16, LoadMissingGood
  <1>18. PICK done : done = Step(loading, PollScan(loading, last))
    OBVIOUS
  <1>19. Good(done, ws)
    BY <1>0, <1>1, <1>17, <1>18, PollScanGood
  <1>20. /\ app' \in Apps(ws) /\ app'.discover = done.discover /\ app'.pending = done.pending
         /\ app'.progress = done.progress /\ app'.returned = FALSE /\ app'.workspace = ws
    <2>1. app' = [done EXCEPT !.returned = FALSE]
      BY <1>6, <1>18 DEF Ends
    <2>2. done \in Apps(ws)
      BY <1>19 DEF Good
    <2> QED
      BY <2>1, <2>2 DEF Apps
  <1>21. Good(app', ws)
    BY <1>19, <1>20 DEF Good
  <1>22. store' = store /\ reachable' = reachable
    BY DEF Tick
  <1> QED
    BY <1>0, <1>20, <1>21, <1>22 DEF AppInv

--------------------------------------------------------------------------------
(* The keys. *)

\* A key whose result is a good App keeps the invariant.
LEMMA PressGood ==
    ASSUME AppInv, NEW w \in Workspace, NEW a, Press(a), Good(a, w), a.returned = FALSE
    PROVE  AppInv'
  <1>1. app' = a /\ store' = store /\ reachable' = reachable /\ a.workspace = w
    BY GoodView DEF Press
  <1> QED
    BY <1>1 DEF AppInv

\* A key that leaves the mode and the connection as they are.
LEMMA KeepsKey ==
    ASSUME AppInv, NEW a, Press(a), Keeps(app, a, app.workspace)
    PROVE  AppInv'
  BY PressGood DEF AppInv, Keeps

\* A key that changes the view alone.
LEMMA ViewKey ==
    ASSUME AppInv, NEW d \in Discovers(app.workspace), Selected(d), Press(SetView(app, d))
    PROVE  AppInv'
  <1>1. Keeps(app, SetView(app, d), app.workspace)
    BY ViewGood DEF AppInv
  <1> QED
    BY <1>1, KeepsKey

\* Discover is opened or left.
LEMMA IngestGood ==
    ASSUME NEW w, NEW a, Good(a, w), NEW x \in BOOLEAN
    PROVE  LET b == [a EXCEPT !.ingest = x]
           IN  Good(b, w) /\ b.discover = a.discover /\ b.returned = a.returned
  <1> DEFINE b == [a EXCEPT !.ingest = x]
  <1>1. /\ b \in Apps(w) /\ b.discover = a.discover /\ b.returned = a.returned
        /\ b.pending = a.pending /\ b.progress = a.progress
    BY DEF Good, Apps
  <1> QED
    BY <1>1 DEF Good

\* enter_discover_mode gives the view a rule builder.
LEMMA EnterGood ==
    ASSUME NEW w, NEW a, Good(a, w)
    PROVE  Good(enter_discover_mode(a), w) /\ enter_discover_mode(a).returned = a.returned
  <1> DEFINE b == [a EXCEPT !.ingest = TRUE]
             o == a.discover
             r == IF o.builder = None THEN NewBuilder(o.source) ELSE o.builder
             d == [o EXCEPT !.view = "RuleBuilder", !.builder = r]
  <1>0. o \in Discovers(w) /\ Selected(o)
    BY GoodView
  <1>1. r \in Builders(w) \cup {None}
    BY <1>0 DEF Discovers, NewBuilder, Builders, Pattern
  <1>2. enter_discover_mode(a) = [b EXCEPT !.discover.view = "RuleBuilder", !.discover.builder = r]
    BY DEF enter_discover_mode
  <1> HIDE DEF r
  <1>3. d \in Discovers(w) /\ Selected(d)
    BY <1>0, <1>1 DEF Discovers, Selected, View
  <1>4. Good(b, w) /\ b.discover = o /\ b.returned = a.returned
    BY IngestGood
  <1> HIDE DEF b
  <1>5. enter_discover_mode(a) = SetView(b, d)
    BY <1>2, <1>4, Nest DEF SetView, Good
  <1> HIDE DEF d
  <1>6. Keeps(b, SetView(b, d), w)
    BY <1>3, <1>4, ViewGood
  <1> QED
    BY <1>4, <1>5, <1>6 DEF Keeps

\* The view is to be loaded again.
LEMMA ReloadGood ==
    ASSUME NEW w, NEW a, Good(a, w)
    PROVE  LET b == Reload(a)
           IN  Keeps(a, b, w) /\ b.discover = [a.discover EXCEPT !.data_loaded = FALSE]
  <1> DEFINE d == [a.discover EXCEPT !.data_loaded = FALSE]
  <1>1. a.discover \in Discovers(w) /\ Selected(a.discover)
    BY GoodView
  <1>2. d \in Discovers(w) /\ Selected(d)
    BY <1>1 DEF Discovers, Selected
  <1>3. Reload(a) = SetView(a, d)
    BY DEF Reload, SetView
  <1> HIDE DEF d
  <1>4. Keeps(a, SetView(a, d), w) /\ SetView(a, d).discover = d
    BY <1>2, ViewGood
  <1> QED
    BY <1>3, <1>4 DEF d

\* Keys of the list of sources, of the filters, of the pages and of the builder.
LEMMA PlainKeys ==
    ASSUME AppInv,
           \/ EnterDiscover \/ LeaveDiscover \/ ReloadKey \/ refresh_current_view
           \/ ExitExplorer \/ ClosePathDialog
           \/ \E f \in Filter : SetFilter(f)
           \/ \E p \in 0 .. LastOffset : TurnPage(p)
           \/ \E p \in Pattern : TypePattern(p)
    PROVE  AppInv'
  <1> DEFINE w == app.workspace
             o == app.discover
             b == Reload(app)
             d == b.discover
             ViewIs(a, v) == a = SetView(b, v) /\ v \in Discovers(w) /\ Selected(v)
  <1>0. w \in Workspace /\ Good(app, w) /\ app.returned = FALSE /\ app \in Apps(w)
    BY DEF AppInv, Good
  <1>1. o \in Discovers(w) /\ Selected(o)
    BY <1>0, GoodView
  <1>2. 0 \in 0 .. LastOffset
    BY DiscoverAssumption
  <1>3. Keeps(app, b, w) /\ Good(b, w) /\ b \in Apps(w)
    BY <1>0, ReloadGood DEF Keeps, Good
  <1>4. d \in Discovers(w) /\ Selected(d)
    BY <1>3, GoodView
  <1> HIDE DEF b
  <1>5. ASSUME NEW a, NEW v, Press(a), ViewIs(a, v)
        PROVE  AppInv'
    <2>1. Keeps(b, a, w)
      BY <1>3, <1>5, ViewGood
    <2>2. Keeps(app, a, w)
      BY <1>3, <2>1, KeepsChain
    <2> QED
      BY <1>5, <2>2, KeepsKey
  <1>6. CASE EnterDiscover
    BY <1>0, <1>6, EnterGood, PressGood DEF EnterDiscover
  <1>7. CASE LeaveDiscover
    <2> DEFINE c == [app EXCEPT !.ingest = FALSE]
               v == [o EXCEPT !.view = IF o.view = "Scanning" THEN "Files" ELSE o.view]
    <2>1. Good(c, w) /\ c.discover = o /\ c.returned = FALSE
      BY <1>0, IngestGood
    <2>2. v \in Discovers(w) /\ Selected(v)
      BY <1>1 DEF Discovers, Selected, View
    <2>3. Press([c EXCEPT !.discover.view = IF @ = "Scanning" THEN "Files" ELSE @])
      BY <1>7 DEF LeaveDiscover
    <2> HIDE DEF c
    <2>4. Press(SetView(c, v))
      BY <2>1, <2>3 DEF SetView
    <2> HIDE DEF v
    <2>5. Keeps(c, SetView(c, v), w)
      BY <2>1, <2>2, ViewGood
    <2> QED
      BY <1>0, <2>1, <2>4, <2>5, PressGood DEF Keeps
  <1>8. CASE ReloadKey
    <2> DEFINE v == [d EXCEPT !.sources_loaded = FALSE]
    <2>1. v \in Discovers(w) /\ Selected(v)
      BY <1>4 DEF Discovers, Selected
    <2>2. Press(SetView(b, v))
      BY <1>8 DEF ReloadKey, SetView, b
    <2> HIDE DEF v
    <2> QED
      BY <1>5, <2>1, <2>2
  <1>9. CASE refresh_current_view
    <2>1. Press(refresh_tags_list(b))
      BY <1>9 DEF refresh_current_view, b
    <2>2. Keeps(b, refresh_tags_list(b), w)
      BY <1>0, <1>3, RefreshTags
    <2> QED
      BY <1>3, <2>1, <2>2, KeepsChain, KeepsKey
  <1>10. CASE ExitExplorer
    <2> DEFINE v == [d EXCEPT !.explorer = None]
    <2>1. v \in Discovers(w) /\ Selected(v)
      BY <1>4 DEF Discovers, Selected
    <2>2. Press(SetView(b, v))
      BY <1>10 DEF ExitExplorer, SetView, b
    <2> HIDE DEF v
    <2> QED
      BY <1>5, <2>1, <2>2
  <1>11. CASE ClosePathDialog
    <2> DEFINE v == [o EXCEPT !.view = "Files", !.error = FALSE]
    <2>1. v \in Discovers(w) /\ Selected(v)
      BY ZenonT(60), <1>1 DEF Discovers, Selected, View
    <2>2. Press([app EXCEPT !.discover.view = "Files", !.discover.error = FALSE])
      BY <1>11 DEF ClosePathDialog
    <2>3. Press(SetView(app, v))
      BY ZenonT(60), <1>0, <2>2, Nest DEF SetView
    <2> HIDE DEF v
    <2> QED
      BY <2>1, <2>3, ViewKey
  <1>12. CASE \E f \in Filter : SetFilter(f)
    <2> PICK f \in Filter : SetFilter(f)
      BY <1>12
    <2> DEFINE v == [d EXCEPT !.filter = f, !.page = 0]
    <2>1. v \in Discovers(w) /\ Selected(v)
      BY <1>2, <1>4 DEF Discovers, Selected
    <2>2. Press([b EXCEPT !.discover.filter = f, !.discover.page = 0])
      BY DEF SetFilter, b
    <2>3. Press(SetView(b, v))
      BY <1>3, <2>2, Nest DEF SetView
    <2> HIDE DEF v
    <2> QED
      BY <1>5, <2>1, <2>3
  <1>13. CASE \E p \in 0 .. LastOffset : TurnPage(p)
    <2> PICK p \in 0 .. LastOffset : TurnPage(p)
      BY <1>13
    <2> DEFINE v == [d EXCEPT !.page = p]
    <2>1. v \in Discovers(w) /\ Selected(v)
      BY <1>4 DEF Discovers, Selected
    <2>2. Press(SetView(b, v))
      BY DEF TurnPage, SetView, b
    <2> HIDE DEF v
    <2> QED
      BY <1>5, <2>1, <2>2
  <1>14. CASE \E p \in Pattern : TypePattern(p)
    <2> PICK p \in Pattern : TypePattern(p)
      BY <1>14
    <2> DEFINE k == [o.builder EXCEPT !.pattern = p]
               r == [k EXCEPT !.changed = TRUE]
               v == [o EXCEPT !.builder = r]
    <2>1. o.builder \in Builders(w) /\ o.builder # None
      BY <1>1 DEF TypePattern, Discovers
    <2>2. r \in Builders(w)
      BY <2>1 DEF Builders
    <2>3. Press([app EXCEPT !.discover.builder.pattern = p, !.discover.builder.changed = TRUE])
      BY DEF TypePattern
    <2> HIDE DEF k
    <2>4. [[o EXCEPT !.builder = k] EXCEPT !.builder.changed = TRUE] = v
      <3> DEFINE x == [o EXCEPT !.builder = k]
      <3>1. x.builder = k /\ [x EXCEPT !.builder = r] = v
        <4> HIDE DEF r
        <4> QED
          BY <1>1, NestView
      <3> HIDE DEF x
      <3>2. [x EXCEPT !.builder.changed = TRUE] = [x EXCEPT !.builder = r]
        BY <3>1
      <3> HIDE DEF r, v
      <3> QED
        BY <3>1, <3>2 DEF x
    <2>5. [app EXCEPT !.discover.builder.pattern = p, !.discover.builder.changed = TRUE]
          = SetView(app, v)
      <3>1. [app EXCEPT !.discover.builder.pattern = p, !.discover.builder.changed = TRUE]
            = [[app EXCEPT !.discover = [o EXCEPT !.builder = k]]
                   EXCEPT !.discover.builder.changed = TRUE]
        BY DEF k
      <3> DEFINE x == [o EXCEPT !.builder = k]
                 y == [app EXCEPT !.discover = x]
      <3>2. y.discover = x /\ \A z : [y EXCEPT !.discover = z] = [app EXCEPT !.discover = z]
        <4> HIDE DEF x
        <4> QED
          BY <1>0, Nest
      <3> HIDE DEF y
      <3>3. [y EXCEPT !.discover.builder.changed = TRUE] = [y EXCEPT !.discover = v]
        <4> HIDE DEF v
        <4> QED
          BY <2>4, <3>2
      <3> HIDE DEF v
      <3> QED
        BY <3>1, <3>2, <3>3 DEF y, x, SetView
    <2>6. v \in Discovers(w) /\ Selected(v)
      <3> HIDE DEF r
      <3> QED
        BY <1>1, <2>2 DEF Discovers, Selected
    <2> HIDE DEF v
    <2> QED
      BY <2>3, <2>5, <2>6, ViewKey
  <1> QED
    BY <1>6, <1>7, <1>8, <1>9, <1>10, <1>11, <1>12, <1>13, <1>14

\* Receivers that outlive a switch may belong to any workspace.
LEMMA Outliving ==
    ASSUME NEW v, NEW w, NEW k \in {"files", "tags", "scan"}
    PROVE  Receivers(k, v) = Receivers(k, w)
  <1>1. Question(k, v) = Question(k, w) /\ Listing(k, v) = Listing(k, w)
    BY DEF Question, Listing
  <1> QED
    BY <1>1 DEF Receivers

\* A switch of workspace leaves nothing of the old one but those receivers.
LEMMA SwitchGood ==
    ASSUME NEW v, NEW w, NEW a, Good(a, v)
    PROVE  LET b == [reset_workspace_scoped_state(a) EXCEPT !.workspace = w]
           IN  Good(b, w) /\ b.returned = a.returned
  <1> DEFINE gone == {"cache", "folders", "search", "sources"}
             P == [k \in Slot |-> IF k \in gone THEN None ELSE a.pending[k]]
             b == [reset_workspace_scoped_state(a) EXCEPT !.workspace = w]
  <1>1. FreshDiscover \in Discovers(w) /\ Selected(FreshDiscover)
    <2>1. 0 \in 0 .. LastOffset /\ NoFilter \in Filter
      BY DiscoverAssumption
    <2> QED
      BY <2>1 DEF FreshDiscover, Discovers, Selected, View
  <1>2. P \in Pendings(w) /\ P["cache"] = None
    <2>1. ASSUME NEW k \in Slot PROVE P[k] \in Receivers(k, w) \cup {None}
      <3>1. CASE k \in gone
        BY <3>1
      <3>2. CASE k \notin gone
        <4>1. k \in {"files", "tags", "scan"}
          BY <3>2 DEF Slot
        <4>2. a.pending[k] \in Receivers(k, v) \cup {None}
          BY PendingAt, AppParts DEF Good
        <4>3. Receivers(k, v) = Receivers(k, w)
          BY <4>1, Outliving
        <4> QED
          BY <3>2, <4>2, <4>3
      <3> QED
        BY <3>1, <3>2
    <2>2. P["cache"] = None
      BY DEF Slot
    <2>3. P = [k \in Slot |-> P[k]]
      OBVIOUS
    <2> HIDE DEF P
    <2>4. \A k \in Slot : P[k] \in Receiver(w) \cup {None}
      BY <2>1 DEF Receiver
    <2> QED
      BY <2>1, <2>2, <2>3, <2>4 DEF Pendings
  <1>3. reset_workspace_scoped_state(a)
        = [a EXCEPT !.discover = FreshDiscover, !.pending = P, !.progress = FALSE]
    BY DEF reset_workspace_scoped_state
  <1> HIDE DEF P
  <1>4. /\ b \in Apps(w) /\ b.discover = FreshDiscover /\ b.pending = P /\ b.progress = FALSE
        /\ b.returned = a.returned
    BY <1>1, <1>2, <1>3 DEF Good, Apps
  <1> HIDE DEF b
  <1>5. Good(b, w)
    BY <1>1, <1>2, <1>4 DEF Good
  <1> QED
    BY <1>4, <1>5 DEF b

\* Keys that touch receivers.
LEMMA LoadKeys ==
    ASSUME AppInv,
           \/ CancelScan
           \/ \E s \in Source : SelectSource(s) \/ scan_directory(s)
           \/ \E p \in Prefix : Drill(p)
           \/ \E v \in Workspace : apply_active_workspace(v)
    PROVE  AppInv'
  <1> DEFINE w == app.workspace
             o == app.discover
  <1>0. w \in Workspace /\ Good(app, w) /\ app.returned = FALSE /\ app \in Apps(w)
    BY DEF AppInv, Good
  <1>1. o \in Discovers(w) /\ Selected(o)
    BY <1>0, GoodView
  <1>2. 0 \in 0 .. LastOffset /\ NoFilter \in Filter
    BY DiscoverAssumption
  <1>3. "scan" \in Slot
    BY DEF Slot
  <1>4. ASSUME NEW b, Keeps(app, b, w), NEW v \in Discovers(w), Selected(v), Press(SetView(b, v))
        PROVE  AppInv'
    <2>1. Keeps(b, SetView(b, v), w)
      BY <1>4, ViewGood DEF Keeps
    <2> QED
      BY <1>4, <2>1, KeepsChain, KeepsKey
  <1>5. CASE CancelScan
    <2> DEFINE b == Drop(app, "scan")
               v == [o EXCEPT !.view = "Files"]
    <2>1. Keeps(app, b, w) /\ b.discover = o
      BY <1>0, <1>3, DropGood
    <2>2. Press([b EXCEPT !.discover.view = "Files"])
      BY <1>5 DEF CancelScan
    <2> HIDE DEF b
    <2>3. Press(SetView(b, v))
      BY <2>1, <2>2 DEF SetView
    <2>4. v \in Discovers(w) /\ Selected(v)
      BY <1>1 DEF Discovers, Selected, View
    <2> HIDE DEF v
    <2> QED
      BY <1>4, <2>1, <2>3, <2>4
  <1>6. CASE \E s \in Source : SelectSource(s)
    <2> PICK s \in Source : SelectSource(s)
      BY <1>6
    <2> DEFINE r == Reload(app)
               b == CacheEnded(r)
               d == b.discover
               v == [d EXCEPT !.source = s, !.page = 0, !.last = 0, !.filter = NoFilter,
                              !.explorer = None, !.builder = None, !.view = "RuleBuilder"]
    <2>1. s \in o.sources
      BY DEF SelectSource
    <2>2. Keeps(app, r, w) /\ Good(r, w) /\ r.discover = [o EXCEPT !.data_loaded = FALSE]
      BY <1>0, ReloadGood DEF Keeps
    <2>3. Keeps(r, b, w) /\ d = r.discover
      <3> HIDE DEF r
      <3> QED
        BY <2>2, CacheDrop
    <2>4. Press([b EXCEPT !.discover = [@ EXCEPT !.source = s, !.page = 0, !.last = 0,
                                                  !.filter = NoFilter, !.explorer = None,
                                                  !.builder = None, !.view = "RuleBuilder"]])
      BY DEF SelectSource
    <2> HIDE DEF b, r
    <2>5. d \in Discovers(w) /\ d.sources = o.sources
      <3>1. Good(r, w)
        BY <2>2
      <3>2. d \in Discovers(w)
        BY <2>3, <3>1, GoodView
      <3>3. r.discover.sources = o.sources
        BY <1>1, <2>2 DEF Discovers
      <3> QED
        BY <2>3, <3>2, <3>3
    <2>6. Press(SetView(b, v))
      BY <2>4 DEF SetView
    <2>7. s # None
      BY NoneIsNothing
    <2> HIDE DEF d
    <2>8. v \in Discovers(w) /\ Selected(v)
      BY <1>2, <2>1, <2>5, <2>7 DEF Discovers, Selected, View
    <2> HIDE DEF v
    <2>9. Keeps(app, b, w)
      BY <2>2, <2>3, KeepsChain
    <2> QED
      BY <1>4, <2>6, <2>8, <2>9
  <1>7. CASE \E s \in Source : scan_directory(s)
    <2> PICK s \in Source : scan_directory(s)
      BY <1>7
    <2> DEFINE q == Origin(w, s)
               b == Ask(app, "scan", q)
               u == [o EXCEPT !.view = "Files", !.error = TRUE]
               v == [o EXCEPT !.view = "Scanning", !.error = FALSE]
    <2>1. Press([app EXCEPT !.discover.view = "Files", !.discover.error = TRUE])
          \/ Press([b EXCEPT !.discover.view = "Scanning", !.discover.error = FALSE])
      BY DEF scan_directory
    <2>2. q \in Question("scan", w)
      BY <1>0 DEF Question, Origins, Origin
    <2> HIDE DEF q
    <2>3. Keeps(app, b, w) /\ b.discover = o
      BY <1>0, <1>3, <2>2, AskGood
    <2>4. b \in Apps(w)
      BY <2>3 DEF Keeps, Good
    <2> HIDE DEF b
    <2>5. [app EXCEPT !.discover.view = "Files", !.discover.error = TRUE] = SetView(app, u)
      BY <1>0, Nest DEF SetView
    <2>6. [b EXCEPT !.discover.view = "Scanning", !.discover.error = FALSE] = SetView(b, v)
      BY <2>3, <2>4, Nest DEF SetView
    <2>7. u \in Discovers(w) /\ Selected(u)
      BY <1>1 DEF Discovers, Selected, View
    <2>8. v \in Discovers(w) /\ Selected(v)
      BY ZenonT(60), <1>1 DEF Discovers, Selected, View
    <2> HIDE DEF u, v
    <2>9. CASE Press(SetView(app, u))
      BY <2>7, <2>9, ViewKey
    <2>10. CASE Press(SetView(b, v))
      BY <1>4, <2>3, <2>8, <2>10
    <2> QED
      BY <2>1, <2>5, <2>6, <2>9, <2>10
  <1>8. CASE \E p \in Prefix : Drill(p)
    <2> PICK p \in Prefix : Drill(p)
      BY <1>8
    <2> DEFINE n == [o.explorer EXCEPT !.prefix = p]
               b == SetView(app, [o EXCEPT !.explorer = n])
    <2>1. o.explorer \in Explorers(w)
      BY <1>1 DEF Drill, Exploring, Discovers
    <2>2. n \in Explorers(w) \cup {None}
      BY <2>1 DEF Explorers
    <2>3. Press(update_folders_from_cache(b))
      BY DEF Drill, SetView
    <2> HIDE DEF n
    <2>4. Keeps(app, b, w)
      BY <1>0, <2>2, ExplorerGood
    <2> HIDE DEF b
    <2>5. Keeps(b, update_folders_from_cache(b), w)
      BY <2>4, UpdateFolders DEF Keeps
    <2> QED
      BY <2>3, <2>4, <2>5, KeepsChain, KeepsKey
  <1>9. CASE \E v \in Workspace : apply_active_workspace(v)
    <2> PICK v \in Workspace : apply_active_workspace(v)
      BY <1>9
    <2> DEFINE b == [reset_workspace_scoped_state(app) EXCEPT !.workspace = v]
    <2>1. Press(enter_discover_mode(b)) \/ Press(b)
      BY DEF apply_active_workspace
    <2>2. Good(b, v) /\ b.returned = FALSE
      BY <1>0, SwitchGood
    <2> HIDE DEF b
    <2>3. Good(enter_discover_mode(b), v) /\ enter_discover_mode(b).returned = FALSE
      BY <2>2, EnterGood
    <2> QED
      BY <2>1, <2>2, <2>3, PressGood
  <1> QED
    BY <1>5, <1>6, <1>7, <1>8, <1>9

--------------------------------------------------------------------------------
(* The threads, the initial states and the theorems. *)

\* An answer arrives on a receiver that waits for one.
LEMMA DeliverGood ==
    ASSUME AppInv, NEW k \in Slot, NEW r \in Receivers(k, app.workspace), Deliver(k, r),
           store' \subseteq Source
    PROVE  AppInv'
  <1> DEFINE w == app.workspace
             p == [app.pending EXCEPT ![k] = r]
             b == [app EXCEPT !.pending = p]
  <1>0. w \in Workspace /\ Good(app, w) /\ app.returned = FALSE /\ "cache" \in Slot
    BY DEF AppInv, Slot
  <1>1. r \in Receivers(k, w) \cup {None}
    OBVIOUS
  <1>2. p \in Pendings(w) /\ p[k] = r /\ \A i \in Slot : i # k => p[i] = app.pending[i]
    BY <1>0, <1>1, PendingPut, AppParts DEF Good
  <1>3. app.pending["cache"] # None <=> p["cache"] # None
    <2>1. CASE k = "cache"
      <3>1. app.pending["cache"] # None
        BY <2>1 DEF Deliver, Arrived, Waiting
      <3>2. r # None
        <4>1. Origins({w}) \subseteq [workspace : Workspace, source : Source]
          BY <1>0 DEF Origins
        <4>2. Question(k, w) = Origins({w}) /\ Listing(k, w) = {{}}
          BY <2>1 DEF Question, Listing
        <4>3. \/ r \in [question : Origins({w}), answer : Answer]
              \/ r \in [question : Origins({w}), answer : Answer, list : {{}}]
          BY <4>2 DEF Receivers, Answer
        <4> QED
          BY <4>1, <4>3, NoneIsNothing
      <3> QED
        BY <1>2, <2>1, <3>1, <3>2
    <2>2. CASE k # "cache"
      BY <1>0, <1>2, <2>2
    <2> QED
      BY <2>1, <2>2
  <1>4. app' = b /\ reachable' = reachable
    BY DEF Deliver
  <1> HIDE DEF p
  <1>5. /\ b \in Apps(w) /\ b.discover = app.discover /\ b.pending = p /\ b.progress = app.progress
        /\ b.returned = FALSE /\ b.workspace = w
    BY <1>0, <1>2 DEF Good, Apps
  <1> HIDE DEF b
  <1>6. Good(b, w)
    BY <1>0, <1>3, <1>5 DEF Good
  <1> QED
    BY <1>0, <1>4, <1>5, <1>6 DEF AppInv

\* An answer without data.
LEMMA EmptyAnswer ==
    ASSUME AppInv, NEW k \in Slot, NEW how \in {"error", "gone"},
           Deliver(k, [app.pending[k] EXCEPT !.answer = how]), store' = store
    PROVE  AppInv'
  <1> DEFINE r == [app.pending[k] EXCEPT !.answer = how]
  <1>1. app.pending[k] \in Receivers(k, app.workspace) /\ app.pending[k].answer = "none"
    BY PendingAt, AppParts DEF AppInv, Good, Deliver, Arrived, Waiting
  <1>2. r \in Receivers(k, app.workspace)
    <2>1. app.pending[k] \in [question : Question(k, app.workspace), answer : Answer \ {"ok"}]
      BY <1>1 DEF Receivers
    <2>2. r \in [question : Question(k, app.workspace), answer : Answer \ {"ok"}]
      BY <2>1 DEF Answer
    <2> QED
      BY <2>2 DEF Receivers
  <1>3. store' \subseteq Source
    BY DEF AppInv
  <1> HIDE DEF r
  <1>4. Deliver(k, r)
    BY DEF r
  <1> QED
    BY <1>2, <1>3, <1>4, DeliverGood

\* The Sentinel lists the sources of the workspace it was asked about.
LEMMA AnsweredGood ==
    ASSUME AppInv, NEW k \in Slot, Answered(k)
    PROVE  AppInv'
  <1> DEFINE w == app.workspace
             q == app.pending[k].question
             l == IF k = "sources" THEN SourcesOf(q.workspace) ELSE {}
             r == [question |-> q, answer |-> "ok", list |-> l]
  <1>0. w \in Workspace /\ Good(app, w) /\ store \subseteq Source
    BY DEF AppInv
  <1>1. q \in Question(k, w)
    BY <1>0, Asked DEF Answered, Waiting
  <1>2. l \in Listing(k, w)
    <2>1. CASE k = "sources"
      <3>1. q.workspace = w
        BY <1>1, <2>1 DEF Question
      <3> QED
        BY <1>0, <2>1, <3>1 DEF Listing, SourcesOf, SourcesAt
    <2>2. CASE k # "sources"
      BY <2>2 DEF Listing
    <2> QED
      BY <2>1, <2>2
  <1>3. store' \subseteq Source
    <2>1. k = "scan" => q.source \in Source
      BY <1>1 DEF Question, Origins
    <2>2. store' = IF k = "scan" THEN store \cup {q.source} ELSE store
      BY DEF Answered
    <2> QED
      BY <1>0, <2>1, <2>2
  <1>4. Deliver(k, r)
    BY DEF Answered
  <1> HIDE DEF q, l
  <1>5. r \in Receivers(k, w)
    BY <1>1, <1>2 DEF Receivers
  <1> HIDE DEF r
  <1> QED
    BY <1>3, <1>4, <1>5, DeliverGood

\* Discover is opened on the sources of the saved workspace.
LEMMA InitGood == Init => AppInv
  <1> SUFFICES ASSUME Init PROVE AppInv
    OBVIOUS
  <1> DEFINE L == {k \in Known : home[k] = saved}
             P == [k \in Slot |-> None]
  <1>1. PICK s \in L, view \in {"RuleBuilder", "Files"} :
          app = [discover |-> [FreshDiscover EXCEPT
                                 !.view = view, !.sources = L, !.sources_loaded = TRUE,
                                 !.source = s, !.builder = NewBuilder(s)],
                 workspace |-> saved, ingest |-> TRUE, connected |-> TRUE, progress |-> FALSE,
                 pending |-> P, returned |-> FALSE]
    BY DEF Init
  <1> DEFINE d == [FreshDiscover EXCEPT !.view = view, !.sources = L, !.sources_loaded = TRUE,
                                        !.source = s, !.builder = NewBuilder(s)]
  <1>2. /\ 0 \in 0 .. LastOffset /\ NoFilter \in Filter /\ saved \in Workspace
        /\ L \subseteq SourcesAt(saved) /\ s \in Source /\ s # None
    BY DiscoverAssumption, NoneIsNothing DEF SourcesAt
  <1>3. NewBuilder(s) \in Builders(saved)
    BY <1>2 DEF NewBuilder, Builders, Pattern
  <1>4. d \in Discovers(saved) /\ Selected(d)
    BY <1>2, <1>3 DEF FreshDiscover, Discovers, Selected, View
  <1> HIDE DEF d
  <1>5. P \in Pendings(saved) /\ P["cache"] = None
    BY DEF Pendings, Slot
  <1> HIDE DEF P
  <1>6. /\ app \in Apps(saved) /\ app.discover = d /\ app.pending = P /\ app.progress = FALSE
        /\ app.returned = FALSE /\ app.workspace = saved
    <2>1. app = [discover |-> d, workspace |-> saved, ingest |-> TRUE, connected |-> TRUE,
                 progress |-> FALSE, pending |-> P, returned |-> FALSE]
      BY <1>1 DEF d
    <2> QED
      BY <1>4, <1>5, <2>1 DEF Apps
  <1>7. Good(app, saved)
    BY <1>4, <1>5, <1>6 DEF Good
  <1>8. store \subseteq Source /\ reachable \in BOOLEAN
    BY DiscoverAssumption DEF Init
  <1> QED
    BY <1>2, <1>6, <1>7, <1>8 DEF AppInv

\* Every step of the interface keeps the invariant.
LEMMA StepGood == AppInv /\ [Next]_vars => AppInv'
  <1> SUFFICES ASSUME AppInv, [Next]_vars PROVE AppInv'
    OBVIOUS
  <1>1. ASSUME NEW c \in {app.connected, reachable}, NEW elapsed \in BOOLEAN, Tick(c, elapsed)
        PROVE  AppInv'
    <2>1. c \in BOOLEAN
      BY <1>1, GoodView, AppParts DEF AppInv
    <2> QED
      BY <1>1, <2>1, TickGood
  <1>2. CASE Key
    BY <1>2, PlainKeys, LoadKeys DEF Key
  <1>3. CASE Background
    <2>1. ASSUME NEW k \in Slot, Answered(k) PROVE AppInv'
      BY <2>1, AnsweredGood
    <2>2. ASSUME NEW k \in Slot, NEW how \in {"error", "gone"}, Refused(k) \/ Failed(k, how)
          PROVE  AppInv'
      BY <2>2, EmptyAnswer DEF Refused, Failed
    <2>3. CASE SentinelStops \/ SentinelStarts
      BY <2>3 DEF SentinelStops, SentinelStarts, AppInv
    <2> QED
      BY <1>3, <2>1, <2>2, <2>3 DEF Background
  <1>4. CASE UNCHANGED vars
    BY <1>4 DEF vars, AppInv
  <1> QED
    BY <1>1, <1>2, <1>3, <1>4 DEF Next

\* The invariant holds for ever.
THEOREM DiscoverInvariant == Spec => []AppInv
  <1> QED
    BY InitGood, StepGood, PTL DEF Spec

\* What the screen shows, spelled out.
LEMMA ShownAt ==
    ASSUME AppInv
    PROVE  /\ TypeOK
           /\ WorkspaceIsolation
  <1> DEFINE w == app.workspace
             d == app.discover
  <1>0. /\ w \in Workspace /\ d \in Discovers(w) /\ Selected(d) /\ app.returned = FALSE
        /\ app.progress \in BOOLEAN /\ (app.progress <=> app.pending["cache"] # None)
        /\ store \subseteq Source
    BY GoodView, AppParts DEF AppInv, Good
  <1>1. /\ d.files \in FileQuestions({w}) \cup {None} /\ d.tags \in Origins({w}) \cup {None}
        /\ d.explorer \in Explorers(w) \cup {None} /\ d.builder \in Builders(w) \cup {None}
        /\ d.view \in View /\ d.sources \subseteq SourcesAt(w)
        /\ d.page \in 0 .. LastOffset /\ d.last \in 0 .. LastOffset
    BY <1>0 DEF Discovers
  <1> HIDE DEF d
  <1>2. TypeOK
    <2>1. OriginOK(d.files) /\ OriginOK(d.tags)
      BY <1>0, <1>1 DEF OriginOK, FileQuestions, Origins
    <2>2. d.sources \subseteq Source /\ (d.source = None <=> d.sources = {})
      BY <1>0, <1>1 DEF SourcesAt, Selected
    <2> QED
      BY <1>0, <1>1, <2>1, <2>2 DEF TypeOK, Waiting, d
  <1>3. ASSUME NEW o \in Shown \ {None, Message} PROVE o.workspace = w
    <2>1. o \in FileQuestions({w}) \/ o \in Origins({w})
      <3>1. CASE o \in {d.files, d.tags}
        BY <1>1, <1>3, <3>1
      <3>2. CASE d.explorer # None /\ o \in {d.explorer.folders} \cup {d.explorer.cache[p] : p \in Prefix}
        BY <1>1, <1>3, <3>2 DEF Explorers
      <3>3. CASE d.builder # None /\ o \in {d.builder.results}
        BY <1>1, <1>3, <3>3 DEF Builders
      <3> QED
        BY <1>3, <3>1, <3>2, <3>3 DEF Shown, d
    <2> QED
      BY <2>1 DEF FileQuestions, Origins
  <1>4. \A s \in d.sources : home[s] = w
    BY <1>1 DEF SourcesAt
  <1> QED
    BY <1>2, <1>3, <1>4 DEF WorkspaceIsolation, d

\* The fields of the Discover view have their types; a source is selected exactly if
\* there is one, and the progress bar of the cache is there exactly while its
\* receiver is.
THEOREM TypeCorrect == Spec => []TypeOK
  <1>1. AppInv => TypeOK
    BY ShownAt
  <1> QED
    BY <1>1, DiscoverInvariant, PTL

\* The screen never shows data of another workspace than the active one, although
\* the receivers of files, tags and scans outlive a switch (reset_workspace_scoped_state,
\* poll_pending_loads): those of files and tags compare the workspace, the others are
\* dropped.
THEOREM WorkspaceIsolationAlways == Spec => []WorkspaceIsolation
  <1>1. AppInv => WorkspaceIsolation
    BY ShownAt
  <1> QED
    BY <1>1, DiscoverInvariant, PTL

=============================================================================
