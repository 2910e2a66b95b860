---------------------------- MODULE Materialize ----------------------------
(***************************************************************************)
(* Publishing a parser and processing a file only once.  A parser reaches  *)
(* the registry (cf_plugin_manifest, schema_contracts) by a Deploy message *)
(* to the sentinel or by `casparian plugin import`, and leaves it by       *)
(* `parser unpublish`.  A pipeline run skips a file when every             *)
(* materialization key it computes is on record; the sentinel computes the *)
(* same keys after a job concluded, from the sinks it resolved when it     *)
(* dispatched the job and the tables the receipt names.  The computations  *)
(* are separate code, made by separate processes from tables that change   *)
(* in between, and the keys are put on record one by one.                  *)
(*                                                                         *)
(* There is one parser name and one file.  Queueing, leases and retries    *)
(* are in JobQueue and Dispatch, the writing of outputs in SinkCommit.     *)
(***************************************************************************)
EXTENDS Naturals, Sequences

CONSTANTS Outputs,       \* output names
          Schemas,       \* column lists
          Versions,      \* parser versions
          Codes,         \* parser sources, or binaries of native bundles
          Uris,          \* sink URIs, with their write modes
          Tables,        \* table names a Python parser may give an output
          TopicConfigs,  \* the contents cf_topic_config may have
          Requests,      \* what is published
          MaxJobs,       \* bound: rows of cf_processing_queue
          MaxDispatched, \* bound: jobs that are dispatched
          MaxChanges,    \* bound: imports, withdrawals, changes of the file
                         \* and of the sink configuration
          None

(* A publication names its version, its code and the schema of each output. *)
(* A configuration gives the URI of some topics (a topic twice is refused by *)
(* load_topic_configs): output names, or "*" for the default sink.           *)
ASSUME MaterializeAssumption ==
    /\ MaxJobs \in Nat /\ MaxDispatched \in Nat /\ MaxChanges \in Nat
    /\ "*" \notin Outputs /\ None \notin Schemas \cup Tables
    /\ \A c \in TopicConfigs : c \in [DOMAIN c -> Uris] /\ DOMAIN c \subseteq Outputs \cup {"*"}
    /\ \A r \in Requests :
         /\ r.version \in Versions /\ r.code \in Codes
         /\ r.outs \in [DOMAIN r.outs -> Schemas]
         /\ DOMAIN r.outs \subseteq Outputs /\ DOMAIN r.outs # {}

VARIABLES
    disk,       \* the file's generation (mtime and size)
    row,        \* the generation scout_files has
    manifests,  \* cf_plugin_manifest, in the order of created_at
    contracts,  \* schema_contracts: the schema of each version's output
    installed,  \* the bundle in each version's plugin directory
    topics,     \* cf_topic_config
    topic_map,  \* the sentinel's cached copy of it
    importer,   \* a `plugin import` under way
    run,        \* a pipeline run under way
    jobs,       \* the jobs the runs queued
    mats,       \* cf_output_materializations: the keys
    changes,    \* the changes so far
    written,    \* history: what jobs wrote to the sinks
    reimported  \* history: versions imported again after they were installed

registry == <<manifests, contracts, installed, importer, reimported>>
config == <<topics, topic_map>>
file == <<disk, row>>
outcome == <<mats, written>>
vars == <<file, registry, config, run, jobs, outcome, changes>>

Idle == [pc |-> "idle", req |-> None, left |-> {}]

NoRun == [pc |-> "idle", art |-> None, known |-> None, cfg |-> None, sinks |-> None,
          targets |-> {}, gen |-> 0]

NoTables == [o \in Outputs |-> None]

Queued == [st |-> "queued", art |-> None, kind |-> None, known |-> None, cfg |-> None,
           sinks |-> None, produced |-> {}, tables |-> NoTables, gen |-> None]

Failed == [Queued EXCEPT !.st = "failed"]

Init ==
    /\ disk = 0 /\ row = 0
    /\ manifests = <<>>
    /\ contracts = [v \in Versions |-> [o \in Outputs |-> None]]
    /\ installed = [v \in Versions |-> None]
    /\ topics \in TopicConfigs /\ topic_map = topics
    /\ importer = Idle /\ run = NoRun /\ jobs = <<>>
    /\ mats = {} /\ written = {} /\ reimported = {}
    /\ changes = 0

-----------------------------------------------------------------------------
(* The registry's queries.  Of several active rows the newest counts.       *)

Active(rows) == {i \in DOMAIN rows : rows[i].status = "ACTIVE"}

Newest(is) == CHOOSE i \in is : \A k \in is : k <= i

(* ExpectedOutputs::list_for_plugin: the outputs_json of the newest active  *)
(* row of a version, none when there is no such row.                        *)
list_for_plugin(v) ==
    LET is == {i \in Active(manifests) : manifests[i].req.version = v}
    IN  IF is = {} THEN <<>> ELSE manifests[Newest(is)].req.outs

(* UNIQUE(source_hash) of cf_plugin_manifest, and UNIQUE(plugin_name,       *)
(* version, runtime_kind, platform), which binds native plugins only: a     *)
(* Python plugin's platform columns are NULL.                               *)
Unique(req, kind) ==
    \A i \in DOMAIN manifests :
       /\ manifests[i].req.code # req.code
       /\ kind = "native" => ~(manifests[i].kind = kind /\ manifests[i].req.version = req.version)

Row(req, kind) == [req |-> req, kind |-> kind, status |-> "ACTIVE"]

(* save_contract; UNIQUE(scope_id, version) refuses a second contract.      *)
save_contract(cs, v, outs) == [cs EXCEPT ![v] = [o \in Outputs |->
                                  IF o \in DOMAIN outs THEN outs[o] ELSE @[o]]]

NoContract(v, os) == \A o \in os : contracts[v][o] = None

superseding(rows, v) ==
    [i \in DOMAIN rows |-> IF rows[i].status = "ACTIVE" /\ rows[i].req.version # v
                           THEN [rows[i] EXCEPT !.status = "SUPERSEDED"] ELSE rows[i]]

-----------------------------------------------------------------------------
(* Publishing.  The sentinel's executor runs one task at a time, so a Deploy *)
(* never falls inside a dispatch or a conclusion; the command line's         *)
(* statements may.                                                           *)

Change == changes < MaxChanges /\ changes' = changes + 1

Busy == \E j \in DOMAIN jobs : jobs[j].st \in {"loaded", "completed", "recording"}

(* One transaction, rolled back when any output already has a contract at    *)
(* this version; then the topic map is read again.                           *)
deploy_plugin(req) ==
    /\ ~Busy
    /\ Unique(req, "python")
    /\ NoContract(req.version, DOMAIN req.outs)
    /\ manifests' = superseding(Append(manifests, Row(req, "python")), req.version)
    /\ contracts' = save_contract(contracts, req.version, req.outs)
    /\ topic_map' = topics
    /\ UNCHANGED <<file, installed, importer, reimported, topics, run, jobs, outcome, changes>>

Reimported(v) ==
    IF \E i \in DOMAIN manifests : manifests[i].kind = "native" /\ manifests[i].req.version = v
    THEN reimported \cup {v} ELSE reimported

\* Mutant: a directory that exists is taken for the bundle.
import_keeping_files(req) ==
    /\ importer = Idle /\ Change
    /\ importer' = [pc |-> IF installed[req.version] = None THEN "removed" ELSE "copied",
                    req |-> req, left |-> {}]
    /\ reimported' = Reimported(req.version)
    /\ UNCHANGED <<file, manifests, contracts, installed, config, run, jobs, outcome>>

(* cmd_import replaces the plugin directory before it looks at the registry, *)
(* and is not a transaction: it may be killed between any two steps.         *)
ImportRemove(req) ==
    /\ importer = Idle /\ Change
    /\ importer' = [pc |-> "removed", req |-> req, left |-> {}]
    /\ installed' = [installed EXCEPT ![req.version] = None]
    /\ reimported' = Reimported(req.version)
    /\ UNCHANGED <<file, manifests, contracts, config, run, jobs, outcome>>

ImportCopy ==
    /\ importer.pc = "removed"
    /\ importer' = [importer EXCEPT !.pc = "copied"]
    /\ installed' = [installed EXCEPT ![importer.req.version] = importer.req.code]
    /\ UNCHANGED <<file, manifests, contracts, reimported, config, run, jobs, outcome, changes>>

(* ensure_plugin_not_installed and insert_manifest; no row is superseded.    *)
ImportManifest ==
    /\ importer.pc = "copied"
    /\ IF Unique(importer.req, "native")
       THEN /\ manifests' = Append(manifests, Row(importer.req, "native"))
            /\ importer' = [importer EXCEPT !.pc = "contracts", !.left = DOMAIN importer.req.outs]
       ELSE /\ importer' = Idle
            /\ UNCHANGED manifests
    /\ UNCHANGED <<file, contracts, installed, reimported, config, run, jobs, outcome, changes>>

\* Mutant: a contract that is there is replaced.
import_contract_over(o) ==
    LET v == importer.req.version  rest == importer.left \ {o}
    IN  /\ importer.pc = "contracts" /\ o \in importer.left
        /\ contracts' = [contracts EXCEPT ![v][o] = importer.req.outs[o]]
        /\ importer' = IF rest = {} THEN Idle ELSE [importer EXCEPT !.left = rest]
        /\ UNCHANGED <<file, manifests, installed, reimported, config, run, jobs, outcome, changes>>

\* Mutant: the import does not end with its last contract.
import_contract_waiting(o) ==
    /\ importer.pc = "contracts" /\ o \in importer.left
    /\ NoContract(importer.req.version, {o})
    /\ contracts' = [contracts EXCEPT ![importer.req.version][o] = importer.req.outs[o]]
    /\ importer' = [importer EXCEPT !.left = @ \ {o}]
    /\ UNCHANGED <<file, manifests, installed, reimported, config, run, jobs, outcome, changes>>

(* register_schema_contracts, one output at a time; an output that has a     *)
(* contract ends the import with an error.                                   *)
ImportContract(o) ==
    LET v == importer.req.version  rest == importer.left \ {o}
    IN  /\ importer.pc = "contracts" /\ o \in importer.left
        /\ IF NoContract(v, {o})
           THEN /\ contracts' = [contracts EXCEPT ![v][o] = importer.req.outs[o]]
                /\ importer' = IF rest = {} THEN Idle ELSE [importer EXCEPT !.left = rest]
           ELSE /\ importer' = Idle
                /\ UNCHANGED contracts
        /\ UNCHANGED <<file, manifests, installed, reimported, config, run, jobs, outcome, changes>>

ImportKilled ==
    /\ importer # Idle
    /\ importer' = Idle
    /\ UNCHANGED <<file, manifests, contracts, installed, reimported, config, run, jobs, outcome, changes>>

cmd_unpublish ==
    /\ Active(manifests) # {} /\ Change
    /\ manifests' = [i \in DOMAIN manifests |-> [manifests[i] EXCEPT !.status = "SUPERSEDED"]]
    /\ UNCHANGED <<file, contracts, installed, importer, reimported, config, run, jobs, outcome>>

(* No code of the repository writes cf_topic_config: rows are edited by hand. *)
EditTopics ==
    /\ Change
    /\ topics' \in TopicConfigs \ {topics}
    /\ UNCHANGED <<file, registry, topic_map, run, jobs, outcome>>

(* The file changes, and a scan copies its size and mtime to scout_files.    *)
Edit ==
    /\ Change
    /\ disk' = disk + 1
    /\ UNCHANGED <<row, registry, config, run, jobs, outcome>>

Rescan ==
    /\ row # disk
    /\ row' = disk
    /\ UNCHANGED <<disk, registry, config, run, jobs, outcome, changes>>

-----------------------------------------------------------------------------
(* Sinks and keys.  schema_hash is a hash of the column list, content_hash   *)
(* another hash, of the output's name and its columns.                       *)

schema_hash(s) == IF s = None THEN None ELSE <<"schema_hash", s>>

content_hash(o, s) == <<"content_hash", o, s>>

(* The schema suffix is left out when there is no hash.                      *)
table_name_with_schema(base, hash) == <<base, hash>>

output_target_key(o, uri, table, hash) ==
    [output |-> o, uri |-> uri, table |-> table, hash |-> hash]

materialization_key(gen, art, target) == [gen |-> gen, art |-> art, target |-> target]

is_default_sink(topic) == topic = "*"

(* Without a configuration there is one default sink.                        *)
WithDefault(cfg) == IF DOMAIN cfg = {} THEN [t \in {"*"} |-> "default"] ELSE cfg

(* The sink of a topic, with the contract of that output at this version, if *)
(* there is one.                                                             *)
attach_contract_override(v, topic, uri) ==
    [uri |-> uri, schema |-> IF is_default_sink(topic) THEN None ELSE contracts[v][topic]]

(* The pipeline's resolution: the configured topics only.                    *)
apply_contract_overrides(v, cfg) ==
    [t \in DOMAIN cfg |-> attach_contract_override(v, t, cfg[t])]

(* The sentinel's: every output the manifest declares and no topic names     *)
(* gets a copy of the default sink, which stays only when there are none.    *)
apply_contract_overrides_with_storage(v, cfg) ==
    LET expected == DOMAIN list_for_plugin(v)
        resolved == IF "*" \in DOMAIN cfg /\ expected # {}
                    THEN (DOMAIN cfg \ {"*"}) \cup expected ELSE DOMAIN cfg
        uri(t) == IF t \in DOMAIN cfg THEN cfg[t] ELSE cfg["*"]
    IN  [t \in resolved |-> attach_contract_override(v, t, uri(t))]

(* The sink of an output, in the worker and again in the sentinel: the one   *)
(* of its name, else the default, else the only one.                         *)
select_sink(sinks, o) ==
    IF o \in DOMAIN sinks THEN o
    ELSE IF "*" \in DOMAIN sinks THEN "*"
    ELSE IF \E t \in DOMAIN sinks : DOMAIN sinks = {t} THEN CHOOSE t \in DOMAIN sinks : TRUE
    ELSE None

(* The pipeline's own expansion: the keys of the named topics, and under the *)
(* default sink a key for every declared output, with the hash outputs_json  *)
(* carries.  A default sink and no declared output: no keys.                 *)
output_target_keys_for_sinks(v, sinks) ==
    LET outs == list_for_plugin(v)
        key(o, uri, hash) == output_target_key(o, uri, table_name_with_schema(o, hash), hash)
        named == {key(t, sinks[t].uri, schema_hash(sinks[t].schema)) : t \in DOMAIN sinks \ {"*"}}
    IN  IF "*" \notin DOMAIN sinks THEN named
        ELSE IF DOMAIN outs = {} THEN {}
        ELSE named \cup {key(o, sinks["*"].uri, content_hash(o, outs[o])) : o \in DOMAIN outs}

-----------------------------------------------------------------------------
(* enqueue_jobs: statements of a process of its own, under no transaction.   *)

load_parser_manifest ==
    /\ run.pc \in {"idle", "queued", "skipped"}
    /\ Active(manifests) # {}
    /\ run' = [NoRun EXCEPT !.pc = "sinks", !.art = manifests[Newest(Active(manifests))].req]
    /\ UNCHANGED <<file, registry, config, jobs, outcome, changes>>

load_sink_configs ==
    /\ run.pc = "sinks"
    /\ run' = [run EXCEPT !.pc = "targets", !.cfg = topics, !.known = contracts[run.art.version],
                 !.sinks = apply_contract_overrides(run.art.version, WithDefault(topics))]
    /\ UNCHANGED <<file, registry, config, jobs, outcome, changes>>

RunTargets ==
    /\ run.pc = "targets"
    /\ run' = [run EXCEPT !.pc = "generation",
                 !.targets = output_target_keys_for_sinks(run.art.version, run.sinks)]
    /\ UNCHANGED <<file, registry, config, jobs, outcome, changes>>

load_file_generation ==
    /\ run.pc = "generation"
    /\ run' = [run EXCEPT !.pc = "decide", !.gen = row]
    /\ UNCHANGED <<file, registry, config, jobs, outcome, changes>>

Recorded(t) == materialization_key(run.gen, run.art, t) \in mats

\* Mutant: one materialized output is enough.
skip_if_any == \E t \in run.targets : Recorded(t)

(* The file is skipped when there are keys and all of them are on record.    *)
RunSkips == run.targets # {} /\ \A t \in run.targets : Recorded(t)

enqueue_jobs ==
    /\ run.pc = "decide"
    /\ IF RunSkips
       THEN run' = [run EXCEPT !.pc = "skipped"] /\ UNCHANGED jobs
       ELSE /\ Len(jobs) < MaxJobs
            /\ run' = [run EXCEPT !.pc = "queued"]
            /\ jobs' = Append(jobs, Queued)
    /\ UNCHANGED <<file, registry, config, outcome, changes>>

-----------------------------------------------------------------------------
(* A job.  Dispatch reads the newest active manifest, and after the checks   *)
(* reads the registry again to resolve the sinks.                            *)

load_dispatch_data(j) ==
    /\ jobs[j].st = "queued" /\ ~Busy
    /\ \A i \in 1..(j - 1) : jobs[i].st # "queued"
    /\ j <= MaxDispatched
    /\ topic_map' \in {topic_map, topics}          \* TOPIC_CACHE_TTL_SECS
    /\ jobs' = [jobs EXCEPT ![j] =
         IF Active(manifests) = {} THEN Failed
         ELSE LET m == manifests[Newest(Active(manifests))]
              IN  [@ EXCEPT !.st = "loaded", !.art = m.req, !.kind = m.kind,
                            !.known = contracts[m.req.version]]]
    /\ UNCHANGED <<file, registry, topics, run, outcome, changes>>

\* Mutant: the sinks are resolved for the version that is newest by now.
resolve_for_newest(j) ==
    LET is == Active(manifests)
        v == IF is = {} THEN jobs[j].art.version ELSE manifests[Newest(is)].req.version
    IN  /\ jobs[j].st = "loaded"
        /\ jobs' = [jobs EXCEPT ![j].st = "sent", ![j].cfg = topic_map,
             ![j].sinks = apply_contract_overrides_with_storage(v, WithDefault(topic_map))]
        /\ UNCHANGED <<file, registry, config, run, outcome, changes>>

ResolveSinks(j) ==
    /\ jobs[j].st = "loaded"
    /\ jobs' = [jobs EXCEPT ![j].st = "sent", ![j].cfg = topic_map,
         ![j].sinks = apply_contract_overrides_with_storage(jobs[j].art.version, WithDefault(topic_map))]
    /\ UNCHANGED <<file, registry, config, run, outcome, changes>>

(* enforce_schema_on_batches, for the outputs whose sink has a schema.       *)
Conforms(sink, data) == sink.schema # None => data = sink.schema

(* A Python parser may name the table of an output; the native runtime never *)
(* does.                                                                     *)
TablesOf(kind, P) ==
    {f \in [Outputs -> Tables \cup {None}] :
        \A o \in Outputs : kind = "native" \/ o \notin P => f[o] = None}

Base(o, named) == IF named = None THEN o ELSE named

(* The worker runs the parser it was sent, or the binary that is in the      *)
(* plugin directory; the parser publishes some outputs, with the columns it  *)
(* likes.  An output without a sink, or that breaks its schema, fails the    *)
(* job before anything is written.                                           *)
execute_job(j) ==
    LET J == jobs[j]
        ran == IF J.kind = "native" THEN installed[J.art.version] ELSE J.art.code
        via(o) == select_sink(J.sinks, o)
        sink(o) == J.sinks[via(o)]
        table(o, named) == table_name_with_schema(Base(o, named), schema_hash(sink(o).schema))
    IN  /\ J.st = "sent"
        /\ \E P \in SUBSET DOMAIN J.art.outs :
             \E data \in [P -> Schemas], tables \in TablesOf(J.kind, P) :
               IF /\ ran # None
                  /\ \A o \in P : via(o) # None /\ Conforms(sink(o), data[o])
               THEN /\ jobs' = [jobs EXCEPT ![j].st = "written", ![j].produced = P,
                                            ![j].tables = tables]
                    /\ written' = written \cup
                         {[job |-> j, art |-> J.art, ran |-> ran, output |-> o, data |-> data[o],
                           uri |-> sink(o).uri, table |-> table(o, tables[o]), via |-> via(o),
                           contract |-> J.known[o]] : o \in P}
               ELSE jobs' = [jobs EXCEPT ![j] = Failed] /\ UNCHANGED written
        /\ UNCHANGED <<file, registry, config, run, mats, changes>>

(* The table of a key is the one of the receipt's artifact, which has one    *)
(* when the parser named it or the sink has a schema (and none for an output *)
(* whose rows were all quarantined, which is as if the parser had not named  *)
(* it); otherwise the sentinel makes the name.                               *)
RecordedTable(o, named, hash) ==
    IF named # None \/ hash # None
    THEN table_name_with_schema(Base(o, named), hash)
    ELSE table_name_with_schema(o, hash)

(* The target of output o in the sink of topic t.                            *)
Target(J, t, o, named) ==
    LET hash == schema_hash(J.sinks[t].schema)
    IN  output_target_key(o, J.sinks[t].uri, RecordedTable(o, named, hash), hash)

OwnTarget(J, o) == Target(J, select_sink(J.sinks, o), o, J.tables[o])

\* Mutant: outputs without rows are not recorded.
keys_of_produced(J) == {materialization_key(J.gen, J.art, OwnTarget(J, o)) : o \in J.produced}

(* The keys of the outputs the receipt names, and of the named sinks it does *)
(* not name (status no_data).                                                *)
MaterializedKeys(J) ==
    LET own == {OwnTarget(J, o) : o \in J.produced}
        empty == {Target(J, t, t, None) : t \in DOMAIN J.sinks \ (J.produced \cup {"*"})}
    IN  {materialization_key(J.gen, J.art, t) : t \in own \cup empty}

(* The job is completed before anything is on record.                        *)
complete_job(j) ==
    /\ jobs[j].st = "written" /\ ~Busy
    /\ jobs' = [jobs EXCEPT ![j].st = "completed"]
    /\ UNCHANGED <<file, registry, config, run, outcome, changes>>

(* The generation is the one scout_files has now.                            *)
record_materializations_for_job(j) ==
    /\ jobs[j].st = "completed"
    /\ jobs' = [jobs EXCEPT ![j].st = "recording", ![j].gen = row]
    /\ UNCHANGED <<file, registry, config, run, outcome, changes>>

(* A statement of its own; a key that is on record already stays as it is.   *)
insert_output_materialization(j) ==
    /\ jobs[j].st = "recording"
    /\ \E k \in MaterializedKeys(jobs[j]) \ mats : mats' = mats \cup {k}
    /\ UNCHANGED <<file, registry, config, run, jobs, written, changes>>

RecordingEnds(j) ==
    /\ jobs[j].st = "recording" /\ MaterializedKeys(jobs[j]) \subseteq mats
    /\ jobs' = [jobs EXCEPT ![j].st = "done"]
    /\ UNCHANGED <<file, registry, config, run, outcome, changes>>

(* A statement fails, which is only logged, or the sentinel dies: the job is *)
(* completed and nobody records the rest.                                    *)
RecordingFails(j) ==
    /\ jobs[j].st \in {"completed", "recording"}
    /\ jobs' = [jobs EXCEPT ![j].st = "unrecorded"]
    /\ UNCHANGED <<file, registry, config, run, outcome, changes>>

-----------------------------------------------------------------------------
Publish ==
    \/ \E req \in Requests : deploy_plugin(req) \/ ImportRemove(req)
    \/ ImportCopy \/ ImportManifest \/ ImportKilled \/ cmd_unpublish
    \/ \E o \in Outputs : ImportContract(o)

PipelineRun ==
    \/ load_parser_manifest \/ load_sink_configs \/ RunTargets
    \/ load_file_generation \/ enqueue_jobs

Job == \E j \in DOMAIN jobs :
    \/ load_dispatch_data(j) \/ ResolveSinks(j) \/ execute_job(j)
    \/ complete_job(j) \/ record_materializations_for_job(j)
    \/ insert_output_materialization(j) \/ RecordingEnds(j) \/ RecordingFails(j)

Next == Publish \/ PipelineRun \/ Job \/ EditTopics \/ Edit \/ Rescan

Spec == Init /\ [][Next]_vars

-----------------------------------------------------------------------------
(* Every variable has its type; an import that registers contracts has some  *)
(* left, and a parser name never has two rows with the same code.            *)
TypeOK ==
    /\ disk \in 0..changes /\ changes \in 0..MaxChanges /\ row \in 0..disk
    /\ \A i \in DOMAIN manifests :
         /\ manifests[i].req \in Requests
         /\ manifests[i].kind \in {"python", "native"}
         /\ manifests[i].status \in {"ACTIVE", "SUPERSEDED"}
         /\ \A k \in DOMAIN manifests \ {i} : manifests[k].req.code # manifests[i].req.code
    /\ contracts \in [Versions -> [Outputs -> Schemas \cup {None}]]
    /\ installed \in [Versions -> Codes \cup {None}]
    /\ topics \in TopicConfigs /\ topic_map \in TopicConfigs
    /\ importer.pc \in {"idle", "removed", "copied", "contracts"}
    /\ importer.pc = "contracts" <=> importer.left # {}
    /\ run.pc \in {"idle", "sinks", "targets", "generation", "decide", "queued", "skipped"}
    /\ Len(jobs) <= MaxJobs
    /\ \A j \in DOMAIN jobs :
         jobs[j].st \in {"queued", "loaded", "sent", "written", "completed", "recording",
                         "done", "unrecorded", "failed"}

(* Deployments and imports interleave, imports die half way and parsers are  *)
(* withdrawn and published again: the contract of an output at a version,    *)
(* once approved, is never changed or removed (deploy_plugin and             *)
(* register_schema_contracts: "Schema changed ... without version bump").    *)
ContractsNeverChange ==
    [][\A v \in Versions, o \in Outputs :
         contracts[v][o] # None => contracts'[v][o] = contracts[v][o]]_vars

(* An output written through a sink of its own name has the columns of the   *)
(* contract its version had when the job was dispatched, whatever was        *)
(* deployed, imported or withdrawn since (attach_contract_override,          *)
(* enforce_schema_on_batches).                                               *)
NamedSinksAreChecked ==
    \A w \in written : w.via = w.output /\ w.contract # None => w.data = w.contract

(* A run skips the file only if, for every target it has, a job of the same  *)
(* artifact was completed, and wrote to that table of that sink what it      *)
(* produced for that output, with the columns the run's contract asks for    *)
(* (enqueue_jobs).                                                           *)
SkippedWasProcessed ==
    run.pc = "skipped" => \A t \in run.targets : \E j \in DOMAIN jobs :
        /\ jobs[j].st \in {"recording", "done", "unrecorded"}
        /\ jobs[j].art = run.art /\ jobs[j].gen = run.gen
        /\ t.output \in jobs[j].produced =>
             \E w \in written :
                /\ w.job = j /\ w.output = t.output /\ w.uri = t.uri /\ w.table = t.table
                /\ t.hash # None => t.hash = schema_hash(w.data)

(* A native parser's job runs the binary of the bundle that was registered,  *)
(* even if earlier imports of the version died before they registered theirs *)
(* -- unless the version was imported again once it was installed, which     *)
(* replaces the binary and is refused only then (cmd_import).                *)
NativeRunsItsBundle ==
    \A w \in written : w.art.version \notin reimported => w.ran = w.art.code

(* The run's file is up to date by job J: a job of the same artifact, with   *)
(* the same sink configuration, concluded for the same generation of the     *)
(* file and put on record, every declared output having a sink of its own,   *)
(* with the contract the run saw.                                            *)
UpToDateBy(J) ==
    /\ J.st = "done" /\ J.art = run.art /\ J.cfg = run.cfg /\ J.gen = run.gen
    /\ DOMAIN J.art.outs \subseteq DOMAIN J.sinks
    /\ \A t \in DOMAIN J.sinks : t # "*" /\ J.sinks[t].schema = run.known[t]

UpToDate == \E j \in DOMAIN jobs : UpToDateBy(jobs[j])

NamesNoTable(J) == J.tables = NoTables

Enqueues == run.pc = "decide" /\ run'.pc = "queued"

(* With a sink configured for every output by name, and a parser that leaves *)
(* the names of its tables to the worker, the keys of the pipeline and of    *)
(* the sentinel agree, the tables the worker reports included: a file that   *)
(* is up to date is not queued again, even if some outputs had no rows.      *)
(* When the parser names a table they do not: the pipeline makes the table   *)
(* of a key from the topic.                                                  *)
NamedUpToDateIsSkipped ==
    [][Enqueues /\ "*" \notin DOMAIN run.sinks =>
         \A j \in DOMAIN jobs : UpToDateBy(jobs[j]) => ~NamesNoTable(jobs[j])]_vars

(* "Check materializations -> skip already-processed": a file that is up to  *)
(* date is never queued again, whatever sinks are configured.                *)
UpToDateIsSkipped == [][Enqueues => ~UpToDate]_vars
=============================================================================
