------------------------- MODULE MaterializeProofs -------------------------
(***************************************************************************)
(* Theorems about Materialize, for any outputs, schemas, versions,         *)
(* publications, sink configurations and bounds.                           *)
(***************************************************************************)
EXTENDS Materialize, WellFoundedInduction, TLAPS

ContractSet == [Outputs -> Schemas \cup {None}]

SinkSet == [uri : Uris \cup {"default"}, schema : Schemas \cup {None}]

SinkMaps == UNION {[T -> SinkSet] : T \in SUBSET (Outputs \cup {"*"})}

RowSet == [req : Requests, kind : {"python", "native"}, status : {"ACTIVE", "SUPERSEDED"}]

ImporterSet == [pc : {"idle", "removed", "copied", "contracts"}, req : Requests \cup {None},
                left : SUBSET Outputs]

JobStates == {"queued", "loaded", "sent", "written", "completed", "recording", "done",
              "unrecorded", "failed"}

JobSet == [st : JobStates,
           art : Requests \cup {None}, kind : {"python", "native", None},
           known : ContractSet \cup {None}, cfg : TopicConfigs \cup {None},
           sinks : SinkMaps \cup {None}, produced : SUBSET Outputs,
           tables : [Outputs -> Tables \cup {None}], gen : Nat \cup {None}]

RunFields == {"pc", "art", "known", "cfg", "sinks", "targets", "gen"}

RunStates == {"idle", "sinks", "targets", "generation", "decide", "queued", "skipped"}

(* The job's conclusion, but for the keys.                                   *)
Concluding(j) ==
    complete_job(j) \/ record_materializations_for_job(j) \/ RecordingEnds(j) \/ RecordingFails(j)

JobStep(j) ==
    \/ load_dispatch_data(j) \/ ResolveSinks(j) \/ execute_job(j)
    \/ Concluding(j) \/ insert_output_materialization(j)

-----------------------------------------------------------------------------
(* The inductive invariant, part by part. *)

RegistryTypes ==
    /\ manifests \in Seq(RowSet)
    /\ contracts \in [Versions -> ContractSet]
    /\ installed \in [Versions -> Codes \cup {None}]
    /\ importer \in ImporterSet
    /\ importer.pc # "idle" => importer.req \in Requests
    /\ importer.left # {} => importer.left \subseteq DOMAIN importer.req.outs
    /\ importer.pc = "contracts" <=> importer.left # {}

OneRowPerCode ==
    \A i, k \in DOMAIN manifests : i # k => manifests[i].req.code # manifests[k].req.code

OneNativeRowPerVersion ==
    \A i, k \in DOMAIN manifests :
       /\ i # k
       /\ manifests[i].kind = "native" /\ manifests[k].kind = "native"
       => manifests[i].req.version # manifests[k].req.version

OtherTypes ==
    /\ changes \in 0..MaxChanges /\ disk \in 0..changes /\ row \in 0..disk
    /\ topics \in TopicConfigs /\ topic_map \in TopicConfigs
    /\ DOMAIN run = RunFields /\ run.pc \in RunStates
    /\ jobs \in Seq(JobSet) /\ Len(jobs) <= MaxJobs

(* A dispatched job has its artifact and the contracts it was dispatched     *)
(* under, which are still there.                                             *)
Dispatched(J) ==
    J.st \in {"loaded", "sent", "written", "completed", "recording", "done", "unrecorded"}

Sent(J) == J.st \in {"sent", "written", "completed", "recording", "done", "unrecorded"}

Wrote(J) == J.st \in {"written", "completed", "recording", "done", "unrecorded"}

(* The keys of such a job may be on record.                                  *)
Recorder(J) == J.st \in {"recording", "done", "unrecorded"}

AgreesWith(J, cs) ==
    /\ Dispatched(J) => /\ J.art \in Requests /\ J.known \in ContractSet
                        /\ J.kind \in {"python", "native"}
                        /\ \A o \in Outputs : J.known[o] # None => cs[J.art.version][o] = J.known[o]
    /\ Sent(J) =>
         /\ J.sinks \in SinkMaps
         /\ \A o \in Outputs \cap DOMAIN J.sinks : J.known[o] # None
              => J.sinks[o].schema = J.known[o]

JobsAgree == \A j \in DOMAIN jobs : AgreesWith(jobs[j], contracts)

(* The table of output o in its sink.                                        *)
TableOf(J, o) ==
    table_name_with_schema(Base(o, J.tables[o]),
                           schema_hash(J.sinks[select_sink(J.sinks, o)].schema))

(* What a finished job produced is in its sinks (ws is what was written).    *)
WroteOutputs(j, J, ws) ==
    Wrote(J) => \A o \in J.produced :
       /\ select_sink(J.sinks, o) \in DOMAIN J.sinks
       /\ \E w \in ws :
            /\ w.job = j /\ w.output = o /\ w.table = TableOf(J, o)
            /\ w.uri = J.sinks[select_sink(J.sinks, o)].uri
            /\ LET s == J.sinks[select_sink(J.sinks, o)].schema IN s # None => w.data = s

OutputsWritten == \A j \in DOMAIN jobs : WroteOutputs(j, jobs[j], written)

(* A target is settled by a job that was completed.                          *)
Settles(j, J, ws, art, gen, t) ==
    /\ Recorder(J) /\ J.art = art /\ J.gen = gen
    /\ t.output \in J.produced =>
         \E w \in ws : /\ w.job = j /\ w.output = t.output /\ w.uri = t.uri /\ w.table = t.table
                       /\ t.hash # None => t.hash = schema_hash(w.data)

Settled(art, gen, t) == \E j \in DOMAIN jobs : Settles(j, jobs[j], written, art, gen, t)

(* A key on record stands for a job that was completed.                      *)
KeysStand == \A m \in mats : Settled(m.art, m.gen, m.target)

(* The directory of a native row holds its bundle, unless the version was    *)
(* imported again; an import that copied its bundle finds it there.          *)
InstalledBundles ==
    /\ \A i \in DOMAIN manifests :
         /\ manifests[i].kind = "native" /\ manifests[i].req.version \notin reimported
         => installed[manifests[i].req.version] = manifests[i].req.code
    /\ importer.pc \in {"copied", "contracts"} =>
         installed[importer.req.version] = importer.req.code
    /\ importer.pc \in {"removed", "copied"} =>
         \A i \in DOMAIN manifests :
            /\ manifests[i].kind = "native"
            /\ manifests[i].req.version = importer.req.version
            => importer.req.version \in reimported

(* A native job's artifact has a row.                                        *)
JobsAreRegistered ==
    \A j \in DOMAIN jobs : Dispatched(jobs[j]) /\ jobs[j].kind = "native" =>
       \E i \in DOMAIN manifests : manifests[i].kind = "native" /\ manifests[i].req = jobs[j].art

(* A resolution that had no default sink to expand has the configured sinks. *)
SinksOf(sinks, cfg) ==
    "*" \notin DOMAIN cfg => /\ DOMAIN sinks = DOMAIN cfg
                            /\ \A t \in DOMAIN cfg : sinks[t].uri = cfg[t]

(* The key of the sink of topic t, as the pipeline computes it.              *)
NamedKey(sinks, t) ==
    LET hash == schema_hash(sinks[t].schema)
    IN  output_target_key(t, sinks[t].uri, table_name_with_schema(t, hash), hash)

KeyOf(J, t) == materialization_key(J.gen, J.art, NamedKey(J.sinks, t))

(* A job has the sinks of its configuration; done, its keys are on record.   *)
Complete(J, keys) ==
    /\ Sent(J) => SinksOf(J.sinks, WithDefault(J.cfg))
    /\ J.st = "done" => MaterializedKeys(J) \subseteq keys

KeysComplete == \A j \in DOMAIN jobs : Complete(jobs[j], mats)

(* A run has the sinks of its configuration, with the contracts it saw; its  *)
(* targets are theirs when they are named.                                   *)
RunSinks(cfg, known) ==
    [t \in DOMAIN cfg |-> [uri |-> cfg[t], schema |-> IF is_default_sink(t) THEN None ELSE known[t]]]

NamedTargets(sinks) == {NamedKey(sinks, t) : t \in DOMAIN sinks}

RunAgrees ==
    /\ run.pc \in {"targets", "generation", "decide"} =>
         run.sinks = RunSinks(WithDefault(run.cfg), run.known)
    /\ run.pc \in {"generation", "decide"} /\ "*" \notin DOMAIN run.sinks =>
         run.targets = NamedTargets(run.sinks)

Inv == /\ RegistryTypes /\ OneRowPerCode /\ OneNativeRowPerVersion /\ OtherTypes
       /\ JobsAgree /\ OutputsWritten /\ KeysStand
       /\ InstalledBundles /\ JobsAreRegistered
       /\ KeysComplete /\ RunAgrees
       /\ NamedSinksAreChecked /\ SkippedWasProcessed /\ NativeRunsItsBundle

-----------------------------------------------------------------------------
(* Facts about the operators. *)

(* A non-empty set of positions of a sequence has a last one.                *)
LEMMA NewestIn ==
    ASSUME NEW n \in Nat, NEW is \in SUBSET (1..n), is # {}
    PROVE  Newest(is) \in is
<1> DEFINE T == {n - i : i \in is}
<1>1. T \subseteq Nat /\ T # {}
  <2>1. PICK i0 \in is : TRUE
    OBVIOUS
  <2>2. n - i0 \in T
    OBVIOUS
  <2>3. \A i \in is : n - i \in Nat
    OBVIOUS
  <2> QED BY <2>2, <2>3
<1>2. \E x \in T : \A y \in T : ~(<<y, x>> \in OpToRel(<, Nat))
  <2> HIDE DEF T
  <2> QED BY <1>1, NatLessThanWellFounded, WFMin
<1>3. PICK x \in T : \A y \in T : ~(<<y, x>> \in OpToRel(<, Nat))
  BY <1>2
<1>4. \A y \in T : ~(y < x)
  BY <1>1, <1>3 DEF OpToRel
<1>5. PICK i \in is : x = n - i
  BY <1>3
<1>6. \A k \in is : k <= i
  BY <1>4, <1>5
<1> QED BY <1>6 DEF Newest

(* The newest active row is a row of the registry.                           *)
LEMMA NewestActive ==
    ASSUME manifests \in Seq(RowSet), NEW is \in SUBSET Active(manifests), is # {}
    PROVE  /\ Newest(is) \in is
           /\ Newest(is) \in DOMAIN manifests
           /\ manifests[Newest(is)] \in RowSet
<1>1. Len(manifests) \in Nat /\ Active(manifests) \subseteq 1..Len(manifests)
  BY DEF Active
<1>2. Newest(is) \in is
  BY <1>1, NewestIn
<1> QED BY <1>1, <1>2 DEF Active

(* The declared outputs of a version are output names.                       *)
LEMMA ListedAreOutputs ==
    ASSUME manifests \in Seq(RowSet), NEW v
    PROVE  DOMAIN list_for_plugin(v) \subseteq Outputs
<1> DEFINE is == {i \in Active(manifests) : manifests[i].req.version = v}
<1>1. CASE is = {}
  <2>1. list_for_plugin(v) = <<>>
    BY <1>1 DEF list_for_plugin
  <2> QED BY <2>1
<1>2. CASE is # {}
  <2>1. manifests[Newest(is)] \in RowSet
    <3> HIDE DEF is
    <3>1. is \in SUBSET Active(manifests)
      BY DEF is
    <3> QED BY <1>2, <3>1, NewestActive
  <2>2. list_for_plugin(v) = manifests[Newest(is)].req.outs
    BY <1>2 DEF list_for_plugin
  <2>3. manifests[Newest(is)].req \in Requests
    BY <2>1 DEF RowSet
  <2> QED BY <2>2, <2>3, MaterializeAssumption
<1> QED BY <1>1, <1>2

(* A sink the sentinel resolves has the contract of its own topic.           *)
LEMMA ResolvedSinks ==
    ASSUME manifests \in Seq(RowSet), contracts \in [Versions -> ContractSet],
           NEW v \in Versions, NEW cfg \in TopicConfigs
    PROVE  LET sinks == apply_contract_overrides_with_storage(v, WithDefault(cfg))
           IN  /\ sinks \in SinkMaps
               /\ \A o \in Outputs \cap DOMAIN sinks : sinks[o].schema = contracts[v][o]
<1> DEFINE c == WithDefault(cfg)
           expected == DOMAIN list_for_plugin(v)
           resolved == IF "*" \in DOMAIN c /\ expected # {}
                       THEN (DOMAIN c \ {"*"}) \cup expected ELSE DOMAIN c
           uri(t) == IF t \in DOMAIN c THEN c[t] ELSE c["*"]
           sinks == [t \in resolved |-> attach_contract_override(v, t, uri(t))]
<1>1. sinks = apply_contract_overrides_with_storage(v, WithDefault(cfg))
  BY DEF apply_contract_overrides_with_storage
<1>2. c \in [DOMAIN c -> Uris \cup {"default"}] /\ DOMAIN c \subseteq Outputs \cup {"*"}
  BY MaterializeAssumption DEF WithDefault
<1>3. expected \subseteq Outputs
  BY ListedAreOutputs
<1> HIDE DEF c, expected
<1>4. resolved \in SUBSET (Outputs \cup {"*"}) /\ \A t \in resolved : uri(t) \in Uris \cup {"default"}
  BY <1>2, <1>3
<1> HIDE DEF resolved, uri
<1>5. ASSUME NEW t \in resolved
      PROVE  attach_contract_override(v, t, uri(t)) \in SinkSet
  BY <1>4, <1>5 DEF attach_contract_override, is_default_sink, SinkSet, ContractSet
<1>6. sinks \in [resolved -> SinkSet]
  BY <1>5
<1>7. sinks \in SinkMaps
  BY <1>4, <1>6 DEF SinkMaps
<1>8. ASSUME NEW o \in Outputs \cap DOMAIN sinks
      PROVE  sinks[o].schema = contracts[v][o]
  BY MaterializeAssumption DEF attach_contract_override, is_default_sink
<1> HIDE DEF sinks
<1> QED BY <1>1, <1>7, <1>8

(* Without a default sink the sentinel resolves the configured sinks.        *)
LEMMA ResolvedNames ==
    ASSUME NEW v, NEW cfg
    PROVE  SinksOf(apply_contract_overrides_with_storage(v, cfg), cfg)
<1> SUFFICES ASSUME "*" \notin DOMAIN cfg
             PROVE  LET sinks == apply_contract_overrides_with_storage(v, cfg)
                    IN  DOMAIN sinks = DOMAIN cfg /\ \A t \in DOMAIN cfg : sinks[t].uri = cfg[t]
  BY DEF SinksOf
<1> DEFINE sinks == [t \in DOMAIN cfg |-> attach_contract_override(v, t,
                                             IF t \in DOMAIN cfg THEN cfg[t] ELSE cfg["*"])]
<1>1. apply_contract_overrides_with_storage(v, cfg) = sinks
  BY DEF apply_contract_overrides_with_storage
<1>2. \A t \in DOMAIN cfg : sinks[t].uri = cfg[t]
  BY DEF attach_contract_override
<1> QED BY <1>1, <1>2

(* The sink an output gets is one of the sinks, or None.                     *)
LEMMA SelectedSink ==
    ASSUME NEW sinks, NEW o
    PROVE  select_sink(sinks, o) \in DOMAIN sinks \cup {None}
BY DEF select_sink

-----------------------------------------------------------------------------
(* The registry. *)

ContractsKept ==
    \A v \in Versions, o \in Outputs : contracts[v][o] # None => contracts'[v][o] = contracts[v][o]

(* Rows are added, and their status changes; nothing else does.              *)
RowsKept ==
    /\ DOMAIN manifests \subseteq DOMAIN manifests'
    /\ \A i \in DOMAIN manifests : /\ manifests'[i].req = manifests[i].req
                                   /\ manifests'[i].kind = manifests[i].kind

(* A row of a parser is added to the registry.                               *)
LEMMA AddRow ==
    ASSUME manifests \in Seq(RowSet), NEW req \in Requests, NEW kind \in {"python", "native"},
           Unique(req, kind), OneRowPerCode, OneNativeRowPerVersion,
           manifests' = Append(manifests, Row(req, kind))
    PROVE  /\ manifests' \in Seq(RowSet) /\ RowsKept /\ OneRowPerCode' /\ OneNativeRowPerVersion'
           /\ DOMAIN manifests' = DOMAIN manifests \cup {Len(manifests) + 1}
           /\ manifests'[Len(manifests) + 1] = Row(req, kind)
<1>1. Row(req, kind) \in RowSet /\ Row(req, kind).req = req /\ Row(req, kind).kind = kind
  BY DEF Row, RowSet
<1>2. /\ Len(manifests) \in Nat /\ DOMAIN manifests = 1..Len(manifests)
      /\ manifests' \in Seq(RowSet) /\ DOMAIN manifests' = 1..(Len(manifests) + 1)
      /\ \A i \in DOMAIN manifests : manifests'[i] = manifests[i]
      /\ manifests'[Len(manifests) + 1] = Row(req, kind)
  BY <1>1
<1>3. OneRowPerCode'
  BY <1>1, <1>2 DEF OneRowPerCode, Unique
<1>4. OneNativeRowPerVersion'
  BY <1>1, <1>2 DEF OneNativeRowPerVersion, Unique
<1> QED BY <1>2, <1>3, <1>4 DEF RowsKept

(* The status of rows changes.                                               *)
LEMMA ChangeStatus ==
    ASSUME NEW rows \in Seq(RowSet), NEW S \in SUBSET DOMAIN rows
    PROVE  LET f == [i \in DOMAIN rows |-> IF i \in S THEN [rows[i] EXCEPT !.status = "SUPERSEDED"]
                                           ELSE rows[i]]
           IN  /\ f \in Seq(RowSet) /\ DOMAIN f = DOMAIN rows
               /\ \A i \in DOMAIN rows : f[i].req = rows[i].req /\ f[i].kind = rows[i].kind
<1> DEFINE g(i) == IF i \in S THEN [rows[i] EXCEPT !.status = "SUPERSEDED"] ELSE rows[i]
           f == [i \in DOMAIN rows |-> g(i)]
<1>1. /\ Len(rows) \in Nat /\ DOMAIN rows = 1..Len(rows)
      /\ \A i \in DOMAIN rows : rows[i] \in RowSet
  OBVIOUS
<1>2. ASSUME NEW i \in DOMAIN rows
      PROVE  g(i) \in RowSet /\ g(i).req = rows[i].req /\ g(i).kind = rows[i].kind
  BY <1>1, <1>2 DEF RowSet
<1> HIDE DEF g
<1>3. f \in [1..Len(rows) -> RowSet]
  BY <1>1, <1>2
<1>4. \A i \in DOMAIN rows : f[i] = g(i)
  OBVIOUS
<1> HIDE DEF f
<1>5. f \in Seq(RowSet) /\ DOMAIN f = DOMAIN rows
      /\ \A i \in DOMAIN rows : f[i].req = rows[i].req /\ f[i].kind = rows[i].kind
  BY <1>1, <1>2, <1>3, <1>4
<1> QED BY <1>5 DEF f, g

(* Deactivation of the other versions.                                       *)
LEMMA Superseding ==
    ASSUME NEW rows \in Seq(RowSet), NEW v
    PROVE  LET f == superseding(rows, v)
           IN  /\ f \in Seq(RowSet) /\ DOMAIN f = DOMAIN rows
               /\ \A i \in DOMAIN rows : f[i].req = rows[i].req /\ f[i].kind = rows[i].kind
<1> DEFINE S == {i \in DOMAIN rows : rows[i].status = "ACTIVE" /\ rows[i].req.version # v}
           f == [i \in DOMAIN rows |-> IF i \in S THEN [rows[i] EXCEPT !.status = "SUPERSEDED"]
                                       ELSE rows[i]]
<1>1. superseding(rows, v) = f
  BY DEF superseding
<1>2. S \in SUBSET DOMAIN rows
  OBVIOUS
<1> HIDE DEF S
<1>3. f \in Seq(RowSet) /\ DOMAIN f = DOMAIN rows
      /\ \A i \in DOMAIN rows : f[i].req = rows[i].req /\ f[i].kind = rows[i].kind
  BY <1>2, ChangeStatus
<1> QED BY <1>1, <1>3

(* Changing the status of rows keeps the uniqueness constraints.             *)
LEMMA KeepRows ==
    ASSUME OneRowPerCode, OneNativeRowPerVersion, RowsKept, DOMAIN manifests' = DOMAIN manifests
    PROVE  OneRowPerCode' /\ OneNativeRowPerVersion'
BY DEF OneRowPerCode, OneNativeRowPerVersion, RowsKept

RegistryInv == RegistryTypes /\ OneRowPerCode /\ OneNativeRowPerVersion

RegistryStep == RegistryInv' /\ ContractsKept /\ RowsKept

LEMMA DeployStep ==
    ASSUME RegistryInv, NEW req \in Requests, deploy_plugin(req)
    PROVE  RegistryStep
<1> DEFINE rows == Append(manifests, Row(req, "python"))
<1>1. /\ Len(manifests) \in Nat /\ DOMAIN manifests = 1..Len(manifests)
      /\ \A i \in DOMAIN manifests : manifests[i] \in RowSet
  BY DEF RegistryInv, RegistryTypes
<1>2. Row(req, "python") \in RowSet /\ Row(req, "python").req = req
      /\ Row(req, "python").kind = "python"
  BY DEF Row, RowSet
<1>3. /\ rows \in Seq(RowSet) /\ DOMAIN rows = 1..(Len(manifests) + 1)
      /\ \A i \in DOMAIN manifests : rows[i] = manifests[i]
      /\ rows[Len(manifests) + 1] = Row(req, "python")
  BY <1>1, <1>2 DEF RegistryInv, RegistryTypes
<1> HIDE DEF rows
<1>4. manifests' = superseding(rows, req.version)
  BY DEF deploy_plugin, rows
<1>5. /\ manifests' \in Seq(RowSet) /\ DOMAIN manifests' = DOMAIN rows
      /\ \A i \in DOMAIN rows : manifests'[i].req = rows[i].req /\ manifests'[i].kind = rows[i].kind
  BY <1>3, <1>4, Superseding
<1>6. RowsKept
  BY <1>1, <1>3, <1>5 DEF RowsKept
<1>7. OneRowPerCode'
  BY <1>1, <1>2, <1>3, <1>5 DEF OneRowPerCode, RegistryInv, Unique, deploy_plugin
<1>8. OneNativeRowPerVersion'
  BY <1>1, <1>2, <1>3, <1>5 DEF OneNativeRowPerVersion, RegistryInv
<1>9. req.version \in Versions /\ req.outs \in [DOMAIN req.outs -> Schemas]
  BY MaterializeAssumption
<1>10. contracts' \in [Versions -> ContractSet] /\ ContractsKept
  BY <1>9 DEF RegistryInv, RegistryTypes, ContractSet, ContractsKept, deploy_plugin, save_contract,
              NoContract
<1>11. RegistryTypes'
  BY <1>5, <1>10 DEF RegistryInv, RegistryTypes, deploy_plugin
<1> QED BY <1>6, <1>7, <1>8, <1>10, <1>11 DEF RegistryStep, RegistryInv

LEMMA ImportStep ==
    ASSUME RegistryInv,
           (\E req \in Requests : ImportRemove(req)) \/ ImportCopy \/ ImportManifest \/ ImportKilled
    PROVE  RegistryStep
<1> USE DEF RegistryInv
<1>1. ASSUME NEW req \in Requests, ImportRemove(req)
      PROVE  RegistryStep
  <2>1. req.version \in Versions
    BY MaterializeAssumption
  <2>2. RegistryTypes'
    BY <1>1, <2>1 DEF ImportRemove, RegistryTypes, ImporterSet
  <2> QED BY <1>1, <2>2, KeepRows DEF ImportRemove, RegistryStep, ContractsKept, RowsKept
<1>2. CASE ImportCopy
  <2>1. importer.req \in Requests
    BY <1>2 DEF ImportCopy, RegistryTypes
  <2>2. importer.req.version \in Versions /\ importer.req.code \in Codes
    BY <2>1, MaterializeAssumption
  <2>3. RegistryTypes'
    BY <1>2, <2>2 DEF ImportCopy, RegistryTypes, ImporterSet
  <2> QED BY <1>2, <2>3, KeepRows DEF ImportCopy, RegistryStep, ContractsKept, RowsKept
<1>3. CASE ImportManifest
  <2>1. importer.req \in Requests
    BY <1>3 DEF ImportManifest, RegistryTypes
  <2>2. DOMAIN importer.req.outs \subseteq Outputs /\ DOMAIN importer.req.outs # {}
    BY <2>1, MaterializeAssumption
  <2>3. CASE Unique(importer.req, "native")
    <3>1. manifests' \in Seq(RowSet) /\ RowsKept /\ OneRowPerCode' /\ OneNativeRowPerVersion'
      BY <1>3, <2>1, <2>3, AddRow DEF ImportManifest, RegistryTypes
    <3>2. RegistryTypes'
      BY ZenonT(60), <1>3, <2>1, <2>2, <2>3, <3>1 DEF ImportManifest, RegistryTypes, ImporterSet
    <3> QED BY <1>3, <3>1, <3>2 DEF ImportManifest, RegistryStep, ContractsKept
  <2>4. CASE ~Unique(importer.req, "native")
    <3>1. RegistryTypes'
      BY <1>3, <2>4 DEF ImportManifest, RegistryTypes, ImporterSet, Idle
    <3> QED BY <1>3, <2>4, <3>1, KeepRows DEF ImportManifest, RegistryStep, ContractsKept, RowsKept
  <2> QED BY <2>3, <2>4
<1>4. CASE ImportKilled
  <2>1. RegistryTypes'
    BY <1>4 DEF ImportKilled, RegistryTypes, ImporterSet, Idle
  <2> QED BY <1>4, <2>1, KeepRows DEF ImportKilled, RegistryStep, ContractsKept, RowsKept
<1> QED BY <1>1, <1>2, <1>3, <1>4

LEMMA ContractStep ==
    ASSUME RegistryInv, NEW o \in Outputs, ImportContract(o)
    PROVE  RegistryStep
<1> USE DEF RegistryInv
<1> DEFINE v == importer.req.version
<1>1. importer.req \in Requests /\ o \in DOMAIN importer.req.outs
  BY DEF ImportContract, RegistryTypes
<1>2. v \in Versions /\ importer.req.outs[o] \in Schemas
  BY <1>1, MaterializeAssumption
<1>3. contracts' \in [Versions -> ContractSet] /\ ContractsKept
  <2>1. CASE NoContract(v, {o})
    <3>1. contracts' = [contracts EXCEPT ![v] = [contracts[v] EXCEPT ![o] = importer.req.outs[o]]]
      BY <2>1 DEF ImportContract
    <3>2. contracts[v] \in ContractSet /\ contracts[v][o] = None
      BY <1>2, <2>1 DEF RegistryTypes, NoContract
    <3>3. [contracts[v] EXCEPT ![o] = importer.req.outs[o]] \in ContractSet
      BY <1>2, <3>2 DEF ContractSet
    <3>4. contracts' \in [Versions -> ContractSet]
      BY <1>2, <3>1, <3>3 DEF RegistryTypes
    <3>5. ASSUME NEW w \in Versions, NEW p \in Outputs, contracts[w][p] # None
          PROVE  contracts'[w][p] = contracts[w][p]
      <4>1. CASE w = v
        <5>1. contracts'[w][p] = [contracts[v] EXCEPT ![o] = importer.req.outs[o]][p]
          BY <1>2, <3>1, <4>1 DEF RegistryTypes
        <5>2. p # o
          BY <3>2, <3>5, <4>1
        <5> QED BY <3>2, <4>1, <5>1, <5>2 DEF ContractSet
      <4>2. CASE w # v
        BY <3>1, <4>2 DEF RegistryTypes
      <4> QED BY <4>1, <4>2
    <3> QED BY <3>4, <3>5 DEF ContractsKept
  <2>2. CASE ~NoContract(v, {o})
    BY <2>2 DEF ImportContract, RegistryTypes, ContractsKept
  <2> QED BY <2>1, <2>2
<1>4. importer' = Idle \/ /\ importer' = [importer EXCEPT !.left = importer.left \ {o}]
                          /\ importer.left \ {o} # {}
  BY DEF ImportContract
<1>5. RegistryTypes'
  BY <1>3, <1>4 DEF ImportContract, RegistryTypes, ImporterSet, Idle
<1> QED BY <1>3, <1>5, KeepRows DEF ImportContract, RegistryStep, RowsKept

LEMMA UnpublishStep ==
    ASSUME RegistryInv, cmd_unpublish
    PROVE  RegistryStep
<1> USE DEF RegistryInv
<1> DEFINE f == [i \in DOMAIN manifests |-> IF i \in DOMAIN manifests
                                            THEN [manifests[i] EXCEPT !.status = "SUPERSEDED"]
                                            ELSE manifests[i]]
<1>1. manifests' = f
  BY DEF cmd_unpublish
<1>2. manifests \in Seq(RowSet)
  BY DEF RegistryTypes
<1>3. /\ f \in Seq(RowSet) /\ DOMAIN f = DOMAIN manifests
      /\ \A i \in DOMAIN manifests : f[i].req = manifests[i].req /\ f[i].kind = manifests[i].kind
  BY <1>2, ChangeStatus
<1> HIDE DEF f
<1>4. RegistryTypes'
  BY <1>1, <1>3 DEF cmd_unpublish, RegistryTypes
<1>5. RowsKept /\ DOMAIN manifests' = DOMAIN manifests
  BY <1>1, <1>3 DEF RowsKept
<1> QED BY <1>4, <1>5, KeepRows DEF cmd_unpublish, RegistryStep, ContractsKept

LEMMA RegistryUnchanged ==
    ASSUME RegistryInv, UNCHANGED <<manifests, contracts, installed, importer>>
    PROVE  RegistryStep
BY DEF RegistryInv, RegistryStep, RegistryTypes, OneRowPerCode, OneNativeRowPerVersion,
       ContractsKept, RowsKept

(* Every step keeps the registry's types and constraints, its contracts and  *)
(* its rows.                                                                 *)
LEMMA RegistryKept ==
    ASSUME RegistryInv, [Next]_vars
    PROVE  RegistryStep
<1>1. CASE Publish
  BY <1>1, DeployStep, ImportStep, ContractStep, UnpublishStep DEF Publish
<1>2. CASE PipelineRun \/ Job \/ EditTopics \/ Edit \/ Rescan \/ UNCHANGED vars
  <2>1. UNCHANGED <<manifests, contracts, installed, importer>>
    BY <1>2 DEF PipelineRun, Job, EditTopics, Edit, Rescan, vars, registry,
         load_parser_manifest, load_sink_configs, RunTargets, load_file_generation, enqueue_jobs,
         load_dispatch_data, ResolveSinks, execute_job, JobStep, Concluding,
         complete_job, record_materializations_for_job, insert_output_materialization,
         RecordingEnds, RecordingFails
  <2> QED BY <2>1, RegistryUnchanged
<1> QED BY <1>1, <1>2 DEF Next

-----------------------------------------------------------------------------
(* The jobs. *)

(* One job changes.                                                          *)
JobChange(j) ==
    /\ jobs' \in Seq(JobSet) /\ Len(jobs') = Len(jobs) /\ DOMAIN jobs' = DOMAIN jobs
    /\ \A i \in DOMAIN jobs : i # j => jobs'[i] = jobs[i]

LEMMA OneJob ==
    ASSUME jobs \in Seq(JobSet), NEW j \in DOMAIN jobs, NEW J \in JobSet,
           jobs' = [jobs EXCEPT ![j] = J]
    PROVE  JobChange(j) /\ jobs'[j] = J
<1>1. Len(jobs) \in Nat /\ DOMAIN jobs = 1..Len(jobs) /\ \A i \in DOMAIN jobs : jobs[i] \in JobSet
  OBVIOUS
<1>2. jobs' \in [1..Len(jobs) -> JobSet] /\ jobs'[j] = J
      /\ \A i \in DOMAIN jobs : i # j => jobs'[i] = jobs[i]
  BY <1>1
<1>3. jobs' \in Seq(JobSet) /\ Len(jobs') = Len(jobs) /\ DOMAIN jobs' = DOMAIN jobs
  BY <1>1, <1>2
<1> QED BY <1>2, <1>3 DEF JobChange

LEMMA NewJobs == Queued \in JobSet /\ Failed \in JobSet /\ Failed.st = "failed" /\ Queued.st = "queued"
<1>1. NoTables \in [Outputs -> Tables \cup {None}]
  BY DEF NoTables
<1> QED BY <1>1 DEF Queued, Failed, JobSet, JobStates

(* What load_dispatch_data does to the job.                                  *)
Loaded(j) ==
    LET J == jobs'[j] IN
    \/ J = Failed
    \/ /\ J.st = "loaded"
       /\ J.art \in Requests /\ J.kind \in {"python", "native"}
       /\ J.known \in ContractSet /\ J.known = contracts[J.art.version]
       /\ \E i \in DOMAIN manifests : manifests[i].req = J.art /\ manifests[i].kind = J.kind

LEMMA LoadStep ==
    ASSUME RegistryInv, OtherTypes, NEW j \in DOMAIN jobs, load_dispatch_data(j)
    PROVE  JobChange(j) /\ Loaded(j)
<1>0. jobs \in Seq(JobSet) /\ jobs[j] \in JobSet
  BY DEF OtherTypes
<1>1. CASE Active(manifests) = {}
  <2>1. jobs' = [jobs EXCEPT ![j] = Failed]
    BY <1>1 DEF load_dispatch_data
  <2> QED BY <1>0, <2>1, OneJob, NewJobs DEF Loaded
<1>2. CASE Active(manifests) # {}
  <2> DEFINE n == Newest(Active(manifests))
             m == manifests[n]
             J == [jobs[j] EXCEPT !.st = "loaded", !.art = m.req, !.kind = m.kind,
                                  !.known = contracts[m.req.version]]
  <2>1. n \in DOMAIN manifests /\ m \in RowSet
    <3>1. manifests \in Seq(RowSet) /\ Active(manifests) \in SUBSET Active(manifests)
      BY DEF RegistryInv, RegistryTypes
    <3> QED BY <1>2, <3>1, NewestActive
  <2>2. jobs' = [jobs EXCEPT ![j] = J]
    BY <1>2 DEF load_dispatch_data
  <2> HIDE DEF n
  <2>3. m.req \in Requests /\ m.kind \in {"python", "native"}
    BY <2>1 DEF RowSet
  <2>4. contracts[m.req.version] \in ContractSet
    BY <2>3, MaterializeAssumption DEF RegistryInv, RegistryTypes
  <2> HIDE DEF m
  <2>5. /\ J \in JobSet /\ J.st = "loaded" /\ J.art = m.req /\ J.kind = m.kind
        /\ J.known = contracts[m.req.version]
    BY <1>0, <2>3, <2>4 DEF JobSet, JobStates
  <2> HIDE DEF J
  <2>6. JobChange(j) /\ jobs'[j] = J
    BY <1>0, <2>2, <2>5, OneJob
  <2>7. n \in DOMAIN manifests /\ manifests[n].req = J.art /\ manifests[n].kind = J.kind
    BY <2>1, <2>5 DEF m
  <2> QED BY <2>3, <2>4, <2>5, <2>6, <2>7 DEF Loaded
<1> QED BY <1>1, <1>2

(* What ResolveSinks does to the job.                                        *)
Resolved(j) ==
    LET J == jobs'[j] IN
    /\ J.st = "sent" /\ J.art = jobs[j].art /\ J.kind = jobs[j].kind /\ J.known = jobs[j].known
    /\ J.sinks \in SinkMaps
    /\ \A o \in Outputs \cap DOMAIN J.sinks : J.sinks[o].schema = contracts[J.art.version][o]
    /\ SinksOf(J.sinks, WithDefault(J.cfg))

LEMMA ResolveStep ==
    ASSUME RegistryInv, OtherTypes, JobsAgree, NEW j \in DOMAIN jobs, ResolveSinks(j)
    PROVE  JobChange(j) /\ Resolved(j)
<1> DEFINE sinks == apply_contract_overrides_with_storage(jobs[j].art.version, WithDefault(topic_map))
           J == [jobs[j] EXCEPT !.st = "sent", !.cfg = topic_map, !.sinks = sinks]
<1>0. jobs \in Seq(JobSet) /\ jobs[j] \in JobSet /\ topic_map \in TopicConfigs
  BY DEF OtherTypes
<1>1. jobs[j].st = "loaded" /\ jobs[j].art \in Requests
  BY DEF ResolveSinks, JobsAgree, AgreesWith, Dispatched
<1>2. jobs[j].art.version \in Versions
  BY <1>1, MaterializeAssumption
<1>3. /\ sinks \in SinkMaps
      /\ \A o \in Outputs \cap DOMAIN sinks : sinks[o].schema = contracts[jobs[j].art.version][o]
  <2>1. manifests \in Seq(RowSet) /\ contracts \in [Versions -> ContractSet]
    BY DEF RegistryInv, RegistryTypes
  <2> QED BY <1>0, <1>2, <2>1, ResolvedSinks
<1>7. SinksOf(sinks, WithDefault(topic_map))
  BY ResolvedNames
<1> HIDE DEF sinks
<1>4. jobs' = [jobs EXCEPT ![j] = J]
  BY <1>0 DEF ResolveSinks, sinks
<1>5. /\ J \in JobSet /\ J.st = "sent" /\ J.sinks = sinks /\ J.cfg = topic_map
      /\ J.art = jobs[j].art /\ J.kind = jobs[j].kind /\ J.known = jobs[j].known
  BY <1>0, <1>3 DEF JobSet, JobStates
<1> HIDE DEF J
<1>6. JobChange(j) /\ jobs'[j] = J
  BY <1>0, <1>4, <1>5, OneJob
<1> QED BY <1>3, <1>5, <1>6, <1>7 DEF Resolved

SameJob(J, K) ==
    J.art = K.art /\ J.kind = K.kind /\ J.known = K.known /\ J.cfg = K.cfg /\ J.sinks = K.sinks

Ran(J) == IF J.kind = "native" THEN installed[J.art.version] ELSE J.art.code

(* What execute_job adds to the sinks for job j with sinks S.                *)
FactOf(w, j, J, tables) ==
    /\ w.job = j /\ w.art = J.art /\ w.ran = Ran(J) /\ w.output \in Outputs
    /\ w.via = select_sink(J.sinks, w.output) /\ w.via \in DOMAIN J.sinks
    /\ w.uri = J.sinks[w.via].uri
    /\ w.table = table_name_with_schema(Base(w.output, tables[w.output]),
                                        schema_hash(J.sinks[w.via].schema))
    /\ J.sinks[w.via].schema # None => w.data = J.sinks[w.via].schema
    /\ w.contract = J.known[w.output]

Executed(j) ==
    \/ jobs'[j] = Failed /\ written' = written
    \/ /\ jobs'[j].st = "written" /\ SameJob(jobs'[j], jobs[j])
       /\ written \subseteq written'
       /\ \A w \in written' : w \in written \/ FactOf(w, j, jobs[j], jobs'[j].tables)
       /\ \A o \in jobs'[j].produced :
            \E w \in written' : w.output = o /\ FactOf(w, j, jobs[j], jobs'[j].tables)

LEMMA ExecuteStep ==
    ASSUME OtherTypes, JobsAgree, NEW j \in DOMAIN jobs, execute_job(j)
    PROVE  JobChange(j) /\ Executed(j)
<1> DEFINE J == jobs[j]
           via(o) == select_sink(J.sinks, o)
           sink(o) == J.sinks[via(o)]
           table(o, named) == table_name_with_schema(Base(o, named), schema_hash(sink(o).schema))
           fact(o, d, n) == [job |-> j, art |-> J.art, ran |-> Ran(J), output |-> o, data |-> d,
                             uri |-> sink(o).uri, table |-> table(o, n), via |-> via(o),
                             contract |-> J.known[o]]
           ok(P, data) == /\ Ran(J) # None
                          /\ \A o \in P : via(o) # None /\ Conforms(sink(o), data[o])
<1>0. jobs \in Seq(JobSet) /\ J \in JobSet /\ J.st = "sent"
  BY DEF OtherTypes, execute_job
<1>1. J.art \in Requests
  BY <1>0 DEF JobsAgree, AgreesWith, Dispatched
<1>2. DOMAIN J.art.outs \subseteq Outputs
  BY <1>1, MaterializeAssumption
<1> DEFINE step(P, data, names) ==
              IF ok(P, data)
              THEN /\ jobs' = [jobs EXCEPT ![j].st = "written", ![j].produced = P,
                                           ![j].tables = names]
                   /\ written' = written \cup {fact(o, data[o], names[o]) : o \in P}
              ELSE jobs' = [jobs EXCEPT ![j] = Failed] /\ UNCHANGED written
<1>a. \E P \in SUBSET DOMAIN J.art.outs :
        \E data \in [P -> Schemas], names \in TablesOf(J.kind, P) : step(P, data, names)
  BY DEF execute_job, Ran
<1>b. PICK P \in SUBSET DOMAIN J.art.outs :
        \E data \in [P -> Schemas], names \in TablesOf(J.kind, P) : step(P, data, names)
  BY <1>a
<1>3. PICK data \in [P -> Schemas], names \in TablesOf(J.kind, P) : step(P, data, names)
  BY <1>b
<1>c. names \in [Outputs -> Tables \cup {None}]
  BY DEF TablesOf
<1>4. CASE ~ok(P, data)
  BY <1>0, <1>3, <1>4, OneJob, NewJobs DEF Executed
<1>5. CASE ok(P, data)
  <2> DEFINE K == [J EXCEPT !.st = "written", !.produced = P, !.tables = names]
  <2>1. jobs' = [jobs EXCEPT ![j] = K]
        /\ written' = written \cup {fact(o, data[o], names[o]) : o \in P}
    BY <1>0, <1>3, <1>5
  <2>2. /\ K \in JobSet /\ K.st = "written" /\ K.produced = P /\ K.tables = names
        /\ K.art = J.art /\ K.kind = J.kind /\ K.known = J.known
        /\ K.cfg = J.cfg /\ K.sinks = J.sinks
    BY <1>0, <1>2, <1>c DEF JobSet, JobStates
  <2> HIDE DEF K
  <2>3. JobChange(j) /\ jobs'[j] = K
    BY <1>0, <2>1, <2>2, OneJob
  <2>4. ASSUME NEW o \in P
        PROVE  FactOf(fact(o, data[o], names[o]), j, J, names)
               /\ fact(o, data[o], names[o]).output = o
    <3>1. via(o) \in DOMAIN J.sinks
      BY <1>5, SelectedSink
    <3>2. J.sinks[via(o)].schema # None => data[o] = J.sinks[via(o)].schema
      BY <1>5 DEF Conforms
    <3>3. o \in Outputs
      BY <1>2
    <3> QED BY <3>1, <3>2, <3>3 DEF FactOf
  <2> HIDE DEF fact, ok
  <2>5. \A o \in P : \E w \in written' : w.output = o /\ FactOf(w, j, J, names)
    BY <2>1, <2>4
  <2>6. \A w \in written' : w \in written \/ FactOf(w, j, J, names)
    BY <2>1, <2>4
  <2> QED BY <2>1, <2>2, <2>3, <2>5, <2>6 DEF Executed, SameJob
<1> QED BY <1>4, <1>5

(* What the conclusion does to the job.                                      *)
Concluded(j) ==
    LET J == jobs[j]  K == jobs'[j] IN
    /\ SameJob(K, J) /\ K.produced = J.produced /\ K.tables = J.tables
    /\ Wrote(J) /\ Wrote(K)
    /\ Recorder(J) => Recorder(K) /\ K.gen = J.gen
    /\ K.st = "done" => K.gen = J.gen /\ MaterializedKeys(J) \subseteq mats
    /\ UNCHANGED <<mats, written>>

LEMMA ConcludeStep ==
    ASSUME OtherTypes, NEW j \in DOMAIN jobs, Concluding(j)
    PROVE  JobChange(j) /\ Concluded(j)
<1>0. jobs \in Seq(JobSet) /\ jobs[j] \in JobSet /\ row \in Nat
  BY MaterializeAssumption DEF OtherTypes
<1>1. UNCHANGED <<mats, written>>
  BY DEF Concluding, complete_job, record_materializations_for_job, RecordingEnds, RecordingFails,
         outcome
<1>2. PICK st \in {"completed", "recording", "done", "unrecorded"}, gen \in Nat \cup {None} :
        /\ jobs' = [jobs EXCEPT ![j] = [jobs[j] EXCEPT !.st = st, !.gen = gen]]
        /\ Wrote(jobs[j])
        /\ Recorder(jobs[j]) => st # "completed" /\ gen = jobs[j].gen
        /\ st = "done" => gen = jobs[j].gen /\ MaterializedKeys(jobs[j]) \subseteq mats
  <2> DEFINE Q(st, gen) ==
        /\ jobs' = [jobs EXCEPT ![j] = [jobs[j] EXCEPT !.st = st, !.gen = gen]]
        /\ Wrote(jobs[j])
        /\ Recorder(jobs[j]) => st # "completed" /\ gen = jobs[j].gen
        /\ st = "done" => gen = jobs[j].gen /\ MaterializedKeys(jobs[j]) \subseteq mats
  <2>0. jobs[j].gen \in Nat \cup {None}
    BY <1>0 DEF JobSet
  <2>a. \A st : [jobs[j] EXCEPT !.st = st] = [jobs[j] EXCEPT !.st = st, !.gen = jobs[j].gen]
    BY <1>0 DEF JobSet
  <2>5. \E st \in {"completed", "recording", "done", "unrecorded"}, gen \in Nat \cup {None} :
           Q(st, gen)
    <3>1. CASE complete_job(j)
      <4>1. Q("completed", jobs[j].gen)
        BY <1>0, <2>a, <3>1 DEF complete_job, Wrote, Recorder
      <4> HIDE DEF Q
      <4> QED BY <2>0, <4>1
    <3>2. CASE record_materializations_for_job(j)
      <4>1. Q("recording", row)
        BY <1>0, <3>2 DEF record_materializations_for_job, Wrote, Recorder
      <4> HIDE DEF Q
      <4> QED BY <1>0, <4>1
    <3>3. CASE RecordingEnds(j)
      <4>1. Q("done", jobs[j].gen)
        BY <1>0, <2>a, <3>3 DEF RecordingEnds, Wrote, Recorder
      <4> HIDE DEF Q
      <4> QED BY <2>0, <4>1
    <3>4. CASE RecordingFails(j)
      <4>1. Q("unrecorded", jobs[j].gen)
        BY <1>0, <2>a, <3>4 DEF RecordingFails, Wrote, Recorder
      <4> HIDE DEF Q
      <4> QED BY <2>0, <4>1
    <3> HIDE DEF Q
    <3> QED BY <3>1, <3>2, <3>3, <3>4 DEF Concluding
  <2> QED BY <2>5
<1> DEFINE K == [jobs[j] EXCEPT !.st = st, !.gen = gen]
<1>3. /\ K \in JobSet /\ K.st = st /\ K.gen = gen /\ K.produced = jobs[j].produced
      /\ K.art = jobs[j].art /\ K.kind = jobs[j].kind /\ K.known = jobs[j].known
      /\ K.cfg = jobs[j].cfg /\ K.sinks = jobs[j].sinks /\ K.tables = jobs[j].tables
  BY <1>0 DEF JobSet, JobStates
<1>4. jobs' = [jobs EXCEPT ![j] = K]
  BY <1>2
<1> HIDE DEF K
<1>5. JobChange(j) /\ jobs'[j] = K
  BY <1>0, <1>3, <1>4, OneJob
<1> QED BY <1>1, <1>2, <1>3, <1>5 DEF SameJob, Concluded, Wrote, Recorder

(* A key is put on record; the jobs stay as they are.                        *)
LEMMA InsertStep ==
    ASSUME OtherTypes, NEW j \in DOMAIN jobs, insert_output_materialization(j)
    PROVE  /\ JobChange(j) /\ jobs' = jobs /\ written' = written /\ jobs[j].st = "recording"
           /\ \E k \in MaterializedKeys(jobs[j]) : mats' = mats \cup {k}
<1>1. jobs' = jobs /\ written' = written /\ jobs[j].st = "recording"
  BY DEF insert_output_materialization
<1>2. \E k \in MaterializedKeys(jobs[j]) : mats' = mats \cup {k}
  BY DEF insert_output_materialization
<1>3. JobChange(j)
  BY <1>1 DEF OtherTypes, JobChange
<1> QED BY <1>1, <1>2, <1>3

LEMMA JobStepChange ==
    ASSUME RegistryInv, OtherTypes, JobsAgree, NEW j \in DOMAIN jobs, JobStep(j)
    PROVE  JobChange(j)
BY LoadStep, ResolveStep, ExecuteStep, ConcludeStep, InsertStep DEF JobStep

-----------------------------------------------------------------------------
(* The steps of Next, by what they do to the jobs. *)

LEMMA OtherTypesKept ==
    ASSUME RegistryInv, OtherTypes, JobsAgree, [Next]_vars
    PROVE  OtherTypes'
<1>0. MaxJobs \in Nat /\ MaxChanges \in Nat
  BY MaterializeAssumption
<1>1. CASE Publish
  <2>1. /\ UNCHANGED <<disk, row, topics, run, jobs>> /\ topic_map' \in {topic_map, topics}
        /\ changes' = changes \/ Change
    BY <1>1 DEF Publish, deploy_plugin, ImportRemove, ImportCopy, ImportManifest,
       ImportKilled, cmd_unpublish, ImportContract, file, config
  <2> QED BY <1>0, <2>1 DEF OtherTypes, Change
<1>2. CASE EditTopics \/ Edit \/ Rescan \/ UNCHANGED vars
  BY <1>0, <1>2 DEF OtherTypes, EditTopics, Edit, Rescan, Change, vars, file, config
<1>3. CASE load_parser_manifest \/ load_sink_configs \/ RunTargets \/ load_file_generation
  <2>1. UNCHANGED <<disk, row, topics, topic_map, jobs, changes>>
    BY <1>3 DEF load_parser_manifest, load_sink_configs, RunTargets, load_file_generation,
         file, config
  <2>2. DOMAIN run' = RunFields /\ run'.pc \in RunStates
    <3>0. DOMAIN run = RunFields
      BY DEF OtherTypes
    <3>1. CASE load_parser_manifest
      BY <3>1 DEF load_parser_manifest, NoRun, RunFields, RunStates
    <3>2. CASE load_sink_configs
      BY <3>0, <3>2 DEF load_sink_configs, RunFields, RunStates
    <3>3. CASE RunTargets
      BY <3>0, <3>3 DEF RunTargets, RunFields, RunStates
    <3>4. CASE load_file_generation
      BY <3>0, <3>4 DEF load_file_generation, RunFields, RunStates
    <3> QED BY <1>3, <3>1, <3>2, <3>3, <3>4
  <2> QED BY <2>1, <2>2 DEF OtherTypes
<1>4. CASE enqueue_jobs
  <2>1. DOMAIN run' = RunFields /\ run'.pc \in RunStates
    BY <1>4 DEF enqueue_jobs, OtherTypes, RunFields, RunStates
  <2>2. jobs' \in Seq(JobSet) /\ Len(jobs') <= MaxJobs
    BY SMTT(30), <1>0, <1>4, NewJobs DEF enqueue_jobs, OtherTypes
  <2> QED BY <1>4, <2>1, <2>2 DEF enqueue_jobs, OtherTypes, file, config
<1>5. CASE Job
  <2>1. PICK j \in DOMAIN jobs : JobStep(j)
    BY <1>5 DEF Job, JobStep, Concluding
  <2>2. JobChange(j)
    BY <2>1, JobStepChange
  <2>3. UNCHANGED <<file, topics, run, changes>> /\ topic_map' \in {topic_map, topics}
    BY <2>1 DEF load_dispatch_data, ResolveSinks, execute_job, JobStep, Concluding,
         complete_job, record_materializations_for_job, insert_output_materialization,
         RecordingEnds, RecordingFails,
         config
  <2> QED BY <2>2, <2>3 DEF OtherTypes, JobChange, file
<1> QED BY <1>1, <1>2, <1>3, <1>4, <1>5 DEF Next, PipelineRun

(* Outside the jobs' own steps, a job at most joins the queue.               *)
NoJobMoves ==
    /\ UNCHANGED <<mats, written>>
    /\ DOMAIN jobs \subseteq DOMAIN jobs'
    /\ \A j \in DOMAIN jobs : jobs'[j] = jobs[j]
    /\ \A j \in DOMAIN jobs' \ DOMAIN jobs : jobs'[j] = Queued

LEMMA OutsideJobs ==
    ASSUME OtherTypes, [Next]_vars, ~Job
    PROVE  NoJobMoves
<1>1. CASE enqueue_jobs
  <2>1. jobs' = jobs \/ jobs' = Append(jobs, Queued)
    BY <1>1 DEF enqueue_jobs
  <2>2. UNCHANGED <<mats, written>>
    BY <1>1 DEF enqueue_jobs, outcome
  <2>3. jobs \in Seq(JobSet)
    BY DEF OtherTypes
  <2>4. /\ DOMAIN jobs \subseteq DOMAIN jobs'
        /\ \A j \in DOMAIN jobs : jobs'[j] = jobs[j]
        /\ \A j \in DOMAIN jobs' \ DOMAIN jobs : jobs'[j] = Queued
    BY <2>1, <2>3, NewJobs
  <2> QED BY <2>2, <2>4 DEF NoJobMoves
<1>2. CASE ~enqueue_jobs
  <2>1. UNCHANGED <<jobs, mats, written>>
    BY <1>2 DEF Next, Publish, PipelineRun, deploy_plugin, ImportRemove, ImportCopy, ImportManifest,
       ImportKilled, cmd_unpublish, ImportContract, EditTopics, Edit, Rescan, vars,
       load_parser_manifest, load_sink_configs, RunTargets, load_file_generation, outcome
  <2> QED BY <2>1 DEF NoJobMoves
<1> QED BY <1>1, <1>2

(* A job agrees with contracts that only grow.                               *)
LEMMA AgreesLater ==
    ASSUME ContractsKept, contracts \in [Versions -> ContractSet], NEW J, AgreesWith(J, contracts)
    PROVE  AgreesWith(J, contracts')
<1>1. CASE Dispatched(J)
  <2>1. J.art.version \in Versions
    BY <1>1, MaterializeAssumption DEF AgreesWith
  <2> QED BY <1>1, <2>1 DEF AgreesWith, ContractsKept
<1>2. CASE ~Dispatched(J)
  BY <1>2 DEF AgreesWith, Dispatched, Sent
<1> QED BY <1>1, <1>2

LEMMA JobsAgreeKept ==
    ASSUME RegistryInv, OtherTypes, JobsAgree, ContractsKept, [Next]_vars
    PROVE  JobsAgree'
<1>0. contracts \in [Versions -> ContractSet]
  BY DEF RegistryInv, RegistryTypes
<1>1. \A j \in DOMAIN jobs : AgreesWith(jobs[j], contracts')
  BY <1>0, AgreesLater DEF JobsAgree
<1>2. CASE ~Job
  <2>1. AgreesWith(Queued, contracts')
    BY NewJobs DEF AgreesWith, Dispatched, Sent
  <2>2. NoJobMoves
    BY <1>2, OutsideJobs
  <2> QED BY <1>1, <2>1, <2>2 DEF NoJobMoves, JobsAgree
<1>3. CASE Job
  <2>1. PICK j \in DOMAIN jobs : JobStep(j)
    BY <1>3 DEF Job, JobStep, Concluding
  <2>2. JobChange(j)
    BY <2>1, JobStepChange
  <2>3. contracts' = contracts
    BY <2>1 DEF load_dispatch_data, ResolveSinks, execute_job, JobStep, Concluding,
         complete_job, record_materializations_for_job, insert_output_materialization,
         RecordingEnds, RecordingFails,
         registry
  <2>4. AgreesWith(Failed, contracts)
    BY NewJobs DEF AgreesWith, Dispatched, Sent
  <2>5. AgreesWith(jobs'[j], contracts)
    <3>1. CASE load_dispatch_data(j)
      BY <2>4, <3>1, LoadStep DEF Loaded, AgreesWith, Dispatched, Sent
    <3>2. CASE ResolveSinks(j)
      <4>1. Resolved(j) /\ jobs[j].st = "loaded" /\ AgreesWith(jobs[j], contracts)
        BY <3>2, ResolveStep DEF ResolveSinks, JobsAgree
      <4> QED BY <4>1 DEF Resolved, AgreesWith, Dispatched, Sent
    <3>3. CASE execute_job(j)
      <4>1. Executed(j) /\ jobs[j].st = "sent" /\ AgreesWith(jobs[j], contracts)
        BY <3>3, ExecuteStep DEF execute_job, JobsAgree
      <4>2. CASE jobs'[j] = Failed
        BY <2>4, <4>2
      <4>3. CASE jobs'[j].st = "written" /\ SameJob(jobs'[j], jobs[j])
        BY <4>1, <4>3 DEF AgreesWith, Dispatched, Sent, SameJob
      <4> QED BY <4>1, <4>2, <4>3 DEF Executed
    <3>4. CASE Concluding(j)
      <4>1. Concluded(j) /\ AgreesWith(jobs[j], contracts)
        BY <3>4, ConcludeStep DEF JobsAgree
      <4>2. SameJob(jobs'[j], jobs[j]) /\ Dispatched(jobs[j]) /\ Sent(jobs[j])
        BY <4>1 DEF Concluded, Wrote, Dispatched, Sent
      <4> QED BY <4>1, <4>2 DEF AgreesWith, SameJob
    <3>5. CASE insert_output_materialization(j)
      BY <3>5, InsertStep DEF JobsAgree
    <3> QED BY <2>1, <3>1, <3>2, <3>3, <3>4, <3>5 DEF JobStep
  <2> QED BY <1>1, <2>2, <2>3, <2>5 DEF JobsAgree, JobChange
<1> QED BY <1>2, <1>3

-----------------------------------------------------------------------------
(* What was written, and the keys on record. *)

(* What the sinks hold is never taken back, and what a completed job settled *)
(* stays settled.                                                            *)
WrittenKept ==
    /\ written \subseteq written'
    /\ DOMAIN jobs \subseteq DOMAIN jobs'
    /\ \A j \in DOMAIN jobs : Recorder(jobs[j]) =>
         /\ Recorder(jobs'[j]) /\ jobs'[j].art = jobs[j].art /\ jobs'[j].gen = jobs[j].gen
         /\ jobs'[j].produced = jobs[j].produced

LEMMA WrittenIsKept ==
    ASSUME RegistryInv, OtherTypes, JobsAgree, [Next]_vars
    PROVE  WrittenKept
<1>1. CASE ~Job
  BY <1>1, OutsideJobs DEF NoJobMoves, WrittenKept
<1>2. CASE Job
  <2>1. PICK j \in DOMAIN jobs : JobStep(j)
    BY <1>2 DEF Job, JobStep, Concluding
  <2>2. JobChange(j)
    BY <2>1, JobStepChange
  <2>3. Recorder(jobs[j]) =>
          /\ Recorder(jobs'[j]) /\ jobs'[j].art = jobs[j].art /\ jobs'[j].gen = jobs[j].gen
          /\ jobs'[j].produced = jobs[j].produced
    <3>1. CASE load_dispatch_data(j) \/ ResolveSinks(j) \/ execute_job(j)
      BY <3>1 DEF load_dispatch_data, ResolveSinks, execute_job, Recorder
    <3>2. CASE Concluding(j)
      BY <3>2, ConcludeStep DEF Concluded, SameJob
    <3>3. CASE insert_output_materialization(j)
      BY <3>3, InsertStep
    <3> QED BY <2>1, <3>1, <3>2, <3>3 DEF JobStep
  <2>4. written \subseteq written'
    <3>1. CASE execute_job(j)
      BY <3>1, ExecuteStep DEF Executed
    <3>2. CASE ~execute_job(j)
      BY <2>1, <3>2 DEF load_dispatch_data, ResolveSinks, JobStep, Concluding,
         complete_job, record_materializations_for_job, insert_output_materialization,
         RecordingEnds, RecordingFails, outcome
    <3> QED BY <3>1, <3>2
  <2> QED BY <2>2, <2>3, <2>4 DEF JobChange, WrittenKept
<1> QED BY <1>1, <1>2

LEMMA SettledLater ==
    ASSUME WrittenKept, NEW art, NEW gen, NEW t, Settled(art, gen, t)
    PROVE  Settled(art, gen, t)'
<1>1. PICK j \in DOMAIN jobs : Settles(j, jobs[j], written, art, gen, t)
  BY DEF Settled
<1>2. j \in DOMAIN jobs'
  BY <1>1 DEF WrittenKept
<1>3. Settles(j, jobs'[j], written', art, gen, t)
  BY <1>1 DEF WrittenKept, Settles
<1> QED BY <1>2, <1>3 DEF Settled, Settles, Recorder

LEMMA OutputsWrittenKept ==
    ASSUME RegistryInv, OtherTypes, JobsAgree, OutputsWritten, [Next]_vars
    PROVE  OutputsWritten'
<1>0. WrittenKept
  BY WrittenIsKept
<1>1. \A j \in DOMAIN jobs : WroteOutputs(j, jobs[j], written')
  BY <1>0 DEF OutputsWritten, WroteOutputs, WrittenKept
<1>2. CASE ~Job
  <2>1. \A j : WroteOutputs(j, Queued, written')
    BY NewJobs DEF WroteOutputs, Wrote
  <2> QED BY <1>1, <1>2, <2>1, OutsideJobs DEF NoJobMoves, OutputsWritten
<1>3. CASE Job
  <2>1. PICK j \in DOMAIN jobs : JobStep(j)
    BY <1>3 DEF Job, JobStep, Concluding
  <2>2. JobChange(j)
    BY <2>1, JobStepChange
  <2>3. WroteOutputs(j, Failed, written')
    BY NewJobs DEF WroteOutputs, Wrote
  <2>4. WroteOutputs(j, jobs'[j], written')
    <3>1. CASE load_dispatch_data(j)
      <4>1. jobs'[j] = Failed \/ jobs'[j].st = "loaded"
        BY <3>1, LoadStep DEF Loaded
      <4> QED BY <2>3, <4>1 DEF WroteOutputs, Wrote
    <3>2. CASE ResolveSinks(j)
      <4>1. jobs'[j].st = "sent"
        BY <3>2, ResolveStep DEF Resolved
      <4> QED BY <4>1 DEF WroteOutputs, Wrote
    <3>3. CASE execute_job(j)
      <4>1. Executed(j)
        BY <3>3, ExecuteStep
      <4>2. CASE jobs'[j] = Failed
        BY <2>3, <4>2
      <4>3. CASE /\ SameJob(jobs'[j], jobs[j])
                 /\ \A o \in jobs'[j].produced : \E w \in written' : w.output = o
                                             /\ FactOf(w, j, jobs[j], jobs'[j].tables)
        BY <4>3 DEF FactOf, SameJob, WroteOutputs, TableOf
      <4> QED BY <4>1, <4>2, <4>3 DEF Executed
    <3>4. CASE Concluding(j)
      <4>1. /\ SameJob(jobs'[j], jobs[j]) /\ Wrote(jobs[j])
            /\ jobs'[j].produced = jobs[j].produced /\ jobs'[j].tables = jobs[j].tables
        BY <3>4, ConcludeStep DEF Concluded
      <4> QED BY <1>1, <4>1 DEF WroteOutputs, SameJob, TableOf
    <3>5. CASE insert_output_materialization(j)
      BY <1>1, <3>5, InsertStep
    <3> QED BY <2>1, <3>1, <3>2, <3>3, <3>4, <3>5 DEF JobStep
  <2> QED BY <1>1, <2>2, <2>4 DEF OutputsWritten, JobChange
<1> QED BY <1>2, <1>3

(* The keys a job records are settled by that job.                           *)
LEMMA RecordedKeys ==
    ASSUME OutputsWritten, NEW j \in DOMAIN jobs, jobs[j].st = "recording",
           NEW m \in MaterializedKeys(jobs[j])
    PROVE  Settled(m.art, m.gen, m.target)
<1> DEFINE J == jobs[j]
           own == {OwnTarget(J, o) : o \in J.produced}
           empty == {Target(J, t, t, None) : t \in DOMAIN J.sinks \ (J.produced \cup {"*"})}
<1>1. PICK t \in own \cup empty : m = materialization_key(J.gen, J.art, t)
  BY DEF MaterializedKeys
<1>2. m.art = J.art /\ m.gen = J.gen /\ m.target = t
  BY <1>1 DEF materialization_key
<1>3. Wrote(J) /\ Recorder(J)
  BY DEF Wrote, Recorder
<1>5. ASSUME t.output \in J.produced
      PROVE  \E w \in written : /\ w.job = j /\ w.output = t.output /\ w.uri = t.uri
                                /\ w.table = t.table
                                /\ t.hash # None => t.hash = schema_hash(w.data)
  <2>1. t \in own
    BY <1>5 DEF Target, output_target_key
  <2>2. PICK o \in J.produced : t = OwnTarget(J, o)
    BY <2>1
  <2> DEFINE k == J.sinks[select_sink(J.sinks, o)]
  <2>3. /\ t.output = o /\ t.uri = k.uri /\ t.hash = schema_hash(k.schema)
        /\ t.table = RecordedTable(o, J.tables[o], schema_hash(k.schema))
    BY <2>2 DEF OwnTarget, Target, output_target_key
  <2>4. PICK w \in written : /\ w.job = j /\ w.output = o /\ w.uri = k.uri
                             /\ w.table = TableOf(J, o)
                             /\ k.schema # None => w.data = k.schema
    BY <1>3, <2>2 DEF OutputsWritten, WroteOutputs
  <2>6. w.table = t.table
    BY <2>3, <2>4 DEF TableOf, RecordedTable, Base
  <2> HIDE DEF k
  <2>5. t.hash # None => t.hash = schema_hash(w.data)
    <3>1. CASE k.schema = None
      <4>1. t.hash = None
        BY <2>3, <3>1 DEF schema_hash
      <4> QED BY <4>1
    <3>2. CASE k.schema # None
      <4>1. w.data = k.schema
        BY <2>4, <3>2
      <4> QED BY <2>3, <4>1
    <3> QED BY <3>1, <3>2
  <2> QED BY <2>3, <2>4, <2>5, <2>6
<1> HIDE DEF own, empty
<1>6. Settles(j, J, written, J.art, J.gen, t)
  BY <1>3, <1>5 DEF Settles
<1> QED BY <1>2, <1>6 DEF Settled

LEMMA KeysStandKept ==
    ASSUME RegistryInv, OtherTypes, JobsAgree, OutputsWritten, KeysStand, [Next]_vars
    PROVE  KeysStand'
<1>1. \A m \in mats : Settled(m.art, m.gen, m.target)'
  BY WrittenIsKept, SettledLater DEF KeysStand
<1>2. CASE \E j \in DOMAIN jobs : insert_output_materialization(j)
  <2>1. PICK j \in DOMAIN jobs : insert_output_materialization(j)
    BY <1>2
  <2>2. PICK k \in MaterializedKeys(jobs[j]) : mats' = mats \cup {k}
    BY <2>1, InsertStep
  <2>3. Settled(k.art, k.gen, k.target)
    BY <2>1, InsertStep, RecordedKeys
  <2>4. Settled(k.art, k.gen, k.target)'
    BY <2>3, WrittenIsKept, SettledLater
  <2> QED BY <1>1, <2>2, <2>4 DEF KeysStand
<1>3. CASE ~\E j \in DOMAIN jobs : insert_output_materialization(j)
  <2>1. mats' = mats
    <3>1. CASE ~Job
      BY <3>1, OutsideJobs DEF NoJobMoves
    <3>2. CASE Job
      BY <1>3, <3>2 DEF Job, load_dispatch_data, ResolveSinks, execute_job, complete_job,
         record_materializations_for_job, RecordingEnds, RecordingFails, outcome
    <3> QED BY <3>1, <3>2
  <2> QED BY <1>1, <2>1 DEF KeysStand
<1> QED BY <1>2, <1>3

-----------------------------------------------------------------------------
(* The keys of the named sinks, and the targets of the run. *)

(* The sentinel records the pipeline's key for every named sink, whether or  *)
(* not the job produced the output, if the parser named no table.            *)
LEMMA NamedKeys ==
    ASSUME NEW J \in JobSet, NamesNoTable(J), NEW t \in DOMAIN J.sinks \ {"*"}
    PROVE  KeyOf(J, t) \in MaterializedKeys(J)
<1> DEFINE own == {OwnTarget(J, o) : o \in J.produced}
           empty == {Target(J, u, u, None) : u \in DOMAIN J.sinks \ (J.produced \cup {"*"})}
<1>1. MaterializedKeys(J) = {materialization_key(J.gen, J.art, u) : u \in own \cup empty}
  BY DEF MaterializedKeys
<1>2. Target(J, t, t, None) = NamedKey(J.sinks, t)
  BY DEF Target, NamedKey, RecordedTable, Base
<1>3. Target(J, t, t, None) \in own \cup empty
  <2>1. CASE t \in J.produced
    <3>1. select_sink(J.sinks, t) = t
      BY DEF select_sink
    <3>2. J.tables[t] = None
      BY <2>1 DEF JobSet, NamesNoTable, NoTables
    <3>3. OwnTarget(J, t) \in own
      BY <2>1
    <3> QED BY <3>1, <3>2, <3>3 DEF OwnTarget
  <2>2. CASE t \notin J.produced
    BY <2>2
  <2> QED BY <2>1, <2>2
<1> HIDE DEF own, empty
<1> QED BY <1>1, <1>2, <1>3 DEF KeyOf

(* Keys are only added.                                                      *)
LEMMA CompleteLater ==
    ASSUME NEW J, NEW keys, NEW more, keys \subseteq more, Complete(J, keys)
    PROVE  Complete(J, more)
BY DEF Complete

LEMMA KeysCompleteKept ==
    ASSUME RegistryInv, OtherTypes, JobsAgree, KeysComplete, [Next]_vars
    PROVE  KeysComplete'
<1>1. CASE ~Job
  <2>1. NoJobMoves
    BY <1>1, OutsideJobs
  <2>2. SUFFICES ASSUME NEW j \in DOMAIN jobs'
                 PROVE  Complete(jobs'[j], mats')
    BY DEF KeysComplete
  <2>3. CASE j \in DOMAIN jobs
    BY <2>1, <2>3 DEF NoJobMoves, KeysComplete
  <2>4. CASE j \notin DOMAIN jobs
    <3>1. jobs'[j].st = "queued"
      BY <2>1, <2>2, <2>4, NewJobs DEF NoJobMoves
    <3> QED BY <3>1 DEF Complete, Sent
  <2> QED BY <2>3, <2>4
<1>2. CASE Job
  <2>1. PICK j \in DOMAIN jobs : JobStep(j)
    BY <1>2 DEF Job, JobStep, Concluding
  <2>2. JobChange(j)
    BY <2>1, JobStepChange
  <2>3. mats \subseteq mats'
    BY <2>1 DEF load_dispatch_data, ResolveSinks, execute_job, JobStep, Concluding,
         complete_job, record_materializations_for_job, insert_output_materialization,
         RecordingEnds, RecordingFails,
         outcome
  <2>4. Complete(jobs'[j], mats')
    <3>0. Complete(jobs[j], mats)
      BY DEF KeysComplete
    <3>1. CASE load_dispatch_data(j)
      <4>1. Loaded(j)
        BY <3>1, LoadStep
      <4>2. jobs'[j].st \in {"failed", "loaded"}
        BY <4>1, NewJobs DEF Loaded
      <4> QED BY <4>2 DEF Complete, Sent
    <3>2. CASE ResolveSinks(j)
      <4>1. Resolved(j)
        BY <3>2, ResolveStep
      <4> QED BY <4>1 DEF Complete, Resolved, Sent
    <3>3. CASE execute_job(j)
      <4>1. Executed(j) /\ jobs[j].st = "sent"
        BY <3>3, ExecuteStep DEF execute_job
      <4>2. CASE jobs'[j] = Failed
        BY <4>2, NewJobs DEF Complete, Sent
      <4>3. CASE jobs'[j].st = "written" /\ SameJob(jobs'[j], jobs[j])
        BY <3>0, <4>1, <4>3 DEF Complete, SameJob, Sent
      <4> QED BY <4>1, <4>2, <4>3 DEF Executed
    <3>4. CASE Concluding(j)
      <4>1. Concluded(j)
        BY <3>4, ConcludeStep
      <4>2. Sent(jobs[j]) /\ SameJob(jobs'[j], jobs[j])
        BY <4>1 DEF Concluded, Wrote, Sent
      <4>3. SinksOf(jobs'[j].sinks, WithDefault(jobs'[j].cfg))
        BY <3>0, <4>2 DEF Complete, SameJob
      <4>4. ASSUME jobs'[j].st = "done"
            PROVE  MaterializedKeys(jobs'[j]) \subseteq mats'
        <5>1. /\ MaterializedKeys(jobs[j]) \subseteq mats' /\ SameJob(jobs'[j], jobs[j])
              /\ jobs'[j].gen = jobs[j].gen /\ jobs'[j].produced = jobs[j].produced
              /\ jobs'[j].tables = jobs[j].tables
          BY <4>1, <4>4 DEF Concluded
        <5>2. MaterializedKeys(jobs'[j]) = MaterializedKeys(jobs[j])
          BY <5>1 DEF MaterializedKeys, OwnTarget, Target, SameJob
        <5> QED BY <5>1, <5>2
      <4> QED BY <4>3, <4>4 DEF Complete
    <3>5. CASE insert_output_materialization(j)
      <4>1. jobs' = jobs
        BY <3>5, InsertStep
      <4> QED BY <2>3, <3>0, <4>1, CompleteLater
    <3> QED BY <2>1, <3>1, <3>2, <3>3, <3>4, <3>5 DEF JobStep
  <2>5. SUFFICES ASSUME NEW i \in DOMAIN jobs'
                 PROVE  Complete(jobs'[i], mats')
    BY DEF KeysComplete
  <2>6. CASE i = j
    BY <2>4, <2>6
  <2>7. CASE i # j
    <3>1. jobs'[i] = jobs[i] /\ Complete(jobs[i], mats)
      BY <2>2, <2>7 DEF JobChange, KeysComplete
    <3>2. Complete(jobs[i], mats')
      BY <2>3, <3>1, CompleteLater
    <3> QED BY <3>1, <3>2
  <2> QED BY <2>6, <2>7
<1> QED BY <1>1, <1>2

LEMMA RunAgreesKept ==
    ASSUME OtherTypes, RunAgrees, [Next]_vars
    PROVE  RunAgrees'
<1>0. DOMAIN run = RunFields
  BY DEF OtherTypes
<1>1. CASE load_parser_manifest
  <2>1. run'.pc = "sinks"
    BY <1>1 DEF load_parser_manifest, NoRun
  <2> QED BY <2>1 DEF RunAgrees
<1>2. CASE load_sink_configs
  <2> DEFINE sinks == apply_contract_overrides(run.art.version, WithDefault(topics))
  <2>1. /\ run'.pc = "targets" /\ run'.cfg = topics /\ run'.sinks = sinks
        /\ run'.known = contracts[run.art.version]
    BY <1>0, <1>2 DEF load_sink_configs, RunFields
  <2>2. sinks = RunSinks(WithDefault(topics), contracts[run.art.version])
    BY DEF apply_contract_overrides, attach_contract_override, RunSinks
  <2> HIDE DEF sinks
  <2>3. run'.sinks = RunSinks(WithDefault(run'.cfg), run'.known)
    BY <2>1, <2>2
  <2> QED BY <2>1, <2>3 DEF RunAgrees, RunSinks, WithDefault
<1>3. CASE RunTargets
  <2> DEFINE targets == output_target_keys_for_sinks(run.art.version, run.sinks)
  <2>1. /\ run.pc = "targets" /\ run'.pc = "generation" /\ run'.cfg = run.cfg
        /\ run'.sinks = run.sinks /\ run'.known = run.known /\ run'.targets = targets
    BY <1>0, <1>3 DEF RunTargets, RunFields
  <2>2. "*" \notin DOMAIN run.sinks => targets = NamedTargets(run.sinks)
    BY DEF output_target_keys_for_sinks, NamedTargets, NamedKey
  <2> HIDE DEF targets
  <2>3. "*" \notin DOMAIN run'.sinks => run'.targets = NamedTargets(run'.sinks)
    BY <2>1, <2>2
  <2>4. run'.sinks = RunSinks(WithDefault(run'.cfg), run'.known)
    BY <2>1 DEF RunAgrees
  <2> QED BY <2>3, <2>4 DEF RunAgrees, RunSinks, WithDefault, NamedTargets, NamedKey
<1>4. CASE load_file_generation
  <2>1. /\ run.pc = "generation" /\ run'.cfg = run.cfg /\ run'.sinks = run.sinks
        /\ run'.known = run.known /\ run'.targets = run.targets
    BY <1>0, <1>4 DEF load_file_generation, RunFields
  <2>2. run'.sinks = RunSinks(WithDefault(run'.cfg), run'.known)
    BY <2>1 DEF RunAgrees
  <2>3. "*" \notin DOMAIN run'.sinks => run'.targets = NamedTargets(run'.sinks)
    BY <2>1 DEF RunAgrees
  <2> QED BY <2>2, <2>3 DEF RunAgrees, RunSinks, WithDefault, NamedTargets, NamedKey
<1>5. CASE enqueue_jobs
  <2>1. run'.pc \in {"skipped", "queued"}
    BY <1>0, <1>5 DEF enqueue_jobs, RunFields
  <2> QED BY <2>1 DEF RunAgrees
<1>6. CASE Publish \/ Job \/ EditTopics \/ Edit \/ Rescan \/ UNCHANGED vars
  <2>1. run' = run
    BY <1>6 DEF Publish, Job, EditTopics, Edit, Rescan, vars,
       deploy_plugin, ImportRemove, ImportCopy, ImportManifest, ImportKilled, cmd_unpublish,
       ImportContract, load_dispatch_data, ResolveSinks, execute_job, JobStep, Concluding,
         complete_job, record_materializations_for_job, insert_output_materialization,
         RecordingEnds, RecordingFails
  <2> QED BY <2>1 DEF RunAgrees, RunSinks, WithDefault, NamedTargets, NamedKey
<1> QED BY <1>1, <1>2, <1>3, <1>4, <1>5, <1>6 DEF Next, PipelineRun

-----------------------------------------------------------------------------
(* The properties. *)

(* What a step adds to the sinks is a fact of a job that was sent.           *)
LEMMA NewFacts ==
    ASSUME RegistryInv, OtherTypes, JobsAgree, [Next]_vars
    PROVE  \A w \in written' :
             \/ w \in written
             \/ \E j \in DOMAIN jobs :
                  jobs[j].st = "sent" /\ FactOf(w, j, jobs[j], jobs'[j].tables)
<1>1. CASE ~Job
  BY <1>1, OutsideJobs DEF NoJobMoves
<1>2. CASE Job
  <2>1. PICK j \in DOMAIN jobs : JobStep(j)
    BY <1>2 DEF Job, JobStep, Concluding
  <2>2. CASE execute_job(j)
    <3>1. Executed(j) /\ jobs[j].st = "sent"
      BY <2>2, ExecuteStep DEF execute_job
    <3> QED BY <3>1 DEF Executed
  <2>3. CASE ~execute_job(j)
    BY <2>1, <2>3 DEF load_dispatch_data, ResolveSinks, JobStep, Concluding,
         complete_job, record_materializations_for_job, insert_output_materialization,
         RecordingEnds, RecordingFails, outcome
  <2> QED BY <2>2, <2>3
<1> QED BY <1>1, <1>2

LEMMA NamedSinksKept ==
    ASSUME RegistryInv, OtherTypes, JobsAgree, NamedSinksAreChecked, [Next]_vars
    PROVE  NamedSinksAreChecked'
<1>1. SUFFICES ASSUME NEW w \in written', w \notin written, w.via = w.output, w.contract # None
               PROVE  w.data = w.contract
  BY DEF NamedSinksAreChecked
<1>2. PICK j \in DOMAIN jobs :
           jobs[j].st = "sent" /\ FactOf(w, j, jobs[j], jobs'[j].tables)
  BY <1>1, NewFacts
<1> DEFINE J == jobs[j]
<1>3. AgreesWith(J, contracts)
  BY DEF JobsAgree
<1>4. w.output \in Outputs \cap DOMAIN J.sinks /\ J.known[w.output] = w.contract
  BY <1>1, <1>2 DEF FactOf
<1>5. J.sinks[w.output].schema = w.contract
  BY <1>1, <1>2, <1>3, <1>4 DEF AgreesWith, Sent
<1> QED BY <1>1, <1>2, <1>5 DEF FactOf

(* A run that becomes skipped found all its keys on record; one that was     *)
(* skipped does not change until the next run.                               *)
LEMMA SkippedRun ==
    ASSUME OtherTypes, [Next]_vars, run'.pc = "skipped"
    PROVE  /\ run'.targets = run.targets /\ run'.art = run.art /\ run'.gen = run.gen
           /\ run.pc = "skipped" \/ RunSkips
<1>0. DOMAIN run = RunFields
  BY DEF OtherTypes
<1>1. CASE enqueue_jobs
  BY <1>0, <1>1 DEF enqueue_jobs, RunFields
<1>2. CASE load_parser_manifest
  <2>1. run'.pc = "sinks"
    BY <1>2 DEF load_parser_manifest, NoRun
  <2> QED BY <2>1
<1>3. CASE load_sink_configs
  <2>1. run'.pc = "targets"
    BY <1>0, <1>3 DEF load_sink_configs, RunFields
  <2> QED BY <2>1
<1>4. CASE RunTargets
  <2>1. run'.pc = "generation"
    BY <1>0, <1>4 DEF RunTargets, RunFields
  <2> QED BY <2>1
<1>5. CASE load_file_generation
  <2>1. run'.pc = "decide"
    BY <1>0, <1>5 DEF load_file_generation, RunFields
  <2> QED BY <2>1
<1>6. CASE Publish \/ Job \/ EditTopics \/ Edit \/ Rescan \/ UNCHANGED vars
  <2>1. run' = run
    BY <1>6 DEF Publish, Job, EditTopics, Edit, Rescan, vars,
       deploy_plugin, ImportRemove, ImportCopy, ImportManifest, ImportKilled, cmd_unpublish,
       ImportContract, load_dispatch_data, ResolveSinks, execute_job, JobStep, Concluding,
         complete_job, record_materializations_for_job, insert_output_materialization,
         RecordingEnds, RecordingFails
  <2> QED BY <2>1
<1> QED BY <1>1, <1>2, <1>3, <1>4, <1>5, <1>6 DEF Next, PipelineRun

LEMMA SkippedIsSettled ==
    SkippedWasProcessed <=> (run.pc = "skipped" => \A t \in run.targets : Settled(run.art, run.gen, t))
BY DEF SkippedWasProcessed, Settled, Settles, Recorder

LEMMA SkippedKept ==
    ASSUME RegistryInv, OtherTypes, JobsAgree, KeysStand, SkippedWasProcessed, [Next]_vars
    PROVE  SkippedWasProcessed'
<1>1. SUFFICES ASSUME run'.pc = "skipped", NEW t \in run'.targets
               PROVE  Settled(run.art, run.gen, t)'
  BY DEF SkippedWasProcessed, Settled, Settles, Recorder
<1>2. /\ run'.targets = run.targets /\ run'.art = run.art /\ run'.gen = run.gen
      /\ run.pc = "skipped" \/ RunSkips
  BY <1>1, SkippedRun
<1>3. Settled(run.art, run.gen, t)
  <2>1. CASE run.pc = "skipped"
    BY <1>1, <1>2, <2>1, SkippedIsSettled
  <2>2. CASE RunSkips
    <3> DEFINE m == materialization_key(run.gen, run.art, t)
    <3>1. m \in mats /\ m.gen = run.gen /\ m.art = run.art /\ m.target = t
      BY <1>1, <1>2, <2>2 DEF RunSkips, Recorded, materialization_key
    <3> HIDE DEF m
    <3> QED BY <3>1 DEF KeysStand
  <2> QED BY <1>2, <2>1, <2>2
<1>4. ASSUME NEW art, NEW gen, art = run.art, gen = run.gen
      PROVE  Settled(art, gen, t)'
  <2>1. Settled(art, gen, t)
    BY <1>3, <1>4
  <2> QED BY <2>1, WrittenIsKept, SettledLater
<1> QED BY <1>2, <1>4 DEF Settled

-----------------------------------------------------------------------------
(* A file that is up to date. *)

(* A run whose sinks are all named skips a file that is up to date: it       *)
(* computes the keys the sentinel put on record.                             *)
LEMMA NamedRunSkips ==
    ASSUME OtherTypes, KeysComplete, RunAgrees, run.pc = "decide", "*" \notin DOMAIN run.sinks,
           NEW j \in DOMAIN jobs, UpToDateBy(jobs[j]), NamesNoTable(jobs[j])
    PROVE  RunSkips
<1> DEFINE c == WithDefault(run.cfg)
<1>1. run.sinks = RunSinks(c, run.known) /\ run.targets = NamedTargets(run.sinks)
  BY DEF RunAgrees
<1>2. DOMAIN c # {}
  BY DEF WithDefault
<1> HIDE DEF c
<1>3. /\ DOMAIN run.sinks = DOMAIN c
      /\ \A t \in DOMAIN c : /\ t # "*" /\ run.sinks[t].uri = c[t]
                              /\ run.sinks[t].schema = run.known[t]
  BY <1>1 DEF RunSinks, is_default_sink
<1>4. /\ jobs[j].st = "done" /\ jobs[j].art = run.art /\ jobs[j].cfg = run.cfg
      /\ jobs[j].gen = run.gen
      /\ \A t \in DOMAIN jobs[j].sinks : t # "*" /\ jobs[j].sinks[t].schema = run.known[t]
  BY DEF UpToDateBy
<1>5. Complete(jobs[j], mats) /\ jobs[j] \in JobSet
  BY DEF KeysComplete, OtherTypes
<1>6. /\ DOMAIN jobs[j].sinks = DOMAIN c
      /\ \A t \in DOMAIN c : jobs[j].sinks[t].uri = c[t]
  BY <1>3, <1>4, <1>5 DEF Complete, Sent, SinksOf, c
<1>7. ASSUME NEW t \in DOMAIN c
      PROVE  Recorded(NamedKey(run.sinks, t))
  <2>1. /\ jobs[j].sinks[t].uri = run.sinks[t].uri
        /\ jobs[j].sinks[t].schema = run.sinks[t].schema
    BY <1>3, <1>4, <1>6
  <2>2. KeyOf(jobs[j], t) \in mats
    BY <1>3, <1>4, <1>5, <1>6, NamedKeys DEF Complete
  <2> QED BY <1>4, <2>1, <2>2 DEF KeyOf, NamedKey, Recorded
<1>8. \A k \in run.targets : Recorded(k)
  BY <1>1, <1>3, <1>7 DEF NamedTargets
<1>9. run.targets # {}
  BY <1>1, <1>2, <1>3 DEF NamedTargets
<1> QED BY <1>8, <1>9 DEF RunSkips

(* Only enqueue_jobs queues the file, and not when the run skips it.         *)
LEMMA QueuedWasNotSkipped ==
    ASSUME OtherTypes, [Next]_vars, Enqueues
    PROVE  ~RunSkips
<1>0. DOMAIN run = RunFields
  BY DEF OtherTypes
<1>1. CASE enqueue_jobs
  BY <1>0, <1>1 DEF enqueue_jobs, Enqueues, RunFields
<1>2. CASE load_parser_manifest \/ load_sink_configs \/ RunTargets \/ load_file_generation
  BY <1>2 DEF load_parser_manifest, load_sink_configs, RunTargets, load_file_generation, Enqueues
<1>3. CASE Publish \/ Job \/ EditTopics \/ Edit \/ Rescan \/ UNCHANGED vars
  <2>1. run' = run
    BY <1>3 DEF Publish, Job, EditTopics, Edit, Rescan, vars,
       deploy_plugin, ImportRemove, ImportCopy, ImportManifest, ImportKilled, cmd_unpublish,
       ImportContract, load_dispatch_data, ResolveSinks, execute_job, JobStep, Concluding,
         complete_job, record_materializations_for_job, insert_output_materialization,
         RecordingEnds, RecordingFails
  <2> QED BY <2>1 DEF Enqueues
<1> QED BY <1>1, <1>2, <1>3 DEF Next, PipelineRun

-----------------------------------------------------------------------------
(* The bundles of native parsers. *)

(* Nothing but the status of rows changes, or Python rows are added.         *)
LEMMA SameBundles ==
    ASSUME InstalledBundles, RowsKept, UNCHANGED <<installed, importer, reimported>>,
           \A i \in DOMAIN manifests' \ DOMAIN manifests : manifests'[i].kind # "native"
    PROVE  InstalledBundles'
<1>1. \A i \in DOMAIN manifests' : manifests'[i].kind = "native" =>
        i \in DOMAIN manifests /\ manifests[i].kind = "native" /\ manifests'[i].req = manifests[i].req
  BY DEF RowsKept
<1> QED BY <1>1 DEF InstalledBundles

LEMMA BundlesDeploy ==
    ASSUME RegistryInv, InstalledBundles, RowsKept, NEW req \in Requests, deploy_plugin(req)
    PROVE  InstalledBundles'
<1> DEFINE rows == Append(manifests, Row(req, "python"))
<1>1. manifests \in Seq(RowSet) /\ Row(req, "python") \in RowSet /\ Row(req, "python").kind = "python"
  BY DEF RegistryInv, RegistryTypes, Row, RowSet
<1>2. /\ rows \in Seq(RowSet) /\ DOMAIN rows = DOMAIN manifests \cup {Len(manifests) + 1}
      /\ rows[Len(manifests) + 1] = Row(req, "python")
  BY <1>1
<1>3. manifests' = superseding(rows, req.version)
  BY DEF deploy_plugin
<1> HIDE DEF rows
<1>4. /\ DOMAIN manifests' = DOMAIN rows
      /\ \A i \in DOMAIN rows : manifests'[i].kind = rows[i].kind
  BY <1>2, <1>3, Superseding
<1>5. \A i \in DOMAIN manifests' \ DOMAIN manifests : manifests'[i].kind # "native"
  BY <1>1, <1>2, <1>4
<1>6. UNCHANGED <<installed, importer, reimported>>
  BY DEF deploy_plugin
<1> QED BY <1>5, <1>6, SameBundles

LEMMA BundlesRemove ==
    ASSUME RegistryInv, InstalledBundles, NEW req \in Requests, ImportRemove(req)
    PROVE  InstalledBundles'
<1>1. /\ manifests' = manifests /\ reimported' = Reimported(req.version)
      /\ installed' = [installed EXCEPT ![req.version] = None]
      /\ importer' = [pc |-> "removed", req |-> req, left |-> {}]
  BY DEF ImportRemove
<1>2. reimported \subseteq reimported' /\ importer'.pc = "removed" /\ importer'.req = req
  BY <1>1 DEF Reimported
<1>3. \A i \in DOMAIN manifests : manifests[i].kind = "native" /\ manifests[i].req.version = req.version
                                   => req.version \in reimported'
  BY <1>1 DEF Reimported
<1>4. ASSUME NEW i \in DOMAIN manifests, manifests[i].kind = "native",
             manifests[i].req.version \notin reimported'
      PROVE  installed'[manifests[i].req.version] = manifests[i].req.code
  <2>1. manifests[i].req.version # req.version
    BY <1>3, <1>4
  <2>2. manifests[i] \in RowSet
    BY DEF RegistryInv, RegistryTypes
  <2>3. manifests[i].req.version \in Versions
    BY <2>2, MaterializeAssumption DEF RowSet
  <2>4. installed'[manifests[i].req.version] = installed[manifests[i].req.version]
    BY <1>1, <2>1, <2>3 DEF RegistryInv, RegistryTypes
  <2> QED BY <1>2, <1>4, <2>4 DEF InstalledBundles
<1>5. importer'.pc \notin {"copied", "contracts"}
  BY <1>2
<1> QED BY <1>1, <1>2, <1>3, <1>4, <1>5 DEF InstalledBundles

LEMMA BundlesCopy ==
    ASSUME RegistryInv, InstalledBundles, ImportCopy
    PROVE  InstalledBundles'
<1> DEFINE v == importer.req.version
<1>1. importer \in ImporterSet /\ importer.pc = "removed" /\ importer.req \in Requests
  BY DEF ImportCopy, RegistryInv, RegistryTypes
<1>2. v \in Versions
  BY <1>1, MaterializeAssumption
<1>3. /\ importer'.pc = "copied" /\ importer'.req = importer.req
      /\ installed' = [installed EXCEPT ![v] = importer.req.code]
      /\ UNCHANGED <<manifests, reimported>>
  BY <1>1 DEF ImportCopy, ImporterSet
<1>4. /\ installed'[v] = importer.req.code
      /\ \A u \in Versions : u # v => installed'[u] = installed[u]
  BY <1>2, <1>3 DEF RegistryInv, RegistryTypes
<1>5. ASSUME NEW i \in DOMAIN manifests, manifests[i].kind = "native",
             manifests[i].req.version \notin reimported
      PROVE  installed'[manifests[i].req.version] = manifests[i].req.code
  <2>1. manifests[i].req.version # v
    BY <1>1, <1>5 DEF InstalledBundles
  <2>2. manifests[i] \in RowSet
    BY DEF RegistryInv, RegistryTypes
  <2>3. manifests[i].req.version \in Versions
    BY <2>2, MaterializeAssumption DEF RowSet
  <2> QED BY <1>4, <1>5, <2>1, <2>3 DEF InstalledBundles
<1> QED BY <1>1, <1>3, <1>4, <1>5 DEF InstalledBundles

LEMMA BundlesManifest ==
    ASSUME RegistryInv, InstalledBundles, ImportManifest
    PROVE  InstalledBundles'
<1>1. importer \in ImporterSet /\ importer.pc = "copied" /\ importer.req \in Requests
  BY DEF ImportManifest, RegistryInv, RegistryTypes
<1>2. UNCHANGED <<installed, reimported>>
  BY DEF ImportManifest
<1>3. CASE Unique(importer.req, "native")
  <2> DEFINE n == Len(manifests) + 1
  <2>1. manifests' = Append(manifests, Row(importer.req, "native")) /\ manifests \in Seq(RowSet)
    BY <1>3 DEF ImportManifest, RegistryInv, RegistryTypes
  <2>2. /\ DOMAIN manifests' = DOMAIN manifests \cup {n} /\ RowsKept
        /\ manifests'[n] = Row(importer.req, "native")
    BY <1>1, <1>3, <2>1, AddRow DEF RegistryInv
  <2>3. importer'.pc = "contracts" /\ importer'.req = importer.req
    BY <1>1, <1>3 DEF ImportManifest, ImporterSet
  <2>4. manifests'[n].req = importer.req /\ installed[importer.req.version] = importer.req.code
    BY <1>1, <2>2 DEF Row, InstalledBundles
  <2> HIDE DEF n
  <2>5. ASSUME NEW i \in DOMAIN manifests', manifests'[i].kind = "native",
               manifests'[i].req.version \notin reimported
        PROVE  installed[manifests'[i].req.version] = manifests'[i].req.code
    <3>1. CASE i = n
      BY <2>4, <3>1
    <3>2. CASE i \in DOMAIN manifests
      BY <2>2, <2>5, <3>2 DEF RowsKept, InstalledBundles
    <3> QED BY <2>2, <3>1, <3>2
  <2> QED BY <1>2, <2>3, <2>4, <2>5 DEF InstalledBundles
<1>4. CASE ~Unique(importer.req, "native")
  <2>1. importer' = Idle /\ manifests' = manifests
    BY <1>4 DEF ImportManifest
  <2>2. importer'.pc = "idle"
    BY <2>1 DEF Idle
  <2> QED BY <1>2, <2>1, <2>2 DEF InstalledBundles
<1> QED BY <1>3, <1>4

LEMMA BundlesContract ==
    ASSUME RegistryInv, InstalledBundles, NEW o \in Outputs, ImportContract(o)
    PROVE  InstalledBundles'
<1>1. UNCHANGED <<manifests, installed, reimported>> /\ importer.pc = "contracts"
  BY DEF ImportContract
<1>2. CASE importer' = Idle
  <2>1. importer'.pc = "idle"
    BY <1>2 DEF Idle
  <2> QED BY <1>1, <2>1 DEF InstalledBundles
<1>3. CASE importer' = [importer EXCEPT !.left = importer.left \ {o}]
  <2>1. importer'.pc = importer.pc /\ importer'.req = importer.req
    BY <1>3 DEF RegistryInv, RegistryTypes, ImporterSet
  <2> QED BY <1>1, <2>1 DEF InstalledBundles
<1> QED BY <1>2, <1>3 DEF ImportContract

LEMMA BundlesKept ==
    ASSUME RegistryInv, InstalledBundles, RowsKept, [Next]_vars
    PROVE  InstalledBundles'
<1>1. CASE Publish
  <2>1. CASE ImportKilled
    <3>1. importer'.pc = "idle" /\ UNCHANGED <<manifests, installed, reimported>>
      BY <2>1 DEF ImportKilled, Idle
    <3> QED BY <3>1 DEF InstalledBundles
  <2>2. CASE cmd_unpublish
    <3>1. DOMAIN manifests' = DOMAIN manifests /\ UNCHANGED <<installed, importer, reimported>>
      BY <2>2 DEF cmd_unpublish
    <3> QED BY <3>1, SameBundles
  <2> QED BY <1>1, <2>1, <2>2, BundlesDeploy, BundlesRemove, BundlesCopy, BundlesManifest,
             BundlesContract DEF Publish
<1>2. CASE PipelineRun \/ Job \/ EditTopics \/ Edit \/ Rescan \/ UNCHANGED vars
  <2>1. UNCHANGED <<manifests, installed, importer, reimported>>
    BY <1>2 DEF PipelineRun, Job, EditTopics, Edit, Rescan, vars, registry,
         load_parser_manifest, load_sink_configs, RunTargets, load_file_generation, enqueue_jobs,
         load_dispatch_data, ResolveSinks, execute_job, JobStep, Concluding,
         complete_job, record_materializations_for_job, insert_output_materialization,
         RecordingEnds, RecordingFails
  <2> QED BY <2>1 DEF InstalledBundles
<1> QED BY <1>1, <1>2 DEF Next

LEMMA RegisteredKept ==
    ASSUME RegistryInv, OtherTypes, JobsAgree, JobsAreRegistered, RowsKept, [Next]_vars
    PROVE  JobsAreRegistered'
<1> DEFINE Reg(J) == Dispatched(J) /\ J.kind = "native" =>
                       \E i \in DOMAIN manifests : manifests[i].kind = "native" /\ manifests[i].req = J.art
           RegLater(J) == Dispatched(J) /\ J.kind = "native" =>
                       \E i \in DOMAIN manifests' : manifests'[i].kind = "native" /\ manifests'[i].req = J.art
<1>1. ASSUME NEW J, Reg(J)
      PROVE  RegLater(J)
  BY <1>1 DEF RowsKept
<1>2. \A j \in DOMAIN jobs : Reg(jobs[j])
  BY DEF JobsAreRegistered
<1>3. Reg(Queued) /\ Reg(Failed)
  BY NewJobs DEF Dispatched
<1>4. ASSUME \A j \in DOMAIN jobs' : Reg(jobs'[j])
      PROVE  JobsAreRegistered'
  <2>1. \A j \in DOMAIN jobs' : RegLater(jobs'[j])
    BY <1>1, <1>4
  <2> QED BY <2>1 DEF JobsAreRegistered, Dispatched
<1>5. CASE ~Job
  <2>1. \A j \in DOMAIN jobs' : Reg(jobs'[j])
    <3> HIDE DEF Reg
    <3> QED BY <1>2, <1>3, <1>5, OutsideJobs DEF NoJobMoves
  <2> QED BY <1>4, <2>1
<1>6. CASE Job
  <2>1. PICK j \in DOMAIN jobs : JobStep(j)
    BY <1>6 DEF Job, JobStep, Concluding
  <2>2. JobChange(j)
    BY <2>1, JobStepChange
  <2>3. Reg(jobs'[j])
    <3>1. CASE load_dispatch_data(j)
      <4>1. Loaded(j)
        BY <3>1, LoadStep
      <4> QED BY <1>3, <4>1 DEF Loaded
    <3>2. CASE ResolveSinks(j)
      <4>1. Resolved(j) /\ jobs[j].st = "loaded"
        BY <3>2, ResolveStep DEF ResolveSinks
      <4> QED BY <1>2, <4>1 DEF Resolved, Dispatched
    <3>3. CASE execute_job(j)
      <4>1. Executed(j) /\ jobs[j].st = "sent"
        BY <3>3, ExecuteStep DEF execute_job
      <4>2. CASE jobs'[j] = Failed
        BY <1>3, <4>2
      <4>3. CASE SameJob(jobs'[j], jobs[j])
        BY <1>2, <4>1, <4>3 DEF SameJob, Dispatched
      <4> QED BY <4>1, <4>2, <4>3 DEF Executed
    <3>4. CASE Concluding(j)
      <4>1. SameJob(jobs'[j], jobs[j]) /\ Wrote(jobs[j])
        BY <3>4, ConcludeStep DEF Concluded
      <4> QED BY <1>2, <4>1 DEF SameJob, Dispatched, Wrote
    <3>5. CASE insert_output_materialization(j)
      BY <1>2, <3>5, InsertStep
    <3> QED BY <2>1, <3>1, <3>2, <3>3, <3>4, <3>5 DEF JobStep
  <2>4. \A i \in DOMAIN jobs' : Reg(jobs'[i])
    <3> HIDE DEF Reg
    <3> QED BY <1>2, <2>2, <2>3 DEF JobChange
  <2> QED BY <1>4, <2>4
<1> QED BY <1>5, <1>6

(* Versions imported again stay so.                                          *)
LEMMA ReimportedGrows ==
    ASSUME [Next]_vars
    PROVE  reimported \subseteq reimported'
<1>1. CASE \E req \in Requests : ImportRemove(req)
  BY <1>1 DEF ImportRemove, Reimported
<1>2. CASE ~\E req \in Requests : ImportRemove(req)
  <2>1. reimported' = reimported
    BY <1>2 DEF Next, Publish, PipelineRun, Job, deploy_plugin, ImportCopy, ImportManifest,
       ImportKilled, cmd_unpublish, ImportContract, EditTopics, Edit, Rescan, vars, registry,
       load_parser_manifest, load_sink_configs, RunTargets, load_file_generation, enqueue_jobs,
       load_dispatch_data, ResolveSinks, execute_job, JobStep, Concluding,
         complete_job, record_materializations_for_job, insert_output_materialization,
         RecordingEnds, RecordingFails
  <2> QED BY <2>1
<1> QED BY <1>1, <1>2

LEMMA NativeKept ==
    ASSUME RegistryInv, OtherTypes, JobsAgree, InstalledBundles, JobsAreRegistered,
           NativeRunsItsBundle, [Next]_vars
    PROVE  NativeRunsItsBundle'
<1>1. SUFFICES ASSUME NEW w \in written', w.art.version \notin reimported'
               PROVE  w.ran = w.art.code
  BY DEF NativeRunsItsBundle
<1>2. w.art.version \notin reimported
  BY <1>1, ReimportedGrows
<1>3. CASE w \in written
  BY <1>2, <1>3 DEF NativeRunsItsBundle
<1>4. CASE w \notin written
  <2>1. PICK j \in DOMAIN jobs :
           jobs[j].st = "sent" /\ FactOf(w, j, jobs[j], jobs'[j].tables)
    BY <1>4, NewFacts
  <2>2. w.art = jobs[j].art /\ w.ran = Ran(jobs[j])
    BY <2>1 DEF FactOf
  <2>3. CASE jobs[j].kind # "native"
    BY <2>2, <2>3 DEF Ran
  <2>4. CASE jobs[j].kind = "native"
    <3>1. PICK i \in DOMAIN manifests : manifests[i].kind = "native" /\ manifests[i].req = jobs[j].art
      BY <2>1, <2>4 DEF JobsAreRegistered, Dispatched
    <3>2. installed[w.art.version] = w.art.code
      BY <1>2, <2>2, <3>1 DEF InstalledBundles
    <3> QED BY <2>2, <2>4, <3>2 DEF Ran
  <2> QED BY <2>3, <2>4
<1> QED BY <1>3, <1>4

-----------------------------------------------------------------------------
(* The theorems. *)

LEMMA InvInit == Init => Inv
<1> SUFFICES ASSUME Init
             PROVE  Inv
  OBVIOUS
<1>1. manifests = <<>> /\ jobs = <<>> /\ DOMAIN manifests = {} /\ DOMAIN jobs = {}
  BY DEF Init
<1>2. importer.pc = "idle" /\ importer.left = {} /\ importer \in ImporterSet
  BY DEF Init, Idle, ImporterSet
<1>3. contracts \in [Versions -> ContractSet] /\ installed \in [Versions -> Codes \cup {None}]
  BY DEF Init, ContractSet
<1>4. RegistryTypes
  BY <1>1, <1>2, <1>3 DEF RegistryTypes
<1>5. OtherTypes
  <2>1. DOMAIN run = RunFields /\ run.pc \in RunStates
    BY DEF Init, NoRun, RunFields, RunStates
  <2>2. jobs \in Seq(JobSet) /\ Len(jobs) <= MaxJobs
    BY <1>1, MaterializeAssumption
  <2> QED BY <2>1, <2>2, MaterializeAssumption DEF Init, OtherTypes
<1>6. OneRowPerCode /\ OneNativeRowPerVersion /\ JobsAgree /\ OutputsWritten /\ JobsAreRegistered
  BY <1>1 DEF OneRowPerCode, OneNativeRowPerVersion, JobsAgree, OutputsWritten, JobsAreRegistered
<1>7. InstalledBundles
  BY <1>1, <1>2 DEF InstalledBundles
<1>8. KeysStand /\ NamedSinksAreChecked /\ NativeRunsItsBundle
  BY DEF Init, KeysStand, NamedSinksAreChecked, NativeRunsItsBundle
<1>9. SkippedWasProcessed
  <2>1. run.pc = "idle"
    BY DEF Init, NoRun
  <2> QED BY <2>1 DEF SkippedWasProcessed
<1>10. KeysComplete /\ RunAgrees
  <2>1. run.pc = "idle"
    BY DEF Init, NoRun
  <2> QED BY <1>1, <2>1 DEF KeysComplete, RunAgrees
<1> QED BY <1>4, <1>5, <1>6, <1>7, <1>8, <1>9, <1>10 DEF Inv

LEMMA InvNext == Inv /\ [Next]_vars => Inv' /\ ContractsKept
<1> SUFFICES ASSUME Inv, [Next]_vars
             PROVE  Inv' /\ ContractsKept
  OBVIOUS
<1>1. /\ RegistryInv /\ OtherTypes /\ JobsAgree /\ OutputsWritten /\ KeysStand
      /\ InstalledBundles /\ JobsAreRegistered /\ KeysComplete /\ RunAgrees
      /\ NamedSinksAreChecked /\ SkippedWasProcessed /\ NativeRunsItsBundle
  BY DEF Inv, RegistryInv
<1>2. RegistryStep
  BY <1>1, RegistryKept
<1>3. RegistryTypes' /\ OneRowPerCode' /\ OneNativeRowPerVersion' /\ ContractsKept /\ RowsKept
  BY <1>2 DEF RegistryStep, RegistryInv
<1>4. OtherTypes' /\ JobsAgree' /\ OutputsWritten' /\ KeysStand'
  BY <1>1, <1>3, OtherTypesKept, JobsAgreeKept, OutputsWrittenKept, KeysStandKept
<1>5. InstalledBundles' /\ JobsAreRegistered'
  BY <1>1, <1>3, BundlesKept, RegisteredKept
<1>6. NamedSinksAreChecked' /\ SkippedWasProcessed' /\ NativeRunsItsBundle'
  BY <1>1, NamedSinksKept, SkippedKept, NativeKept
<1>7. KeysComplete' /\ RunAgrees'
  BY <1>1, KeysCompleteKept, RunAgreesKept
<1> QED BY <1>3, <1>4, <1>5, <1>6, <1>7 DEF Inv

(* The registry, the jobs, the keys on record and what was written agree in  *)
(* every state, for any publications, sink configurations and bounds.        *)
THEOREM MaterializeInvariant == Spec => []Inv
<1>1. Inv /\ [Next]_vars => Inv'
  BY InvNext
<1> QED BY InvInit, <1>1, PTL DEF Spec

(* Every variable keeps its type, an import that registers contracts has     *)
(* some left, and no two rows of a parser have the same code.                *)
THEOREM MaterializeTypeOK == Spec => []TypeOK
<1>1. Inv => TypeOK
  <2> SUFFICES ASSUME Inv
               PROVE  TypeOK
    OBVIOUS
  <2>1. \A i \in DOMAIN manifests :
          /\ manifests[i].req \in Requests
          /\ manifests[i].kind \in {"python", "native"}
          /\ manifests[i].status \in {"ACTIVE", "SUPERSEDED"}
          /\ \A k \in DOMAIN manifests \ {i} : manifests[k].req.code # manifests[i].req.code
    <3>1. manifests \in Seq(RowSet)
      BY DEF Inv, RegistryTypes
    <3>2. \A i \in DOMAIN manifests : manifests[i] \in RowSet
      BY <3>1
    <3>3. \A i \in DOMAIN manifests :
            /\ manifests[i].req \in Requests
            /\ manifests[i].kind \in {"python", "native"}
            /\ manifests[i].status \in {"ACTIVE", "SUPERSEDED"}
      BY <3>2 DEF RowSet
    <3> QED BY <3>3 DEF Inv, OneRowPerCode
  <2>2. contracts \in [Versions -> [Outputs -> Schemas \cup {None}]]
    BY DEF Inv, RegistryTypes, ContractSet
  <2>3. importer.pc \in {"idle", "removed", "copied", "contracts"}
    BY DEF Inv, RegistryTypes, ImporterSet
  <2>4. \A j \in DOMAIN jobs :
          jobs[j].st \in {"queued", "loaded", "sent", "written", "completed", "recording",
                          "done", "unrecorded", "failed"}
    <3>1. jobs \in Seq(JobSet)
      BY DEF Inv, OtherTypes
    <3>2. \A j \in DOMAIN jobs : jobs[j] \in JobSet
      BY <3>1
    <3> QED BY <3>2 DEF JobSet, JobStates
  <2>5. /\ disk \in 0..changes /\ changes \in 0..MaxChanges /\ row \in 0..disk
        /\ installed \in [Versions -> Codes \cup {None}]
        /\ topics \in TopicConfigs /\ topic_map \in TopicConfigs
        /\ importer.pc = "contracts" <=> importer.left # {}
        /\ run.pc \in {"idle", "sinks", "targets", "generation", "decide", "queued", "skipped"}
        /\ Len(jobs) <= MaxJobs
    BY DEF Inv, RegistryTypes, OtherTypes, RunStates
  <2> QED BY <2>1, <2>2, <2>3, <2>4, <2>5 DEF TypeOK
<1> QED BY <1>1, MaterializeInvariant, PTL

(* However deployments, imports, crashes and withdrawals interleave, the     *)
(* approved contract of an output at a version is never changed or removed   *)
(* (save_contract and its UNIQUE constraint).                                *)
THEOREM MaterializeContracts == Spec => ContractsNeverChange
<1>1. Inv /\ [Next]_vars => [\A v \in Versions, o \in Outputs :
         contracts[v][o] # None => contracts'[v][o] = contracts[v][o]]_vars
  BY InvNext DEF ContractsKept
<1> QED BY <1>1, MaterializeInvariant, PTL DEF Spec, ContractsNeverChange

(* What a job writes through a sink of the output's own name has the columns *)
(* of the contract the version had at dispatch (ResolveSinks, execute_job).  *)
THEOREM MaterializeNamedSinks == Spec => []NamedSinksAreChecked
<1>1. Inv => NamedSinksAreChecked
  BY DEF Inv
<1> QED BY <1>1, MaterializeInvariant, PTL

(* A pipeline run skips a file only if the targets it computed were all      *)
(* settled by jobs that concluded for the same artifact and generation.      *)
THEOREM MaterializeSkips == Spec => []SkippedWasProcessed
<1>1. Inv => SkippedWasProcessed
  BY DEF Inv
<1> QED BY <1>1, MaterializeInvariant, PTL

(* With every sink named and a parser that names no table, a file that is up *)
(* to date is not queued again, in whatever order the registry, the          *)
(* configuration and the file changed before: the keys the pipeline computes *)
(* for its run, their tables included, are those the sentinel put on record  *)
(* from the receipt (output_target_keys_for_sinks, MaterializedKeys).        *)
THEOREM MaterializeUpToDate == Spec => NamedUpToDateIsSkipped
<1>1. Inv /\ [Next]_vars =>
        [Enqueues /\ "*" \notin DOMAIN run.sinks =>
           \A j \in DOMAIN jobs : UpToDateBy(jobs[j]) => ~NamesNoTable(jobs[j])]_vars
  <2> SUFFICES ASSUME Inv, [Next]_vars, Enqueues, "*" \notin DOMAIN run.sinks,
                      NEW j \in DOMAIN jobs, UpToDateBy(jobs[j]), NamesNoTable(jobs[j])
               PROVE  FALSE
    OBVIOUS
  <2>1. RunSkips
    BY NamedRunSkips DEF Inv, Enqueues
  <2>2. ~RunSkips
    BY QueuedWasNotSkipped DEF Inv
  <2> QED BY <2>1, <2>2
<1> QED BY <1>1, MaterializeInvariant, PTL DEF Spec, NamedUpToDateIsSkipped

(* A job runs the code it was registered with, except for versions that were *)
(* imported again after they were installed (cmd_import).                    *)
THEOREM MaterializeNativeBundle == Spec => []NativeRunsItsBundle
<1>1. Inv => NativeRunsItsBundle
  BY DEF Inv
<1> QED BY <1>1, MaterializeInvariant, PTL
=============================================================================
