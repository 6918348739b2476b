------------------------------ MODULE Artifacts ------------------------------
(***************************************************************************)
(* Files between programs: `make data` writes the corpus, one table per    *)
(* kind of link; `make train` reads it and writes five model artifacts one *)
(* after the other; the infer service reads these one after the other when *)
(* it starts, and never again.  A write truncates its file first, and any  *)
(* of the programs may be killed at any point.  The operator runs one job  *)
(* at a time, and starts the service whenever he likes.                    *)
(***************************************************************************)
EXTENDS Integers, Sequences, FiniteSets, Functions

CONSTANTS
  Services,  \* processes of the infer service
  MaxRuns    \* bound on jobs

ASSUME ArtifactsAssumption == MaxRuns \in Nat

\* cmd_generate's buckets, in the order they are written.
Stems == <<"nominal", "soft_fail", "los">>

\* Mutant: the head, which is small, is saved first.
SaveOrderHeadFirst == <<"horizon", "iforest", "weights", "meta", "scaler">>

\* The order train() saves the artifacts in, and the one the loaders use.
SaveOrder == <<"iforest", "weights", "meta", "scaler", "horizon">>
LoadOrder == <<"iforest", "meta", "weights", "scaler", "horizon">>

Names == Range(LoadOrder)

\* A file by the job that wrote it last; 0 if there is none.
Absent      == [by |-> 0, whole |-> FALSE]
Exists(f)   == f.by # 0

VARIABLES
  table,     \* format -> stem -> the corpus file
  artifact,  \* name -> the model file
  job,       \* "idle", "generate" or "train"
  step,      \* the file the job is at
  format,    \* what _write_table is writing this table as
  runs,      \* jobs started so far; names the current one
  service,   \* service -> "down", "loading" or "serving"
  pipeline,  \* service -> the jobs that wrote what it loaded, in LoadOrder
  begun, completed,  \* the last training that saved something, and that ended
  read,      \* the jobs whose tables were read for training, since they changed
  cut,       \* whether a generation was killed or fell back for some of its
             \* tables only, and nothing has replaced it
  since, until   \* service -> begun at both ends of its loading; `since` is
                 \* 0 if that training had not completed

jobVars     == <<job, step, format, runs>>
historyVars == <<begun, completed, read, cut>>
serviceVars == <<service, pipeline, since, until>>
vars == <<table, artifact, jobVars, historyVars, serviceVars>>

Init ==
  /\ table = [k \in {"parquet", "csv"} |-> [s \in Range(Stems) |-> Absent]]
  /\ artifact = [n \in Names |-> Absent]
  /\ job = "idle" /\ step = 0 /\ format = "parquet" /\ runs = 0
  /\ begun = 0 /\ completed = 0 /\ read = {} /\ cut = FALSE
  /\ service = [s \in Services |-> "down"]
  /\ pipeline = [s \in Services |-> << >>]
  /\ since = [s \in Services |-> 0] /\ until = [s \in Services |-> 0]
-----------------------------------------------------------------------------
(* Jobs *)

Start(what) ==
  /\ job = "idle" /\ runs < MaxRuns
  /\ job' = what /\ step' = 1 /\ runs' = runs + 1

Idle == job' = "idle" /\ step' = 0

\* Every write opens and truncates the file, then fills it.
Opened  == [by |-> runs, whole |-> FALSE]
Written == [by |-> runs, whole |-> TRUE]

StartGenerate ==
  /\ Start("generate")
  /\ format' = "parquet"
  /\ read' = {}
  /\ UNCHANGED <<table, artifact, begun, completed, cut, serviceVars>>

\* _write_table, which tries Parquet first for every table.
WriteTable ==
  LET stem == Stems[step] IN
  /\ job = "generate" /\ step <= Len(Stems)
  /\ \/ /\ table[format][stem].by # runs
        /\ table' = [table EXCEPT ![format][stem] = Opened]
        /\ UNCHANGED <<step, format>>
     \/ /\ table[format][stem] = Opened
        /\ table' = [table EXCEPT ![format][stem] = Written]
        /\ step' = step + 1 /\ format' = "parquet"
  /\ UNCHANGED <<artifact, job, runs, historyVars, serviceVars>>

\* to_parquet raises, before it has opened its file or after: the file stays
\* as it is, truncated or not, or was removed.  The table becomes a CSV file.
FallBack ==
  LET stem == Stems[step] IN
  /\ job = "generate" /\ step <= Len(Stems) /\ format = "parquet"
  /\ format' = "csv"
  /\ \/ UNCHANGED table
     \/ /\ table["parquet"][stem] = Opened
        /\ table' = [table EXCEPT !["parquet"][stem] = Absent]
  /\ UNCHANGED <<artifact, job, step, runs, historyVars, serviceVars>>

\* The tables this generation wrote as Parquet.
InParquet == {s \in Range(Stems) : table["parquet"][s] = Written}

EndGenerate ==
  /\ job = "generate" /\ step > Len(Stems)
  /\ Idle
  /\ cut' = CASE InParquet = Range(Stems) -> FALSE
              [] InParquet = {}           -> cut
              [] OTHER                    -> TRUE
  /\ UNCHANGED <<table, artifact, format, runs, begun, completed, read, serviceVars>>

\* make distclean: the corpus is removed.
Clean ==
  /\ job = "idle"
  /\ table' = [k \in DOMAIN table |-> [s \in Range(Stems) |-> Absent]]
  /\ read' = {} /\ cut' = FALSE
  /\ UNCHANGED <<artifact, jobVars, begun, completed, serviceVars>>

Found(k) == {table[k][s] : s \in {t \in Range(Stems) : Exists(table[k][t])}}

\* Mutant: everything that is there.
CorpusOfBoth == Found("parquet") \union Found("csv")

\* load_corpus: the Parquet files if there is one, or else the CSV files; none
\* means the sample CSV, which is part of the repository.
Corpus == IF Found("parquet") # {} THEN Found("parquet") ELSE Found("csv")

\* train() up to the first save.  A Parquet file that is not whole, or a
\* corpus with too few nominal windows, ends it before it changes anything; a
\* CSV file may be read as far as it goes.
StartTrain ==
  /\ Start("train")
  /\ \A f \in Found("parquet") : f.whole
  /\ begun' = runs + 1
  /\ read' = {f.by : f \in Corpus}
  /\ UNCHANGED <<table, artifact, format, completed, cut, serviceVars>>

\* Mutant: a file that is already there is kept.
SaveArtifactOnce ==
  LET n == SaveOrder[step] IN
  /\ job = "train" /\ step <= Len(SaveOrder)
  /\ step' = step + 1
  /\ artifact' = IF Exists(artifact[n]) THEN artifact ELSE [artifact EXCEPT ![n] = Written]
  /\ UNCHANGED <<table, job, format, runs, historyVars, serviceVars>>

\* The next of IsolationForestScorer.save, AutoencoderScorer.save (three
\* files) and HorizonHead.save.
SaveArtifact ==
  LET n == SaveOrder[step] IN
  /\ job = "train" /\ step <= Len(SaveOrder)
  /\ \/ artifact[n].by # runs /\ artifact' = [artifact EXCEPT ![n] = Opened]
        /\ UNCHANGED step
     \/ artifact[n] = Opened /\ artifact' = [artifact EXCEPT ![n] = Written]
        /\ step' = step + 1
  /\ UNCHANGED <<table, job, format, runs, historyVars, serviceVars>>

ArtifactsPresent == \A n \in Names : Exists(artifact[n])

\* Mutant: it ends with the head still to be saved.
EndTrainEarly ==
  /\ job = "train" /\ step > Len(SaveOrder) - 1 /\ ArtifactsPresent
  /\ Idle
  /\ completed' = runs
  /\ UNCHANGED <<table, artifact, format, runs, begun, read, cut, serviceVars>>

\* The report is written, and train() checks what it leaves.
EndTrain ==
  /\ job = "train" /\ step > Len(SaveOrder) /\ ArtifactsPresent
  /\ Idle
  /\ completed' = runs
  /\ UNCHANGED <<table, artifact, format, runs, begun, read, cut, serviceVars>>

Kill ==
  /\ job # "idle"
  /\ Idle
  /\ cut' = (cut \/ job = "generate")
  /\ UNCHANGED <<table, artifact, format, runs, begun, completed, read, serviceVars>>
-----------------------------------------------------------------------------
(* InferRunner.run and ScoringPipeline.load *)

\* Missing artifacts end the service at once.
StartService(s) ==
  /\ service[s] = "down" /\ ArtifactsPresent
  /\ service' = [service EXCEPT ![s] = "loading"]
  /\ since' = [since EXCEPT ![s] = IF completed = begun THEN begun ELSE 0]
  /\ UNCHANGED <<table, artifact, jobVars, historyVars, pipeline, until>>

NextFile(s) == artifact[LoadOrder[Len(pipeline[s]) + 1]]

\* Each part of the pipeline is read from its file.
Load(s) ==
  /\ service[s] = "loading" /\ NextFile(s).whole
  /\ pipeline' = [pipeline EXCEPT ![s] = Append(@, NextFile(s).by)]
  /\ IF Len(pipeline[s]) + 1 = Len(LoadOrder)
       THEN /\ service' = [service EXCEPT ![s] = "serving"]
            /\ until' = [until EXCEPT ![s] = begun]
       ELSE UNCHANGED <<service, until>>
  /\ UNCHANGED <<table, artifact, jobVars, historyVars, since>>

\* _PIPELINE goes with its process, and is set in no other way.
Down(s) ==
  /\ service' = [service EXCEPT ![s] = "down"]
  /\ pipeline' = [pipeline EXCEPT ![s] = << >>]
  /\ since' = [since EXCEPT ![s] = 0] /\ until' = [until EXCEPT ![s] = 0]
  /\ UNCHANGED <<table, artifact, jobVars, historyVars>>

\* A truncated file raises an exception, and the service ends.
LoadFails(s) == service[s] = "loading" /\ ~NextFile(s).whole /\ Down(s)

StopService(s) == service[s] # "down" /\ Down(s)
-----------------------------------------------------------------------------
Job == \/ StartGenerate \/ WriteTable \/ FallBack \/ EndGenerate \/ Clean
       \/ StartTrain \/ SaveArtifact \/ EndTrain \/ Kill
Service(s) == StartService(s) \/ Load(s) \/ LoadFails(s) \/ StopService(s)

Next == Job \/ \E s \in Services : Service(s)

Spec == Init /\ [][Next]_vars
-----------------------------------------------------------------------------
(* Properties *)

\* A service that loaded while no training was saving, nor had been killed
\* while saving, scores with the five artifacts of one training, the last one.
PipelineIsOneTraining ==
  \A s \in Services :
    (service[s] = "serving" /\ since[s] # 0 /\ since[s] = until[s])
      => Range(pipeline[s]) = {since[s]}

\* A training that ends leaves five whole artifacts of its own, whatever an
\* earlier one that was killed has left behind.
TrainingLeavesItsOwn ==
  (completed = begun /\ begun # 0) => \A n \in Names : artifact[n] = [by |-> begun, whole |-> TRUE]

\* demo.sh looks for horizon.json only before it starts the services: that is
\* enough, also after a training that was killed, as the head is saved last.
HeadMeansAll == Exists(artifact["horizon"]) => ArtifactsPresent

\* A training never learns from tables of two generations, although old
\* Parquet files, all of them or those that are left, hide new CSV files: unless
\* a generation was killed half way or fell back for some of its tables only,
\* and the corpus was neither removed nor written anew as Parquet since.
CorpusIsOneGeneration == ~cut => Cardinality(read) <= 1
=============================================================================
