--------------------------- MODULE ArtifactsProofs ---------------------------
(***************************************************************************)
(* What a training leaves behind, what a service loads and what a training *)
(* reads, for any number of jobs and services.  Each holds together with   *)
(* how far the job has come: what a training has saved is its own and the  *)
(* head comes last; what a generation has written is its own.              *)
(***************************************************************************)
EXTENDS Artifacts, FiniteSetTheorems, TLAPS

JobsTypeOK ==
  /\ artifact \in [Names -> [by : Nat, whole : BOOLEAN]]
  /\ job \in {"idle", "generate", "train"}
  /\ {step, runs, begun, completed} \subseteq Nat
  /\ completed <= begun /\ begun <= runs

\* A training that is saving has not completed, is the last one, and has
\* written every file before the one it is at.
SavedSoFar ==
  job = "train" =>
    /\ step \in 1 .. 6 /\ begun = runs /\ completed # begun
    /\ \A i \in 1 .. 5 : i < step => artifact[SaveOrder[i]] = Written

TrainingInv == JobsTypeOK /\ SavedSoFar /\ HeadMeansAll /\ TrainingLeavesItsOwn

trainingVars == <<artifact, job, step, runs, begun, completed>>

-----------------------------------------------------------------------------
\* The files that are saved are the files that are loaded, and the head is
\* the last of them.
LEMMA NamesAreSaved ==
  /\ Len(SaveOrder) = 5
  /\ SaveOrder[5] = "horizon"
  /\ Names = {SaveOrder[i] : i \in 1 .. 5}
  /\ \A i, j \in 1 .. 5 : SaveOrder[i] = SaveOrder[j] => i = j
<1>1. /\ SaveOrder[1] = "iforest" /\ SaveOrder[2] = "weights" /\ SaveOrder[3] = "meta"
      /\ SaveOrder[4] = "scaler" /\ SaveOrder[5] = "horizon" /\ Len(SaveOrder) = 5
  BY DEF SaveOrder
<1>2. Names = {"iforest", "meta", "weights", "scaler", "horizon"}
  <2>1. DOMAIN LoadOrder = 1 .. 5
    BY DEF LoadOrder
  <2>2. /\ LoadOrder[1] = "iforest" /\ LoadOrder[2] = "meta" /\ LoadOrder[3] = "weights"
        /\ LoadOrder[4] = "scaler" /\ LoadOrder[5] = "horizon"
    BY DEF LoadOrder
  <2>3. \A i \in 1 .. 5 : i = 1 \/ i = 2 \/ i = 3 \/ i = 4 \/ i = 5
    OBVIOUS
  <2>4. 1 \in 1 .. 5 /\ 2 \in 1 .. 5 /\ 3 \in 1 .. 5 /\ 4 \in 1 .. 5 /\ 5 \in 1 .. 5
    OBVIOUS
  <2>. QED  BY <2>1, <2>2, <2>3, <2>4 DEF Names, Range
<1>3. \A i \in 1 .. 5 : i = 1 \/ i = 2 \/ i = 3 \/ i = 4 \/ i = 5
  OBVIOUS
<1>4. 1 \in 1 .. 5 /\ 2 \in 1 .. 5 /\ 3 \in 1 .. 5 /\ 4 \in 1 .. 5 /\ 5 \in 1 .. 5
  OBVIOUS
<1>5. Names = {SaveOrder[i] : i \in 1 .. 5}
  BY <1>1, <1>2, <1>3, <1>4
<1>6. \A i, j \in 1 .. 5 : SaveOrder[i] = SaveOrder[j] => i = j
  BY <1>1, <1>3
<1>. QED  BY <1>1, <1>5, <1>6

LEMMA TrainingInvInit == Init => TrainingInv
BY NamesAreSaved DEF Init, TrainingInv, JobsTypeOK, SavedSoFar, HeadMeansAll,
   TrainingLeavesItsOwn, Absent, Exists, ArtifactsPresent

\* Most actions leave the artifacts and the training alone.
LEMMA TrainingUndisturbed ==
  TrainingInv /\ UNCHANGED trainingVars => TrainingInv'
BY DEF TrainingInv, trainingVars, JobsTypeOK, SavedSoFar, HeadMeansAll, TrainingLeavesItsOwn,
   Written, Exists, ArtifactsPresent

\* One write of a training, which opens its file or fills it.
LEMMA SaveKeepsTrainingInv ==
  ASSUME TrainingInv, SaveArtifact
  PROVE  TrainingInv'
<1>. DEFINE n == SaveOrder[step]
<1>1. /\ job = "train" /\ step \in 1 .. 5 /\ n \in Names
      /\ UNCHANGED <<job, runs, begun, completed>>
  BY NamesAreSaved DEF SaveArtifact, TrainingInv, SavedSoFar, historyVars
<1>2. /\ begun = runs /\ completed # begun
      /\ runs \in Nat /\ runs # 0
  BY <1>1 DEF TrainingInv, SavedSoFar, JobsTypeOK
<1>3. PICK f \in {Opened, Written} :
        /\ artifact' = [artifact EXCEPT ![n] = f]
        /\ step' = step \/ (f = Written /\ step' = step + 1)
  BY DEF SaveArtifact
<1>4. f \in [by : Nat, whole : BOOLEAN] /\ f.by = runs
  <2>1. CASE f = Opened
    BY <1>2, <2>1 DEF Opened
  <2>2. CASE f = Written
    BY <1>2, <2>2 DEF Written
  <2>. QED  BY <2>1, <2>2
<1>5. JobsTypeOK'
  BY <1>1, <1>3, <1>4 DEF TrainingInv, JobsTypeOK
<1>6. \A m \in Names : artifact'[m] = IF m = n THEN f ELSE artifact[m]
  BY <1>3 DEF TrainingInv, JobsTypeOK
<1>7. SavedSoFar'
  <2>1. ASSUME NEW i \in 1 .. 5, i < step'
        PROVE  artifact'[SaveOrder[i]] = Written
    <3>1. CASE i < step
      BY <1>1, <1>6, <3>1, NamesAreSaved DEF TrainingInv, SavedSoFar
    <3>2. CASE ~(i < step)
      BY <1>1, <1>3, <1>6, <2>1, <3>2
    <3>. QED  BY <3>1, <3>2
  <2>. QED  BY <1>1, <1>2, <1>3, <2>1 DEF SavedSoFar, Written
<1>8. HeadMeansAll'
  <2>1. ASSUME Exists(artifact'["horizon"]), NEW m \in Names
        PROVE  Exists(artifact'[m])
    <3>1. CASE m = n
      BY <1>2, <1>4, <1>6, <3>1 DEF Exists
    <3>2. CASE m # n /\ step = 5
      <4>1. PICK i \in 1 .. 5 : m = SaveOrder[i] /\ i < step
        BY <3>2, NamesAreSaved
      <4>. QED  BY <1>1, <1>2, <1>6, <3>2, <4>1 DEF TrainingInv, SavedSoFar, Written, Exists
    <3>3. CASE m # n /\ step # 5
      <4>1. "horizon" \in Names /\ "horizon" # n
        BY <1>1, <3>3, NamesAreSaved
      <4>. QED  BY <1>6, <2>1, <3>3, <4>1 DEF TrainingInv, HeadMeansAll, ArtifactsPresent
    <3>. QED  BY <3>1, <3>2, <3>3
  <2>. QED  BY <2>1 DEF HeadMeansAll, ArtifactsPresent
<1>9. TrainingLeavesItsOwn'
  BY <1>1, <1>2 DEF TrainingLeavesItsOwn
<1>. QED  BY <1>5, <1>7, <1>8, <1>9 DEF TrainingInv

LEMMA EndKeepsTrainingInv ==
  ASSUME TrainingInv, EndTrain
  PROVE  TrainingInv'
<1>1. /\ job = "train" /\ step = 6 /\ job' = "idle" /\ step' = 0
      /\ completed' = runs /\ UNCHANGED <<artifact, runs, begun>>
  BY NamesAreSaved DEF EndTrain, Idle, TrainingInv, SavedSoFar
<1>2. begun = runs /\ \A i \in 1 .. 5 : artifact[SaveOrder[i]] = Written
  BY <1>1 DEF TrainingInv, SavedSoFar
<1>3. \A m \in Names : artifact'[m] = [by |-> begun', whole |-> TRUE]
  BY <1>1, <1>2, NamesAreSaved DEF Written
<1>4. JobsTypeOK' /\ SavedSoFar' /\ HeadMeansAll'
  BY <1>1, <1>2 DEF TrainingInv, JobsTypeOK, SavedSoFar, HeadMeansAll, ArtifactsPresent, Exists
<1>. QED  BY <1>3, <1>4 DEF TrainingInv, TrainingLeavesItsOwn

LEMMA StartKeepsTrainingInv ==
  ASSUME TrainingInv, StartGenerate \/ StartTrain
  PROVE  TrainingInv'
<1>1. /\ runs' = runs + 1 /\ step' = 1 /\ UNCHANGED <<artifact, completed>>
      /\ \/ job' = "generate" /\ begun' = begun
         \/ job' = "train" /\ begun' = runs'
  BY DEF StartGenerate, StartTrain, Start, historyVars
<1>2. JobsTypeOK' /\ HeadMeansAll' /\ SavedSoFar'
  BY <1>1 DEF TrainingInv, JobsTypeOK, SavedSoFar, HeadMeansAll, ArtifactsPresent, Exists
<1>3. TrainingLeavesItsOwn'
  BY <1>1 DEF TrainingInv, JobsTypeOK, TrainingLeavesItsOwn
<1>. QED  BY <1>2, <1>3 DEF TrainingInv

\* One step for each job's action; the services change none of it.
LEMMA TrainingInvStep == TrainingInv /\ [Next]_vars => TrainingInv'
<1>. SUFFICES ASSUME TrainingInv, [Next]_vars PROVE TrainingInv'
  OBVIOUS
<1>1. CASE StartGenerate \/ StartTrain
  BY <1>1, StartKeepsTrainingInv
<1>2. CASE WriteTable \/ FallBack
  <2>1. job = "generate" /\ step' \in {step, step + 1} /\ UNCHANGED <<artifact, job, runs, begun, completed>>
    BY <1>2 DEF WriteTable, FallBack, historyVars
  <2>. QED  BY <2>1 DEF TrainingInv, JobsTypeOK, SavedSoFar, HeadMeansAll, TrainingLeavesItsOwn,
               ArtifactsPresent, Exists
<1>3. CASE EndGenerate \/ Kill
  <2>1. job' = "idle" /\ step' = 0 /\ UNCHANGED <<artifact, runs, begun, completed>>
    BY <1>3 DEF EndGenerate, Kill, Idle
  <2>. QED  BY <2>1 DEF TrainingInv, JobsTypeOK, SavedSoFar, HeadMeansAll, TrainingLeavesItsOwn,
               ArtifactsPresent, Exists
<1>4. CASE Clean
  BY <1>4, TrainingUndisturbed DEF Clean, trainingVars, jobVars
<1>5. CASE SaveArtifact
  BY <1>5, SaveKeepsTrainingInv
<1>6. CASE EndTrain
  BY <1>6, EndKeepsTrainingInv
<1>7. CASE \E s \in Services : Service(s)
  BY <1>7, TrainingUndisturbed
  DEF Service, StartService, Load, LoadFails, StopService, Down, trainingVars, jobVars, historyVars
<1>8. CASE UNCHANGED vars
  BY <1>8, TrainingUndisturbed DEF vars, trainingVars, jobVars, historyVars
<1>. QED  BY <1>1, <1>2, <1>3, <1>4, <1>5, <1>6, <1>7, <1>8 DEF Next, Job

LEMMA TrainingInvAlways == Spec => []TrainingInv
BY TrainingInvInit, TrainingInvStep, PTL DEF Spec
-----------------------------------------------------------------------------
\* A training that ends leaves five whole artifacts of its own in models/,
\* however many were killed before it and wherever (train, ml/train/train.py).
THEOREM TrainingLeavesItsOwnHolds == Spec => []TrainingLeavesItsOwn
<1>1. TrainingInv => TrainingLeavesItsOwn
  BY DEF TrainingInv
<1>. QED  BY <1>1, TrainingInvAlways, PTL

\* The demo's test for horizon.json is as good as artifacts_present
\* (scripts/demo.sh, ml/models/horizon.py).
THEOREM HeadMeansAllHolds == Spec => []HeadMeansAll
<1>1. TrainingInv => HeadMeansAll
  BY DEF TrainingInv
<1>. QED  BY <1>1, TrainingInvAlways, PTL
-----------------------------------------------------------------------------
(* Services *)

ServicesTypeOK ==
  /\ service \in [Services -> {"down", "loading", "serving"}]
  /\ pipeline \in [Services -> Seq(Nat)]
  /\ since \in [Services -> Nat] /\ until \in [Services -> Nat]

\* As long as the training that had completed when service s started is the
\* last one, it stays completed, and all that s has read is its work.
LoadsOneTraining(s) ==
  /\ since[s] <= begun
  /\ service[s] = "down" => pipeline[s] = << >>
  /\ service[s] = "loading" => Len(pipeline[s]) < 5
  /\ (service[s] = "loading" /\ since[s] # 0 /\ since[s] = begun) =>
       /\ completed = begun
       /\ \A i \in DOMAIN pipeline[s] : pipeline[s][i] = begun

ServesOneTraining(s) ==
  (service[s] = "serving" /\ since[s] # 0 /\ since[s] = until[s])
    => Range(pipeline[s]) = {since[s]}

ServicesInv ==
  /\ ServicesTypeOK
  /\ \A s \in Services : LoadsOneTraining(s) /\ ServesOneTraining(s)

LEMMA LoadOrderNames ==
  Len(LoadOrder) = 5 /\ \A i \in 1 .. 5 : LoadOrder[i] \in Names
<1>1. Len(LoadOrder) = 5 /\ DOMAIN LoadOrder = 1 .. 5
  BY DEF LoadOrder
<1>. QED  BY <1>1 DEF Names, Range

LEMMA ServicesInvInit == Init => ServicesInv
BY DEF Init, ServicesInv, ServicesTypeOK, LoadsOneTraining, ServesOneTraining

\* What the jobs do to the last training: it may be succeeded by a new one,
\* and what has completed stays so.
LEMMA JobsKeepServicesInv ==
  ASSUME TrainingInv, ServicesInv, UNCHANGED serviceVars, begun' \in Nat,
         \/ begun' = begun /\ (completed' = completed \/ completed' = begun)
         \/ begun' > begun
  PROVE  ServicesInv'
<1>1. UNCHANGED <<service, pipeline, since, until>>
  BY DEF serviceVars
<1>2. ServicesTypeOK'
  BY <1>1 DEF ServicesInv, ServicesTypeOK
<1>3. begun \in Nat
  BY DEF TrainingInv, JobsTypeOK
<1>4. ASSUME NEW s \in Services
      PROVE  LoadsOneTraining(s)' /\ ServesOneTraining(s)'
  <2>1. LoadsOneTraining(s) /\ ServesOneTraining(s) /\ since[s] \in Nat
    BY DEF ServicesInv, ServicesTypeOK
  <2>2. ServesOneTraining(s)'
    BY <1>1, <2>1 DEF ServesOneTraining
  <2>3. CASE begun' = begun
    BY <1>1, <2>1, <2>2, <2>3 DEF LoadsOneTraining
  <2>4. CASE begun' > begun
    <3>1. since'[s] < begun'
      BY <1>1, <1>3, <2>1, <2>4 DEF LoadsOneTraining
    <3>. QED  BY <1>1, <2>1, <2>2, <3>1 DEF LoadsOneTraining
  <2>. QED  BY <2>3, <2>4
<1>. QED  BY <1>2, <1>4 DEF ServicesInv

LEMMA StartServiceKeepsServicesInv ==
  ASSUME TrainingInv, ServicesInv, NEW s \in Services, StartService(s)
  PROVE  ServicesInv'
<1>1. begun \in Nat /\ UNCHANGED <<begun, completed, pipeline, until>>
  BY DEF StartService, historyVars, TrainingInv, JobsTypeOK
<1>2. /\ service' = [service EXCEPT ![s] = "loading"]
      /\ since' = [since EXCEPT ![s] = IF completed = begun THEN begun ELSE 0]
      /\ service[s] = "down"
  BY DEF StartService
<1>3. ServicesTypeOK'
  BY <1>1, <1>2 DEF ServicesInv, ServicesTypeOK
<1>4. ASSUME NEW t \in Services
      PROVE  LoadsOneTraining(t)' /\ ServesOneTraining(t)'
  <2>1. LoadsOneTraining(t) /\ ServesOneTraining(t)
    BY DEF ServicesInv
  <2>2. CASE t = s
    <3>1. pipeline[s] = << >> /\ service'[s] = "loading"
      BY <1>2, <2>1, <2>2 DEF LoadsOneTraining, ServicesInv, ServicesTypeOK
    <3>2. since'[s] = (IF completed = begun THEN begun ELSE 0)
      BY <1>2 DEF ServicesInv, ServicesTypeOK
    <3>. QED  BY <1>1, <2>2, <3>1, <3>2 DEF LoadsOneTraining, ServesOneTraining
  <2>3. CASE t # s
    <3>1. service'[t] = service[t] /\ since'[t] = since[t]
      BY <1>2, <2>3 DEF ServicesInv, ServicesTypeOK
    <3>. QED  BY <1>1, <2>1, <3>1 DEF LoadsOneTraining, ServesOneTraining
  <2>. QED  BY <2>2, <2>3
<1>. QED  BY <1>3, <1>4 DEF ServicesInv

LEMMA LoadKeepsServicesInv ==
  ASSUME TrainingInv, ServicesInv, NEW s \in Services, Load(s)
  PROVE  ServicesInv'
<1>. DEFINE k == Len(pipeline[s])
            file == artifact[LoadOrder[k + 1]]
<1>1. /\ begun \in Nat /\ UNCHANGED <<begun, completed, since>>
      /\ service[s] = "loading"
      /\ pipeline' = [pipeline EXCEPT ![s] = Append(@, file.by)]
      /\ IF k + 1 = 5
           THEN service' = [service EXCEPT ![s] = "serving"] /\ until' = [until EXCEPT ![s] = begun]
           ELSE UNCHANGED <<service, until>>
  BY LoadOrderNames DEF Load, NextFile, historyVars, TrainingInv, JobsTypeOK
<1>2. pipeline[s] \in Seq(Nat) /\ k \in Nat /\ k < 5 /\ since[s] \in Nat
  <2>1. pipeline[s] \in Seq(Nat) /\ since[s] \in Nat
    BY DEF ServicesInv, ServicesTypeOK
  <2>2. k \in Nat
    BY <2>1
  <2>3. k < 5
    BY <1>1 DEF ServicesInv, LoadsOneTraining
  <2>. QED  BY <2>1, <2>2, <2>3
<1>3. LoadOrder[k + 1] \in Names
  <2>1. k + 1 \in 1 .. 5
    BY <1>2
  <2>. QED  BY <2>1, LoadOrderNames
<1>4. file.by \in Nat
  BY <1>3 DEF TrainingInv, JobsTypeOK
<1>5. ServicesTypeOK'
  <2>1. Append(pipeline[s], file.by) \in Seq(Nat)
    BY <1>2, <1>4
  <2>2. pipeline' \in [Services -> Seq(Nat)]
    BY <1>1, <2>1 DEF ServicesInv, ServicesTypeOK
  <2>3. /\ service' \in [Services -> {"down", "loading", "serving"}]
        /\ until' \in [Services -> Nat]
    BY <1>1 DEF ServicesInv, ServicesTypeOK
  <2>. QED  BY <1>1, <2>2, <2>3 DEF ServicesInv, ServicesTypeOK
<1>6. /\ pipeline'[s] = Append(pipeline[s], file.by)
      /\ Len(pipeline'[s]) = k + 1
      /\ pipeline'[s] \in Seq(Nat)
  BY <1>1, <1>2, <1>4 DEF ServicesInv, ServicesTypeOK
<1>7. ASSUME since[s] # 0, since[s] = begun
      PROVE  completed = begun /\ \A i \in DOMAIN pipeline'[s] : pipeline'[s][i] = begun
  <2>1. completed = begun /\ \A i \in DOMAIN pipeline[s] : pipeline[s][i] = begun
    BY <1>1, <1>7 DEF ServicesInv, LoadsOneTraining
  <2>2. file.by = begun
    BY <1>1, <1>3, <1>7, <2>1 DEF TrainingInv, TrainingLeavesItsOwn
  <2>. QED  BY <1>2, <1>4, <1>6, <2>1, <2>2
<1>8. LoadsOneTraining(s)' /\ ServesOneTraining(s)'
  <2>1. since[s] <= begun
    BY DEF ServicesInv, LoadsOneTraining
  <2>2. CASE k + 1 = 5
    <3>1. service'[s] = "serving" /\ until'[s] = begun
      BY <1>1, <2>2 DEF ServicesInv, ServicesTypeOK
    <3>2. LoadsOneTraining(s)'
      BY <1>1, <2>1, <3>1 DEF LoadsOneTraining
    <3>3. ASSUME since[s] # 0, since[s] = begun
          PROVE  Range(pipeline'[s]) = {since[s]}
      <4>1. DOMAIN pipeline'[s] = 1 .. 5
        BY <1>6, <2>2
      <4>2. 1 \in 1 .. 5
        OBVIOUS
      <4>. QED  BY <1>7, <3>3, <4>1, <4>2 DEF Range
    <3>. QED  BY <1>1, <3>1, <3>2, <3>3 DEF ServesOneTraining
  <2>3. CASE k + 1 # 5
    <3>1. Len(pipeline'[s]) < 5
      BY <1>2, <1>6, <2>3
    <3>2. service'[s] = "loading"
      BY <1>1, <2>3
    <3>. QED  BY <1>1, <1>7, <2>1, <3>1, <3>2 DEF LoadsOneTraining, ServesOneTraining
  <2>. QED  BY <2>2, <2>3
<1>9. ASSUME NEW t \in Services, t # s
      PROVE  LoadsOneTraining(t)' /\ ServesOneTraining(t)'
  <2>1. LoadsOneTraining(t) /\ ServesOneTraining(t)
    BY DEF ServicesInv
  <2>2. pipeline'[t] = pipeline[t] /\ service'[t] = service[t] /\ until'[t] = until[t]
    BY <1>1, <1>9 DEF ServicesInv, ServicesTypeOK
  <2>. QED  BY <1>1, <2>1, <2>2 DEF LoadsOneTraining, ServesOneTraining
<1>. QED  BY <1>5, <1>8, <1>9 DEF ServicesInv

LEMMA DownKeepsServicesInv ==
  ASSUME TrainingInv, ServicesInv, NEW s \in Services, Down(s)
  PROVE  ServicesInv'
<1>1. begun \in Nat /\ UNCHANGED <<begun, completed>>
  BY DEF Down, historyVars, TrainingInv, JobsTypeOK
<1>2. ServicesTypeOK'
  BY DEF Down, ServicesInv, ServicesTypeOK
<1>3. ASSUME NEW t \in Services
      PROVE  LoadsOneTraining(t)' /\ ServesOneTraining(t)'
  <2>1. LoadsOneTraining(t) /\ ServesOneTraining(t)
    BY DEF ServicesInv
  <2>2. CASE t = s
    <3>1. service'[s] = "down" /\ pipeline'[s] = << >> /\ since'[s] = 0
      BY DEF Down, ServicesInv, ServicesTypeOK
    <3>. QED  BY <1>1, <2>2, <3>1 DEF LoadsOneTraining, ServesOneTraining
  <2>3. CASE t # s
    <3>1. /\ service'[t] = service[t] /\ pipeline'[t] = pipeline[t]
          /\ since'[t] = since[t] /\ until'[t] = until[t]
      BY <2>3 DEF Down, ServicesInv, ServicesTypeOK
    <3>. QED  BY <1>1, <2>1, <3>1 DEF LoadsOneTraining, ServesOneTraining
  <2>. QED  BY <2>2, <2>3
<1>. QED  BY <1>2, <1>3 DEF ServicesInv

LEMMA ServicesInvStep == TrainingInv /\ ServicesInv /\ [Next]_vars => ServicesInv'
<1>. SUFFICES ASSUME TrainingInv, ServicesInv, [Next]_vars PROVE ServicesInv'
  OBVIOUS
<1>. begun \in Nat
  BY DEF TrainingInv, JobsTypeOK
<1>1. CASE StartTrain
  <2>1. begun' \in Nat /\ begun' > begun /\ UNCHANGED serviceVars
    BY <1>1 DEF StartTrain, TrainingInv, JobsTypeOK
  <2>. QED  BY <2>1, JobsKeepServicesInv
<1>2. CASE EndTrain
  <2>1. begun' = begun /\ completed' = begun /\ UNCHANGED serviceVars
    BY <1>2 DEF EndTrain, TrainingInv, SavedSoFar
  <2>. QED  BY <2>1, JobsKeepServicesInv
<1>3. CASE \/ StartGenerate \/ WriteTable \/ FallBack \/ EndGenerate
           \/ Clean \/ SaveArtifact \/ Kill \/ UNCHANGED vars
  <2>1. begun' = begun /\ completed' = completed /\ UNCHANGED serviceVars
    BY <1>3 DEF StartGenerate, WriteTable, FallBack, EndGenerate, Clean, SaveArtifact, Kill,
       vars, historyVars
  <2>. QED  BY <2>1, JobsKeepServicesInv
<1>4. CASE \E s \in Services : Service(s)
  BY <1>4, StartServiceKeepsServicesInv, LoadKeepsServicesInv, DownKeepsServicesInv
  DEF Service, LoadFails, StopService
<1>. QED  BY <1>1, <1>2, <1>3, <1>4 DEF Next, Job

\* A service that found a completed training when it started, and finished
\* loading before another one began, scores with the artifacts of that
\* training alone (InferRunner.run, ScoringPipeline.load).
THEOREM PipelineIsOneTrainingHolds == Spec => []PipelineIsOneTraining
<1>1. Spec => []ServicesInv
  BY ServicesInvInit, ServicesInvStep, TrainingInvAlways, PTL DEF Spec
<1>2. ServicesInv => PipelineIsOneTraining
  BY DEF ServicesInv, ServesOneTraining, PipelineIsOneTraining
<1>. QED  BY <1>1, <1>2, PTL

-----------------------------------------------------------------------------
(* The corpus *)

TableTypeOK ==
  /\ table \in [{"parquet", "csv"} -> [Range(Stems) -> [by : Nat, whole : BOOLEAN]]]
  /\ format \in {"parquet", "csv"} /\ cut \in BOOLEAN

\* All tables of format k are there, by one job, or none is.
OneWriter(k) == \A s, t \in Range(Stems) : table[k][s].by = table[k][t].by

\* So are the whole ones of a set of Parquet files.
OneWholeWriter(S) ==
  \A s, t \in S :
    table["parquet"][s].whole /\ table["parquet"][t].whole
      => table["parquet"][s].by = table["parquet"][t].by

\* The tables whose Parquet file is older than this generation.
Older == {s \in Range(Stems) : table["parquet"][s].by # runs}

\* A generation has written every table before the one it is at, in one of
\* the formats, and nothing has been read since it started.
GeneratedSoFar ==
  job = "generate" =>
    /\ runs # 0 /\ step \in 1 .. 4 /\ read = {}
    /\ \A i \in 1 .. 3 : i < step => \E k \in {"parquet", "csv"} : table[k][Stems[i]] = Written

\* Between generations the whole Parquet files are of one, and the CSV files
\* are if there is no Parquet file; while a generation is writing, the Parquet
\* files that it has not reached are, as they will hide the CSV files if it
\* falls back for every table.
OneGeneration ==
  ~cut =>
    IF job = "generate" THEN OneWholeWriter(Older)
    ELSE OneWholeWriter(Range(Stems)) /\ (Found("parquet") # {} \/ OneWriter("csv"))

CorpusInv == TableTypeOK /\ GeneratedSoFar /\ OneGeneration /\ CorpusIsOneGeneration

LEMMA StemsFacts ==
  /\ Len(Stems) = 3 /\ Range(Stems) = {Stems[i] : i \in 1 .. 3}
  /\ \A i, j \in 1 .. 3 : Stems[i] = Stems[j] => i = j
<1>1. /\ Stems[1] = "nominal" /\ Stems[2] = "soft_fail" /\ Stems[3] = "los"
      /\ Len(Stems) = 3 /\ DOMAIN Stems = 1 .. 3
  BY DEF Stems
<1>2. \A i \in 1 .. 3 : i = 1 \/ i = 2 \/ i = 3
  OBVIOUS
<1>. QED  BY <1>1, <1>2 DEF Range

LEMMA CorpusInvInit == Init => CorpusInv
<1>. SUFFICES ASSUME Init PROVE CorpusInv
  OBVIOUS
<1>1. TableTypeOK /\ GeneratedSoFar /\ OneGeneration
  BY DEF Init, TableTypeOK, GeneratedSoFar, OneGeneration, OneWriter, OneWholeWriter, Absent
<1>2. Cardinality(read) = 0
  BY FS_EmptySet DEF Init
<1>. QED  BY <1>1, <1>2 DEF CorpusInv, CorpusIsOneGeneration

\* Most actions leave the tables alone, and no generation is running after
\* them that was not before.
LEMMA CorpusUndisturbed ==
  ASSUME CorpusInv, UNCHANGED <<table, read, cut>>,
         \/ UNCHANGED <<job, step, format, runs>>
         \/ job # "generate" /\ job' # "generate" /\ format' = format
  PROVE  CorpusInv'
<1>1. TableTypeOK' /\ GeneratedSoFar' /\ CorpusIsOneGeneration'
  BY DEF CorpusInv, TableTypeOK, GeneratedSoFar, Written, CorpusIsOneGeneration
<1>2. OneGeneration'
  BY DEF CorpusInv, OneGeneration, OneWriter, OneWholeWriter, Older, Found, Exists
<1>. QED  BY <1>1, <1>2 DEF CorpusInv

LEMMA StartGenerateKeepsCorpusInv ==
  ASSUME TrainingInv, CorpusInv, StartGenerate
  PROVE  CorpusInv'
<1>1. /\ job = "idle" /\ job' = "generate" /\ step' = 1 /\ runs' = runs + 1
      /\ runs \in Nat /\ format' \in {"parquet", "csv"} /\ read' = {}
      /\ UNCHANGED <<table, cut>>
  BY DEF StartGenerate, Start, TrainingInv, JobsTypeOK
<1>2. TableTypeOK' /\ GeneratedSoFar'
  BY <1>1 DEF CorpusInv, TableTypeOK, GeneratedSoFar
<1>3. OneGeneration'
  BY <1>1 DEF CorpusInv, OneGeneration, OneWholeWriter, Older
<1>4. Cardinality(read') = 0
  BY <1>1, FS_EmptySet
<1>. QED  BY <1>2, <1>3, <1>4 DEF CorpusInv, CorpusIsOneGeneration

\* One file of the table that a generation is at becomes f: opened, filled, or
\* removed.  The tables it is past stay as they are.
LEMMA ChangeKeepsCorpusInv ==
  ASSUME TrainingInv, CorpusInv, job = "generate", step \in 1 .. 3,
         NEW k \in {"parquet", "csv"}, NEW f \in {Opened, Written, Absent},
         table' = [table EXCEPT ![k][Stems[step]] = f],
         \/ step' = step
         \/ step' = step + 1 /\ f = Written,
         format' \in {"parquet", "csv"}, UNCHANGED <<job, runs, read, cut>>
  PROVE  CorpusInv'
<1>. DEFINE stem == Stems[step]
<1>1. /\ stem \in Range(Stems) /\ runs # 0 /\ runs \in Nat /\ read = {}
      /\ Written' = Written
  BY StemsFacts DEF CorpusInv, GeneratedSoFar, TrainingInv, JobsTypeOK, Written
<1>2. f \in [by : Nat, whole : BOOLEAN] /\ (f.by = runs \/ ~f.whole)
  <2>1. CASE f = Opened
    BY <1>1, <2>1 DEF Opened
  <2>2. CASE f = Written
    BY <1>1, <2>2 DEF Written
  <2>3. CASE f = Absent
    BY <2>3 DEF Absent
  <2>. QED  BY <2>1, <2>2, <2>3
<1>3. table \in [{"parquet", "csv"} -> [Range(Stems) -> [by : Nat, whole : BOOLEAN]]]
  BY DEF CorpusInv, TableTypeOK
<1>4. table' = [table EXCEPT ![k][stem] = f]
  OBVIOUS
<1>. HIDE DEF stem
<1>5. TableTypeOK'
  <2>1. table' \in [{"parquet", "csv"} -> [Range(Stems) -> [by : Nat, whole : BOOLEAN]]]
    <3>. DEFINE Files == [by : Nat, whole : BOOLEAN]
    <3>1. stem \in Range(Stems) /\ f \in Files /\ table \in [{"parquet", "csv"} -> [Range(Stems) -> Files]]
      BY <1>1, <1>2, <1>3
    <3>. HIDE DEF Files
    <3>2. [table[k] EXCEPT ![stem] = f] \in [Range(Stems) -> Files]
      BY <3>1
    <3>3. table' = [table EXCEPT ![k] = [table[k] EXCEPT ![stem] = f]]
      BY <1>4, <3>1
    <3>4. table' \in [{"parquet", "csv"} -> [Range(Stems) -> Files]]
      BY <3>1, <3>2, <3>3
    <3>. QED  BY <3>4 DEF Files
  <2>2. format' \in {"parquet", "csv"} /\ cut' \in BOOLEAN
    BY DEF CorpusInv, TableTypeOK
  <2>. QED  BY <2>1, <2>2 DEF TableTypeOK
<1>6. \A m \in {"parquet", "csv"}, s \in Range(Stems) :
        table'[m][s] = IF m = k /\ s = stem THEN f ELSE table[m][s]
  BY <1>1, <1>3, <1>4
<1>7. GeneratedSoFar'
  <2>1. ASSUME NEW i \in 1 .. 3, i < step'
        PROVE  \E m \in {"parquet", "csv"} : table'[m][Stems[i]] = Written
    <3>1. Stems[i] \in Range(Stems)
      BY StemsFacts
    <3>2. CASE i < step
      <4>1. Stems[i] # stem
        BY <3>2, StemsFacts DEF stem
      <4>2. PICK m \in {"parquet", "csv"} : table[m][Stems[i]] = Written
        BY <3>2 DEF CorpusInv, GeneratedSoFar
      <4>. QED  BY <1>6, <3>1, <4>1, <4>2
    <3>3. CASE ~(i < step)
      <4>1. i = step /\ f = Written
        BY <2>1, <3>3
      <4>. QED  BY <1>6, <3>1, <4>1 DEF stem
    <3>. QED  BY <3>2, <3>3
  <2>2. step' \in 1 .. 4
    OBVIOUS
  <2>. QED  BY <1>1, <2>1, <2>2 DEF GeneratedSoFar
<1>8. OneGeneration'
  <2>. SUFFICES ASSUME ~cut,
                       NEW s \in Range(Stems), NEW t \in Range(Stems),
                       table'["parquet"][s].by # runs, table'["parquet"][t].by # runs,
                       table'["parquet"][s].whole, table'["parquet"][t].whole
                PROVE  table'["parquet"][s].by = table'["parquet"][t].by
    BY DEF OneGeneration, OneWholeWriter, Older
  <2>1. \A u \in {s, t} : table'["parquet"][u] = table["parquet"][u]
    BY <1>2, <1>6
  <2>. QED  BY <2>1 DEF CorpusInv, OneGeneration, OneWholeWriter, Older
<1>9. Cardinality(read') = 0
  BY <1>1, FS_EmptySet
<1>. QED  BY <1>5, <1>7, <1>8, <1>9 DEF CorpusInv, CorpusIsOneGeneration

LEMMA WriteTableKeepsCorpusInv ==
  ASSUME TrainingInv, CorpusInv, WriteTable
  PROVE  CorpusInv'
<1>1. /\ job = "generate" /\ step \in 1 .. 3 /\ format \in {"parquet", "csv"}
      /\ UNCHANGED <<job, runs, read, cut>>
  BY StemsFacts DEF WriteTable, historyVars, CorpusInv, GeneratedSoFar, TableTypeOK
<1>2. \/ /\ table' = [table EXCEPT ![format][Stems[step]] = Opened]
         /\ UNCHANGED <<step, format>>
      \/ /\ table' = [table EXCEPT ![format][Stems[step]] = Written]
         /\ step' = step + 1 /\ format' = "parquet"
  BY DEF WriteTable
<1>. QED  BY <1>1, <1>2, ChangeKeepsCorpusInv

LEMMA FallBackKeepsCorpusInv ==
  ASSUME TrainingInv, CorpusInv, FallBack
  PROVE  CorpusInv'
<1>1. /\ job = "generate" /\ step \in 1 .. 3 /\ format' = "csv"
      /\ UNCHANGED <<job, step, runs, read, cut>>
  BY StemsFacts DEF FallBack, historyVars, CorpusInv, GeneratedSoFar
<1>2. CASE UNCHANGED table
  BY <1>1, <1>2 DEF CorpusInv, TableTypeOK, GeneratedSoFar, Written, OneGeneration,
     OneWholeWriter, Older, CorpusIsOneGeneration
<1>3. CASE table' = [table EXCEPT !["parquet"][Stems[step]] = Absent]
  BY <1>1, <1>3, ChangeKeepsCorpusInv
<1>. QED  BY <1>2, <1>3 DEF FallBack

\* A generation that ends has written all tables as Parquet, or none, or has
\* cut the corpus.
LEMMA EndGenerateKeepsCorpusInv ==
  ASSUME TrainingInv, CorpusInv, EndGenerate
  PROVE  CorpusInv'
<1>1. /\ job = "generate" /\ step = 4 /\ job' = "idle"
      /\ runs # 0 /\ read = {} /\ UNCHANGED <<table, format, runs, read>>
  BY StemsFacts DEF EndGenerate, Idle, CorpusInv, GeneratedSoFar
<1>7. \A i \in 1 .. 3 : \E k \in {"parquet", "csv"} : table[k][Stems[i]] = Written
  BY <1>1 DEF CorpusInv, GeneratedSoFar
<1>8. cut' \in BOOLEAN
  <2>1. cut \in BOOLEAN
    BY DEF CorpusInv, TableTypeOK
  <2>2. cut' \in {FALSE, cut, TRUE}
    BY Zenon DEF EndGenerate
  <2>. QED  BY <2>1, <2>2
<1>2. \A s \in Range(Stems) : \E k \in {"parquet", "csv"} : table[k][s] = Written
  BY <1>7, StemsFacts
<1>3. Written.by = runs
  BY DEF Written
<1>4. OneGeneration'
  <2>. SUFFICES ASSUME ~cut'
                PROVE  OneWholeWriter(Range(Stems)) /\ (Found("parquet") # {} \/ OneWriter("csv"))
    BY <1>1 DEF OneGeneration, OneWholeWriter, OneWriter, Found, Exists
  <2>1. CASE InParquet = Range(Stems)
    <3>1. \A s \in Range(Stems) : table["parquet"][s].by = runs
      BY <1>3, <2>1 DEF InParquet
    <3>2. Stems[1] \in Range(Stems)
      BY StemsFacts
    <3>3. Stems[1] \in {t \in Range(Stems) : Exists(table["parquet"][t])}
      BY <1>1, <3>1, <3>2 DEF Exists
    <3>4. table["parquet"][Stems[1]] \in Found("parquet")
      BY <3>3 DEF Found
    <3>. QED  BY <3>1, <3>4 DEF OneWholeWriter
  <2>2. CASE InParquet = {}
    <3>1. OneWriter("csv")
      BY <1>2, <1>3, <2>2 DEF InParquet, OneWriter
    <3>2. ASSUME NEW s \in Range(Stems), table["parquet"][s].whole
          PROVE  s \in Older
      <4>1. table["parquet"][s] \in [by : Nat, whole : BOOLEAN]
        BY DEF CorpusInv, TableTypeOK
      <4>2. table["parquet"][s] # Written
        BY <2>2 DEF InParquet
      <4>. QED  BY <3>2, <4>1, <4>2 DEF Older, Written
    <3>3. ~cut
      BY <1>1, <2>2, StemsFacts DEF EndGenerate
    <3>4. OneWholeWriter(Older)
      BY <1>1, <3>3 DEF CorpusInv, OneGeneration
    <3>. QED  BY <3>1, <3>2, <3>4 DEF OneWholeWriter
  <2>3. CASE InParquet # {} /\ InParquet # Range(Stems)
    BY <2>3 DEF EndGenerate
  <2>. QED  BY <2>1, <2>2, <2>3
<1>5. TableTypeOK' /\ GeneratedSoFar'
  BY <1>1, <1>8 DEF CorpusInv, TableTypeOK, GeneratedSoFar
<1>6. Cardinality(read') = 0
  BY <1>1, FS_EmptySet
<1>. QED  BY <1>4, <1>5, <1>6 DEF CorpusInv, CorpusIsOneGeneration

LEMMA CleanKeepsCorpusInv ==
  ASSUME CorpusInv, Clean
  PROVE  CorpusInv'
<1>1. /\ table' = [k \in {"parquet", "csv"} |-> [s \in Range(Stems) |-> Absent]]
      /\ read' = {} /\ cut' = FALSE /\ job' = "idle" /\ UNCHANGED format
  BY DEF Clean, jobVars, CorpusInv, TableTypeOK
<1>2. TableTypeOK' /\ GeneratedSoFar'
  BY <1>1 DEF CorpusInv, TableTypeOK, GeneratedSoFar, Absent
<1>4. \A k \in {"parquet", "csv"}, s \in Range(Stems) : table'[k][s] = Absent
  BY <1>1
<1>5. OneGeneration'
  BY <1>1, <1>4 DEF OneGeneration, OneWriter, OneWholeWriter, Absent
<1>3. Cardinality(read') = 0
  BY <1>1, FS_EmptySet
<1>. QED  BY <1>2, <1>3, <1>5 DEF CorpusInv, CorpusIsOneGeneration

\* What is read of files with one writer has one writer.
LEMMA OneWriterRead ==
  ASSUME NEW F, \A f, g \in F : f.by = g.by
  PROVE  Cardinality({f.by : f \in F}) <= 1
<1>. DEFINE by == {f.by : f \in F}
<1>1. CASE by = {}
  BY <1>1, FS_EmptySet
<1>2. CASE by # {}
  <2>1. PICK b : b \in by
    BY <1>2
  <2>2. by = {b}
    BY <2>1
  <2>3. Cardinality(by) = 1
    BY <2>2, FS_Singleton
  <2>. QED  BY <2>3
<1>. QED  BY <1>1, <1>2

\* Parquet files are read only if all of them are whole.
LEMMA StartTrainKeepsCorpusInv ==
  ASSUME CorpusInv, StartTrain
  PROVE  CorpusInv'
<1>1. /\ job = "idle" /\ job' = "train" /\ UNCHANGED <<table, format, cut>>
      /\ \A f \in Found("parquet") : f.whole
      /\ read' = {f.by : f \in Corpus}
  BY DEF StartTrain, Start
<1>2. TableTypeOK' /\ GeneratedSoFar'
  BY <1>1 DEF CorpusInv, TableTypeOK, GeneratedSoFar
<1>4. OneGeneration'
  BY <1>1 DEF CorpusInv, OneGeneration, OneWriter, OneWholeWriter, Found, Exists
<1>3. ASSUME ~cut PROVE Cardinality(read') <= 1
  <2>1. OneWholeWriter(Range(Stems)) /\ (Found("parquet") # {} \/ OneWriter("csv"))
    BY <1>1, <1>3 DEF CorpusInv, OneGeneration
  <2>2. \A f, g \in Corpus : f.by = g.by
    <3>1. CASE Found("parquet") # {}
      BY <1>1, <2>1, <3>1 DEF Corpus, Found, OneWholeWriter
    <3>2. CASE Found("parquet") = {}
      BY <2>1, <3>2 DEF Corpus, Found, OneWriter
    <3>. QED  BY <3>1, <3>2
  <2>. QED  BY <1>1, <2>2, OneWriterRead
<1>. QED  BY <1>1, <1>2, <1>3, <1>4 DEF CorpusInv, CorpusIsOneGeneration

LEMMA KillKeepsCorpusInv ==
  ASSUME CorpusInv, Kill
  PROVE  CorpusInv'
<1>1. CASE job = "generate"
  BY <1>1 DEF Kill, Idle, CorpusInv, TableTypeOK, GeneratedSoFar, OneGeneration,
     CorpusIsOneGeneration
<1>2. CASE job # "generate"
  <2>1. job' # "generate" /\ UNCHANGED <<table, read, format, cut>>
    BY <1>2 DEF Kill, Idle, CorpusInv, TableTypeOK
  <2>. QED  BY <1>2, <2>1, CorpusUndisturbed
<1>. QED  BY <1>1, <1>2

LEMMA CorpusInvStep == TrainingInv /\ CorpusInv /\ [Next]_vars => CorpusInv'
<1>. SUFFICES ASSUME TrainingInv, CorpusInv, [Next]_vars PROVE CorpusInv'
  OBVIOUS
<1>1. CASE SaveArtifact \/ EndTrain
  BY <1>1, CorpusUndisturbed DEF SaveArtifact, EndTrain, Idle, historyVars
<1>2. CASE (\E s \in Services : Service(s)) \/ UNCHANGED vars
  BY <1>2, CorpusUndisturbed DEF Service, StartService, Load, LoadFails, StopService, Down,
     vars, jobVars, historyVars
<1>. QED
  BY <1>1, <1>2, StartGenerateKeepsCorpusInv, WriteTableKeepsCorpusInv,
     FallBackKeepsCorpusInv, EndGenerateKeepsCorpusInv, CleanKeepsCorpusInv, StartTrainKeepsCorpusInv,
     KillKeepsCorpusInv DEF Next, Job

\* A training learns from the tables of one generation, whatever older files
\* lie beside them and whatever a failed write has left of a Parquet file,
\* unless a generation was killed or fell back to CSV for some of its tables
\* only, and nothing has replaced it (_write_table, load_corpus).
THEOREM CorpusIsOneGenerationHolds == Spec => []CorpusIsOneGeneration
<1>1. Spec => []CorpusInv
  BY CorpusInvInit, CorpusInvStep, TrainingInvAlways, PTL DEF Spec
<1>2. CorpusInv => CorpusIsOneGeneration
  BY DEF CorpusInv
<1>. QED  BY <1>1, <1>2, PTL
=============================================================================
