\* One service, three jobs, any of them killed.
SPECIFICATION Spec
CONSTANTS
  Services = {s1}
  MaxRuns = 3
INVARIANTS
  PipelineIsOneTraining
  TrainingLeavesItsOwn
  HeadMeansAll
  CorpusIsOneGeneration
CHECK_DEADLOCK FALSE
