CONSTANTS
    MaxI64 = 7
    MaxDepth = 4
    MaxIterations = 6
    MaxSteps = 80
    Loaded <- MCLoaded
    Programs <- MCPrograms
    Arguments <- MCArguments
    Seeds <- MCSeeds
    Losses <- MCLosses
    PlanRequests <- MCPlanRequests
    Initials <- MCInitials
    Batches <- MCBatches
    Identities = {"one", "two"}
    PublicInputs <- MCPublicInputs
    Deployments <- MCDeployments
    MaxStep = 2
    MaxProcesses = 2
    MaxKept = 2
    Modulus = 7
SPECIFICATION SpecTraining
INVARIANTS AcceptedIsSafe FailuresAreDeclared GeneratedIsValid GradientIsDerivative TrainingSurvives ServedAsTrained
CHECK_DEADLOCK FALSE
