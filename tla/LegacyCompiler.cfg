SPECIFICATION Spec
CONSTANTS
    Entry = 1
    Programs <- MCPrograms
    Samples = {2, 5}
INVARIANTS GraphMeansSource GraphStaysConsistent PlanRunsTheSource LinksTheWellLinked
CHECK_DEADLOCK FALSE
