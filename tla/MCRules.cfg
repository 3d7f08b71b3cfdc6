SPECIFICATION Spec
CONSTANTS
    Word = 16
    MaxRate = 7
    PlanQuestions <- MCPlanQuestions
    MergeQuestions <- MCMergeQuestions
    RequestQuestions <- MCRequestQuestions
    ConfigQuestions <- MCConfigQuestions
    DiskQuestions <- MCDiskQuestions
    Ips <- MCIps
    Default <- MCDefault
INVARIANT PlanMakesRoom
INVARIANT PlanIsLeastRecentlyUsed
INVARIANT PlanRefusesOnlyTheImpossible
INVARIANT MergedOnce
 
INVARIANT CheckedStarts
INVARIANT DiskVerdicts
CHECK_DEADLOCK FALSE
