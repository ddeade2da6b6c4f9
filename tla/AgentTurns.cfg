SPECIFICATION Spec
CONSTANTS
    Calls <- MCCalls
    Texts <- MCTexts
    Results <- MCResults
    Wishes <- MCWishes
INVARIANTS NoRepeatedSuccess PolicyKept QualityKept DoneMeansWorked
PROPERTIES TurnIsBounded AgentLoopEnds
