SPECIFICATION MCSpec
CONSTANTS
    None = None
    Commands <- TheCommands
    Scenarios <- TheScenarios
    Attempts <- TheAttempts
INVARIANTS AnswersAreTrue PreflightAgrees SkillsAreExact
CHECK_DEADLOCK FALSE
