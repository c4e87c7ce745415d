\* One Codex job: may it be completed although its last attempt timed out?
SPECIFICATION CodexSpec
INVARIANTS
    TimedOutIsFailed
CHECK_DEADLOCK FALSE
