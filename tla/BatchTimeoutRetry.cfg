SPECIFICATION Spec
CONSTANTS
    Timeout = 60
    Retries = 1
    Slack = 5
    Factor = {3, 4}
PROPERTIES TimerIsLastResort
CHECK_DEADLOCK FALSE
