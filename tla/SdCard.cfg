SPECIFICATION BootSpec
CONSTANTS
    HostVersions = {1, 2}
    OpCondRetries = 2
    MaxBusy = 2
    MaxFaults = 2
INVARIANTS AnswersOwn InitAgrees MbrTrusted
PROPERTY SdInitReturns
CHECK_DEADLOCK FALSE
