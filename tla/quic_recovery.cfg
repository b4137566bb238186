SPECIFICATION Spec
CONSTANTS
    ClientHelloLen = 3
    ServerHelloLen = 1
    Messages <- TwoMessages
    MaxUnusual = 2
INVARIANTS
    HelloIsExact
    TranscriptIsExact
    SuccessIsGenuine
    ArchivesAgree
\* The capture and its recovery stop.
CHECK_DEADLOCK FALSE
