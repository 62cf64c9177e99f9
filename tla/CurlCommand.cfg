\* Captured requests of three kinds and every shape render reads.
SPECIFICATION CurlSpec
CONSTANTS
    Folded <- MCFolded
    Canonical <- MCCanonical
    Upper <- MCUpper
    Mentioning <- MCMentioning
    JSONValues <- MCJSONValues
    Depth <- MCDepth
    Unsendable <- MCUnsendable
    Incoming <- MCIncoming
    Renders <- MCRenders
INVARIANTS
    
    TemplatesAgree
    ExitTellsTruth
    UpstreamGetsEndToEndHeaders
CHECK_DEADLOCK FALSE
