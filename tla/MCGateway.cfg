SPECIFICATION GatewaySpec
CONSTANTS
    QueryRequests <- MCQueryRequests
    AskRequests <- MCAskRequests
    Payloads <- MCPayloads
    LLMEnabled = TRUE
    Clusters = {"prod"}
    Endpoints = {e1, e2}
    Queries = {q1}
    Persistent = FALSE
    MaxConns = 2
    MaxCrashes = 1
    None = None
PROPERTIES
    RequestEnds
    ShutdownEnds
INVARIANTS
    GatewayTypeOK
    StepsAccounted
    OneAgentPerReply
    AllFailedReported
