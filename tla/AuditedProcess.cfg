SPECIFICATION Spec
CONSTANTS
    root = root
    vctip = vctip
    tool = tool
    conhost = conhost
    dll = dll
    Procs = {root, vctip, tool, conhost}
    Root = root
    Silent = {conhost}
    Wow64 = {vctip}
    Persistent = {vctip}
    Pid <- MCPid
    Modules = {dll}
    Forbidden = {dll}
    Slices = 2
INVARIANTS
    NothingOutlivesTheRun
    EvidenceIsComplete
    VerdictIsJustified
PROPERTIES
    RunReturns
CHECK_DEADLOCK FALSE
