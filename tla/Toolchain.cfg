SPECIFICATION SpecTool
CONSTANTS
    Caller = {a, b}
    Capacity = 1
    Runner = {a}
    CompilerScripts <- MCCompilerScripts
    ProgramScripts <- MCProgramScripts
INVARIANTS OutputComplete OutputIsBuilt
PROPERTY BuildsReturn
CHECK_DEADLOCK FALSE
