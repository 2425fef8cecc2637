CONSTANTS
    root = root
    composition = composition
    a = a
    b = b
    c = c
    d = d
    log = log
    schema = schema
    plain = plain
    slash = slash
    query = query
    Paths <- MCPaths
    Root = root
    Composition = composition
    Foreign <- MCForeign
    Filtered <- MCFiltered
    Forms <- MCForms
    Plain = plain
    Trees <- MCTrees
    MaxDepth = 2
    MaxRuns = 2
SPECIFICATION Spec
INVARIANTS NothingForgotten OnlyFarIsCut
PROPERTIES Contract
CHECK_DEADLOCK FALSE
