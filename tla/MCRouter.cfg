SPECIFICATION RoutingSpec
CONSTANTS
    b1 = b1
    b2 = b2
    c1 = c1
    ws1 = ws1
    Browsers = {b1, b2}
    System = System
    Contexts = {c1}
    Workspaces = {ws1}
    NoWorkspace = NoWorkspace
    Docs <- MCDocs
    Chars <- AllChars
    Nodes <- AllNodes
    Trees <- AllTrees
    Height <- AllHeights
    MaxHeight = 3
    TextContexts <- AllContexts
    LowerCase <- ToLower
INVARIANTS
    RightRule
    LoopIsEvaluate
    MatcherLaws

    
CHECK_DEADLOCK FALSE
