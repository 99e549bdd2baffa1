\* Two families, one of them three segments deep, two kind nodes.
SPECIFICATION Spec
CONSTANTS
    k = k
    l = l
    Branch = Branch
    None = None
    Paths <- MCPaths
    Above <- MCAbove
    Links = {k, l}
INVARIANTS BuiltAsWritten RoundTrip
PROPERTIES StoreSpec
CHECK_DEADLOCK FALSE
