CONSTANTS
    n1 = n1
    n2 = n2
    n3 = n3
    None = None
    Node <- MCNode
SPECIFICATION Spec
INVARIANT TypeOK
PROPERTY ImplementsAliasQuery
