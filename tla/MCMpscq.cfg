SPECIFICATION FairSpec
CONSTANTS
    n1 = n1  n2 = n2  n3 = n3
    p1 = p1  p2 = p2
    c1 = c1  c2 = c2
    Nodes <- MCNodes
    Producers <- MCProducers
    Consumers <- MCConsumers
    Stub = Stub
    Null = Null
INVARIANTS
    DrainedIsPristine
    ListUnbroken
PROPERTIES
    AbstractSpec
    PopTerminates
