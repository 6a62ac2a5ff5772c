SPECIFICATION Spec
CONSTANTS
    Streams <- MCStreams
    MaxChunk = 40
    Nil = Nil
    Broken = Broken
    IdentifiedFactories <- MCIdentifiedFactories
    CompactTypes <- MCCompactTypes
    Replicated <- MCReplicated
    PortableFactories <- MCPortableFactories
    Clients = {"c1", "c2"}
    Objects <- MCObjects
    CustomSerializers <- MCCustomSerializers
    GlobalSerializer = 60
    ClassDefinitions <- MCClassDefinitions
    CompactTypesOf <- MCCompactTypesOf
    Repeated <- MCRepeated
    MaxRounds = 2
INVARIANT RequestArrives
 
INVARIANT AnswerUnderstood
INVARIANT StreamIsWhole
INVARIANT RoundTrip
CHECK_DEADLOCK FALSE
