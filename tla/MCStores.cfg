\* Two racing calls over two contents; two processes and three starts; three
\* entities and three edge writes; three ids, three batches and two mishaps.
SPECIFICATION StoresSpec
CONSTANTS
    Digests = {d1, d2}
    Compressed = {d1}
    Uncompressed = {d2}
    Uris = {u1}
    Calls = {c1, c2}
    Substrates = {"fs", "s3"}
    MaxCalls = 3
    MaxBlobFaults = 2
    Starters = {s1, s2}
    Expected = {"t1", "t2"}
    Databases <- MCDatabases
    MaxStarts = 3
    MaxFaults = 2
    MaxRows = 2
    Entities = {"e1", "e2", "e3"}
    Names = {"n1", "n2", "n3"}
    RelTypes = {"r"}
    Hops = 2
    MaxWrites = 3
    PointIds = {"a", "b", "A"}
    Encoded <- MCEncoded
    Payloads = {"x", "y"}
    Batches <- MCBatches
    MaxVectorCalls = 3
    MaxCrashes = 2
SYMMETRY Symmetry
CHECK_DEADLOCK FALSE
INVARIANTS
    ArchiveSound
    
    VectorsSound
PROPERTIES
    SchemaSound
