CONSTANTS
    Manifests <- MCManifests
    File <- MCFile
    Local <- MCLocal
    Path <- MCPath
    Hash <- MCHash
    Root <- R
    Slot = {0, 1}
    Depths = {"0", "1", "2"}
    NoNode = NoNode
    MaxChunks = 2
    MaxLookups = 3
SPECIFICATION ParserSpec
INVARIANTS OneNode LoadIsExact
