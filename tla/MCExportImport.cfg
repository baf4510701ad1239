SPECIFICATION Spec
CONSTANTS
    HashSize = 8
    Sha256 <- MCSha256
    PathHashSize = 5
    MaxPathLen = 5
    StoreDir <- MCStoreDir
    NarMaxDepth = 3
    NameLess <- ByteLess
    BufSize = 4
    Trees <- MCTrees
    Rows <- ExportOrder
    Archive <- DumpPath
    ParseArchive <- ParseDump
    NarHash <- Digest
    PathFor <- MakeContentAddressedPath
    NamePart <- NameOf
    ShowPath <- PrintStorePath
    ReadPath <- ParseStorePath
    MakeRow <- AddValidPath
    RowInfo <- QueryPathInfo
    Rotten <- MCRotten
    ForeignBundles <- MCForeignBundles
    DamagedCells <- MCDamagedCells
    Space = {9, 99}
    Spellings <- MCSpellings
    Samples <- MCSamples
INVARIANTS OutputIsAPrefix RegisteredIsWhatItSays SuccessMeansWholeBundle SecondTrySucceeds CodecsKeepPromises WrittenReadsBack PathsAreCanonical ResolveIsExact
