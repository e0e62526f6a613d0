SPECIFICATION FairSpec
CONSTANTS
    Procs = {1, 2}
    Entries <- MCEntries
    Key = "k"
    NoFile = NoFile
    Torn = Torn
    MaxLen = 2
    MaxSaves = 2
    MaxCrashes = 1
    MaxDamages = 1
INVARIANTS FileWhole LoadSound SignedSound KeysNameHistories
PROPERTIES SaveEnds SavesAtomically
CHECK_DEADLOCK FALSE
