SPECIFICATION Spec
CONSTANTS
    p1 = p1
    p2 = p2
    Procs = {p1, p2}
    Configs <- MCConfigs
    U32 = 1024
    Files <- MCFiles
    Disks <- MCDisks
    ConfigPath <- MCConfigPath
    Accounts <- MCAccounts
    Boots <- MCBoots
INVARIANTS
    ReloadAccepts
