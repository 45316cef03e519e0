SPECIFICATION InstallSpec
CONSTANTS
    k1 = k1
    k2 = k2
    k3 = k3
    Ids = {1, 2, 3}
    Catalog <- MCCatalog
    Slots = {1, 2, 3}
    Commands = {k1, k2, k3}
    Settings <- MCRestored
    ShardOf <- MCShardOf
INVARIANT DependenciesPresent
