SPECIFICATION StoreSpec
CONSTANTS
    A = A
    B = B
    m1 = m1
    m2 = m2
    Clusters <- MCClusters
    Masters <- MCMasters
    Nodes = {n1}
    None = None
    Configs <- MCConfigs
    Homes <- MCHomes
    TTL = 1
INVARIANTS
    StoreTypeOK
    RoutedMasterIsAuthorised
    OnlineClusterIsKnown
PROPERTIES
    GhostNodeDisappears
