SPECIFICATION Spec
CONSTANTS
    d = d
    p = p
    g1 = g1
    g2 = g2
    s1 = s1
    k1 = k1
    k2 = k2
    None = None
    Servers = {s1}
    Daemon = d
    Poller = p
    Goroutines = {g1, g2}
    Clients = {k1, k2}
    MaxCatalog = 1
INVARIANTS
    ToolsHaveServer
    RemovedStaysGone
PROPERTIES
    RenewalsSpareOthers
    CatalogFollowed
