SPECIFICATION FairSpec
CONSTANTS
    Projects = {p1, p2}
    Poller = poller
    Handlers = {h1}
    Tunnels = {}
    Unreadable = {p2}
    MaxChanges = 1
PROPERTIES
    TableCatchesUp
