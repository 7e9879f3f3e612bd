SPECIFICATION MCSpec
CONSTANTS
    Projects = {p1}
    Poller = poller
    Handlers = {h1}
    Tunnels = {c1}
    Unreadable = {}
    MaxChanges = 2
INVARIANTS
    StaleIsVisible
    ReloadsTakeEffect
    RequestsSeeReloads
