\* A chain and a diamond of target providers.
SPECIFICATION Spec
CONSTANTS
    base = base
    tool = tool
    app = app
    lone = lone
    host = host
    script = script
    menu = menu
    NoOwner = NoOwner
    Instances = {base, tool, app, lone}
    Targets = {host, script}
    Size <- Sizes
    Contributes <- DiamondContributes
    Publishes <- DiamondPublishes
    Needs <- DiamondNeeds
INVARIANTS
    NothingLeftBehind
    ProvidersStopLast
    ProvidersStayRegistered
