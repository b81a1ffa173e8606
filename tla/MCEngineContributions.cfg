\* The same instances: two of them, loaded at different times, register one contribution.
SPECIFICATION Spec
CONSTANTS
    base = base
    tool = tool
    app = app
    lone = lone
    host = host
    script = script
    menu = menu
    NoOwner = NoOwner
    Instances = {base, tool, app, lone}
    Targets = {host, script}
    Size <- Sizes
    Contributes <- DiamondContributes
    Publishes <- DiamondPublishes
    Needs <- DiamondNeeds
INVARIANTS
    ContributionsExclusive
