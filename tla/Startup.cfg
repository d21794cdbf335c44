\* A u64 of three bits, a list that cannot be that large, one host.
SPECIFICATION FairSpec
CONSTANTS
    U64Max = 7
    MaxEntries = 6
    None = None
    Choices <- SomeSettings
    LimitChoices <- SomeLimits
    Default = Default
    app = app
    metrics = metrics
    host = host
    Hosts = {host}
    Servers = {app, metrics}
INVARIANTS
    TypeOK
    DescriptorsSuffice
    PanicsExplained
    ListensWithFullTable
    ExitExplained
PROPERTIES
    ServesOrEnds
    SignalEnds
