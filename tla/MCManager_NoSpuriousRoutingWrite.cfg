CONSTANTS
    main = main
    c1 = c1
    g1 = g1
    l1 = l1
    la1 = la1
    w1 = w1
    Groups = {main, g1}
    Main = main
    Components <- MCComponents
    MainComponent = main
    RoutedComponents <- MCRouted
    Addrs <- MCAddrs
    PidOf <- MCPidOf
    NumLocations = 2
    Listeners = {l1}
    LocalAddrs = {la1}
    NoAddr = NoAddr
    NoRoute = NoRoute
    NoBackend = NoBackend
    Weavelets = {w1}
    WeaveletGroup <- MCWeaveletGroup
    KeyBits = 8
    MantissaBits = 5
    MaxRequests = 4
SPECIFICATION Spec
PROPERTY NoSpuriousRoutingWrite
CHECK_DEADLOCK FALSE
