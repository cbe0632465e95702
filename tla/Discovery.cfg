SPECIFICATION FairSpec
CONSTANTS
    s1 = s1  s2 = s2
    execute = execute  execute_v2 = execute_v2
    anyhost = anyhost  a1 = a1  a2 = a2  p1 = p1  p2 = p2
    Servers = {s1, s2}
    Name <- MCName
    Listen <- MCListen
    Advertise <- MCUnsetAll
    PodIP <- MCUnsetAll
    HostIP <- MCHostIP
    OutboundIP <- MCUnsetAll
    Unset = Unset
    Wildcards = {anyhost}
    Target = execute
    StartsWith <- MCStartsWith
    NoInstance = NoInstance
    MaxStarts <- MCMaxStarts
    MaxFaults = 1
    MaxResolves = 1
    MaxBuilds = 1
INVARIANTS TypeOK ServingIsRegistered SettledIsCurrent
PROPERTIES ChangeIsFollowed DeadIsForgotten
CHECK_DEADLOCK FALSE
