CONSTANTS
    Interfaces = {0}
    Alternates = {0, 1}
    Endpoints = {1}
    Isochronous = {}
    Owner <- MCOwner
    Configurations = {1}
    KernelAddress = 5
    Addresses = {5, 6}
    Contents <- MCContents
    BufferMaxSize = 4096
    MaxStringLen = 126
    UnsetLengths = {0, 5, 5000}
    ShortReads = {0, 3, 9, 18}
    MaxFaults = 2
SPECIFICATION FairSpec
INVARIANTS TypeOK LengthIsDelivered DumpExact EndpointsNamed DefinedUnlessFault ParseExact LeaksLaterEndpointsOnly
PROPERTIES LoopsEnd
CHECK_DEADLOCK FALSE
