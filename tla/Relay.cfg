CONSTANTS
    Client = {alice, bob}
    Body = {b1, b2}
    NoBody = NoBody
    MaxPosts = 3
    MaxFaults = 2
SPECIFICATION FairSpec
INVARIANTS TypeOK DeliveredInOrder NoSilentSkip
PROPERTIES ImplementsBroadcast EventuallyReceived
