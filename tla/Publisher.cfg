\* Two clients with two requests each, two messages of a request, one fault.
SPECIFICATION FairSpec
CONSTANTS
    alice = alice
    bob = bob
    None = None
    Clients = {alice, bob}
    Last = 2
    Stores <- MCStores
    Invalid <- MCInvalid
    MaxCopies = 2
    MaxFaults = 1
INVARIANTS GuardIsExact
PROPERTIES OncePerProcess NameNeverGoesBack ImplementsService EveryoneIsServed
CHECK_DEADLOCK FALSE
