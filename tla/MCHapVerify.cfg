SPECIFICATION Spec
CONSTANTS
    None = None
    NoName = NoName
    Names <- MCNames
    Certs <- MCCerts
    ReleaseRoots <- MCReleaseRoots
    TestRoots <- MCTestRoots
    OpenHarmony <- MCOpenHarmony
    Sources <- MCSources
    TicketSigners <- MCTicketSigners
    LocalCerts <- MCLocalCerts
    Profiles <- MCProfiles
    Tickets <- MCTickets
    Settings <- MCSettings
    Switchable <- MCSwitchable
INVARIANTS
    SourceTrusted
    ProfileVouched
    DeviceAllowed
    GalleryByTicket
    IdentityOfSigner
    ResignJustified
