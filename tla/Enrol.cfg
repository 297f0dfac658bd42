CONSTANTS
    Devices = {d1, d2}
    ActDevices = {d1, d2}
    Requests = {r1, r2}
    Codes = {c1, c2}
    Creds = {k1, k2}
    MaxFails = 2
    NoVal = NoVal
    Empty = Empty
    None = None
    Offers = {q1, q2, q3}
    ActOffers = {q1, q2}
    PairMaxLive = 2
    plain = plain
SYMMETRY Symmetry
SPECIFICATION MCSpec
INVARIANTS TypeOK OnePlace FirstDeviceOnly LockoutIsFinal FileIsLiveCode OffersKept RunsAsShown
PROPERTIES PresenceIsOneShot CodeLivesItsTime CredLostOnlyByRevoke TokenLostOnlyByRevoke OfferIsOneShot NoReceiptAfterRevoke ChallengeIsOneShot
CHECK_DEADLOCK FALSE
