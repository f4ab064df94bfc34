CONSTANTS
    Viewer = {v1}
    Platform = {"gstreamer", "webrtc-rs"}
    None = None
    MaxReadies = 2
    MaxFaults = 1
    MaxOffers = 8
    MaxStopping = 1
    Eve = v1
SPECIFICATION FairSpec
INVARIANTS
    TypeOK
    SettledTogether
PROPERTIES
    NoOlderOffer
    ViewerCatchesUp
    ViewerStaysConnected
CHECK_DEADLOCK FALSE
