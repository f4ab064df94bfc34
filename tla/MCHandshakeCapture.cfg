CONSTANTS
    Viewer = {v1}
    Platform = {"webrtc-rs"}
    None = None
    MaxReadies = 2
    MaxFaults = 0
    MaxOffers = 5
    MaxStopping = 2
    Eve = v1
SPECIFICATION Spec
INVARIANTS
    CaptureStopsWithSession
CHECK_DEADLOCK FALSE
