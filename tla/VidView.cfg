SPECIFICATION Spec
CONSTANTS
    None = None
    lan = lan
    relay = relay
    fixed = fixed
    app = app
    page = page
    Urls <- TwoUrls
    Lan = {lan}
    Targets = {app, page}
    Publishers = {fixed, relay}
    MaxSessions = 3
    MaxSeq = 3
    Moving <- OneMoves
PROPERTIES
    LossIsReal
    ViewpointsReturn
    LightGoesOut
