CONSTANTS
    MaxMessageSize = 8
    UsizeMax = 15
    Messages <- MCMessages
    Registrations <- MCRegistrations
    FrameIds <- MCFrameIds
    Garbage <- MCGarbage
    Strings <- MCStrings
    Values <- MCValues
SPECIFICATION Spec
CHECK_DEADLOCK FALSE
INVARIANTS
    TypeOK
    InBounds
    DecodersAgree
    DecodesItsFrame
    RoundTrip
    FramedAsBytes
    RegistrationExact
    BandsAgree
    TagRoundTrip
