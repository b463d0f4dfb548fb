\* One channel: every loss, repetition and order of its packets.
CONSTANTS
    c1 = c1
    Channels <- MCChannels
    Retry = 1
    Idle = 2
SPECIFICATION FairSpec
INVARIANTS
    SessionsAgree
PROPERTIES
    DemoSucceeds
CHECK_DEADLOCK FALSE
