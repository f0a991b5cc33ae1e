SPECIFICATION FairSpec
CONSTANTS
    MaxFrames = 5
    MaxGammas = 1
    FirstCounter = 1
    Worlds = {{"gamma"}, {"undamaged", "gamma"},
              {"gamma", "power", "refused"}, {"power", "refused", "swap"}}
INVARIANTS InfosAgree FramesAreDriven GammaNotLost
PROPERTY ClockNotStuck
CHECK_DEADLOCK FALSE
