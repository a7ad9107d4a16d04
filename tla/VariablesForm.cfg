\* Four variables, whatever the server answers, two changes by the user.
CONSTANTS
    Vars <- MCVars
    Templates <- MCTemplates
    Options = {1, 2}
    Configs = {c1, c2}
    MaxActs = 2
SPECIFICATION FairSpec
INVARIANT OptionsFit
PROPERTY OverlayLifts
\* The form waits for its user.
CHECK_DEADLOCK FALSE
