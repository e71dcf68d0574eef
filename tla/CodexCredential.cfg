SPECIFICATION Spec
CONSTANTS
    Processes = {p1}
    Reviews = {r1, r2}
    MaxTokens = 3
    MaxVersion = 4
INVARIANT TypeOK
INVARIANT RenewalReachesRow
INVARIANT CacheFollowsConfiguration
PROPERTY RenewalReplacesOrigin
\* with every token issued nothing may be left to do
CHECK_DEADLOCK FALSE
