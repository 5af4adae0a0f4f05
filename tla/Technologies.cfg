SPECIFICATION Spec
CONSTANTS
    s1 = s1
    s2 = s2
    t1 = t1
    Services <- MCServices
    Technologies <- MCTechnologies
    MaxChanges = 3
PROPERTY
    AddedTechnologyReported
CHECK_DEADLOCK FALSE
