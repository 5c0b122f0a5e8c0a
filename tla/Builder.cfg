CONSTANTS
    b = b  s1 = s1  s2 = s2
    Slugs = {b, s1, s2}
    Bundled = {b}
    Owners = {o1, o2}
    NoToken = NoToken
    Notes = {n1, n2, h}
    Hidden = {h}
    Skills = {k1, k2}
    Absent = Absent
    Torn = Torn
    MaxProfiles = 1
    MaxNotes = 1
    MaxSkills = 1
    MaxCuts = 1
SPECIFICATION Spec
SYMMETRY MCSymmetry
INVARIANTS TypeOK CapsHold TextsAreTheOwners LoadsWhole
PROPERTY OwnerKeepsProfile
