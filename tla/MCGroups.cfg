CONSTANTS
    a = a
    b = b
    c = c
    w = w
    s = s
    ENTITY = {a, b, c, w, s}
    Casts <- MCCasts
    MaxGroups = 4
    GroupSizes = {2, 3}
    Followed = {"invites out"}
    Nobody = Nobody
SPECIFICATION Spec
INVARIANTS TypeOK Intact WithinLimit InvitesAgree
SYMMETRY Symmetry
CHECK_DEADLOCK FALSE
