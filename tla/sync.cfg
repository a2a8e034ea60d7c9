SPECIFICATION Spec
CONSTANTS
    A = A
    B = B
    C = C
    t = t
    u = u
    p = p
    c = c
    x = x
    Nothing = Nothing
    Groups <- MCGroups
    Texts = {t, u, x}
    Images = {p, c}
    Reencoded <- MCReencoded
    Unsent = {x}
    Limit = 1
INVARIANTS TypeOK NoEcho HistoryUpToDate
PROPERTIES Quiesces Shares
