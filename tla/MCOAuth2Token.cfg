SPECIFICATION MCSpec
CONSTANTS
    g1 = g1
    g2 = g2
    g3 = g3
    q1 = q1
    q2 = q2
    q3 = q3
    t1 = t1
    t2 = t2
    t3 = t3
    u1 = u1
    u2 = u2
    j1 = j1
    j2 = j2
    None = None
    Grants = {g1, g2, g3}
    LegacyGrants = {g2}
    HybridGrants = {g2, g3}
    Requests = {q1, q2, q3}
    MaxTokens = 4
SYMMETRY Symmetry
INVARIANTS
    TokensSound
    

    
CHECK_DEADLOCK FALSE
