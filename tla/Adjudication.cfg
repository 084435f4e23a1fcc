CONSTANTS
    x = x
    a = a
    b = b
    c = c
    d = d
    m = m
    n = n
    v = v
    h = h
    w = w
    k = k
    s = s
    t = t
    e = e
    i = i
    f = f
    z = z
    j = j
    l = l
    o = o
    q = q
    r = r
    y = y
    g = g
    P = P
    Q = Q
    R = R
    Places = {x, a, b, c, d, m, n, v, h, w, k, s, t, e, i, f, z, j, l, o, q, r, y, g}
    Adjacent <- MCAdjacent
    Water = {e, i, z, o, q, y}
    Coasts = {s, t, f, j, l, r, g}
    Fleets = {e, i, z, f, o, q, r, y}
    Powers = {P, Q, R}
    Situations <- MCSituations
    OrderTypes <- MCOrderTypes
SPECIFICATION FairSpec
INVARIANTS
    TypeOK
    OffersAreValid
    FollowsRules
    CarriedRightly
    DislodgedRightly
PROPERTIES
    Terminates
