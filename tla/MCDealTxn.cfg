SPECIFICATION CrowdSpec
CONSTANTS
    c1 = c1
    c2 = c2
    acme = acme
    d1 = d1
    d2 = d2
    q1 = q1
    q2 = q2
    h1 = h1
    h2 = h2
    w1 = w1
    w2 = w2
    z = z
    None = None
    Blank = Blank
    Company = {c1, c2}
    Country = {"PK"}
    Name = {acme}
    Customer = {"acme"}
    Norm <- MCNorm
    Deal = {d1, d2}
    Request = {q1, q2}
    WindowDays = {1, 2}
    ExtensionDays = {1}
    WarningDays = 1
    Handler = {h1, h2, z}
    Sweeper = {w1, w2, z}
    CountryOf <- MCCountryOf
    MaxRow = 3
    MaxDay = 4
    Crowds <- AnyCrowd
SYMMETRY Symmetric
INVARIANTS TypeOK OnlyOnce
PROPERTIES SerialIsExclusivity OneUserSafe
