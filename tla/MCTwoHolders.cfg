SPECIFICATION Spec
CONSTANTS
    c1 = c1
    c2 = c2
    acme = acme
    theCo = theCo
    d1 = d1
    d2 = d2
    q1 = q1
    q2 = q2
    None = None
    Blank = Blank
    Company = {c1, c2}
    Country = {"PK"}
    Name = {acme}
    Customer = {"acme"}
    Norm <- MCNorm
    Deal = {d1, d2}
    Request = {q1}
    WindowDays = {1, 2}
    ExtensionDays = {1}
    WarningDays = 1
    Deployed <- NothingDeployed
    MaxDay = 4
SYMMETRY SymmetricCompanies
INVARIANT OneHolderPerName
