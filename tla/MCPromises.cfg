SPECIFICATION PromisesSpec
CONSTANTS
    c1 = c1
    acme = acme
    d1 = d1
    d2 = d2
    q1 = q1
    q2 = q2
    x1 = x1
    s1 = s1
    s2 = s2
    s3 = s3
    l1 = l1
    k1 = k1
    k2 = k2
    a1 = a1
    a2 = a2
    e1 = e1
    None = None
    Blank = Blank
    Company = {c1}
    Country = {"PK"}
    Name = {acme}
    Customer = {"acme"}
    Norm <- MCNorm
    Deal = {d1, d2}
    Request = {q1, q2}
    WindowDays = {1, 2}
    ExtensionDays = {1}
    WarningDays = 1
    Deployed <- NothingDeployed
    MaxDay = 4
    Commission = {x1}
    Session = {s1, s2, s3}
    Licence = {l1}
    LicenceClerk = {k1, k2}
    Notifier = {s1, s2}
    NoticeDays = 1
    SoonDays = 1
    LastDay = 2
    Activation = {2}
    MaxFailures = 1
    Activity = {a1, a2}
    Editor = {e1}
    Sweeper = {s1, s2}
    LastHour = 2
    BatchSize = 1
    MaxAborts = 1
CHECK_DEADLOCK FALSE
INVARIANTS PromisesTypeOK RemindedOnce LicencesStand
PROPERTIES KeepsPromise LapsedIsClosed ImplementsLedger LockReleased SentInTime
