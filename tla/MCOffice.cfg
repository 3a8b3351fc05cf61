SPECIFICATION OfficeSpec
CONSTANTS
    boss = boss
    c1 = c1
    c2 = c2
    c3 = c3
    m1 = m1
    r1 = r1
    o1 = o1
    k1 = k1
    k2 = k2
    f1 = f1
    f2 = f2
    f3 = f3
    q1 = q1
    d1 = d1
    d2 = d2
    d3 = d3
    l1 = l1
    l2 = l2
    quiz = quiz
    u1 = u1
    t1 = t1
    t2 = t2
    s1 = s1
    None = None
    Company = {c1, c2, c3}
    Boss = boss
    Manager = {m1}
    Rep = {r1}
    Opp = {o1}
    Clerk = {k1, k2}
    Lesson = {l1, l2}
    Quiz = quiz
    Learner = {u1}
    Tab = {t1, t2}
    TopScore = 2
    Syllabus <- Syllabi
    File = {f1, f2, f3}
    DocRequest = {q1}
    Doc = {d1, d2, d3}
    Upload = {k1, k2}
    MaxDocuments = 1
    Person = {u1}
    Stage = {"vm_provisioning", "deployment"}
    VM = "vm_provisioning"
    PocClerk = {k1, k2}
    Reviewer = {m1}
    ReviewClerk = {k1, k2, s1}
    MaxClaim = 2
    LastDate = 2
CHECK_DEADLOCK FALSE
INVARIANTS OfficeTypeOK HierarchyStands RoutesCompared FiguresCompared ReviewStands PocStands CompletionStands NamedFilesExist HistoryKept
