SPECIFICATION Spec
CONSTANTS
    None = None
    p1 = p1
    p2 = p2
    p3 = p3
    r1 = r1
    a1 = a1
    c1 = c1
    c2 = c2
    o1 = o1
    o2 = o2
    d1 = d1
    s1 = s1
    Partner = {p1, p2, p3}
    Rep = {r1}
    Admin = {a1}
    Company = {c1, c2}
    CompanyOf <- MCCompanyOf
    Opportunity = {o1, o2}
    Deal = {d1}
    Stage = {s1}
    Typed = {o1}
    Staffed = {o1}
    Followed = {p1, p2, r1, a1}
INVARIANTS
    DeadLoginHoldsNothing
CHECK_DEADLOCK FALSE
