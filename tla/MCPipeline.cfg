SPECIFICATION FairSpec
CONSTANTS
    None = None
    o1 = o1
    o2 = o2
    c1 = c1
    a1 = a1
    Opportunity = {o1, o2}
    Company = {c1}
    Admin = {a1}
    Rate = {0, 1}
    Rule <- MCRule
    GraceDays = 2
    MaxAge = 2
    ReminderDays = 1
    EscalationDays = 2
INVARIANTS
    TypeOK ClaimIsTimed TierWasEarned
PROPERTIES
    WinCostsNothing StuckIsEscalated ShortIsDemoted EarnedIsPromoted
