SPECIFICATION Spec
CONSTANTS
    UserIds = {u1, u2, u3}
    Emails = {e1, e2}
    u1 = u1
    u2 = u2
    e1 = e1
    e2 = e2
    Known <- OneUser
    None = None
    Tabs = {a, b}
    Tokens = {t1, t2}
    Expiring = {t1}
    Requests = {r1}
SYMMETRY TabSymmetry
INVARIANTS
    TypeOK
    ActsAsShown
    LoginsBelong
    RedirectsEnd
    Inv
PROPERTIES
    ValidTokensSurvive
