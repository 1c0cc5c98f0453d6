SPECIFICATION Spec
CONSTANTS
    m1 = m1
    m2 = m2
    q1 = q1
    q2 = q2
    Absent = Absent
    Torn = Torn
    None = None
    Passwords = {q1, q2}
    Keys = {m1, m2}
    Foreign <- MCForeign
    LogNs = {0, 9, 10}
INVARIANT KeySurvives
INVARIANT WrittenIsReadable
INVARIANT TreeMatchesDrive
