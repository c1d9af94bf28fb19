SPECIFICATION Spec
CONSTANTS
    t1 = t1  t2 = t2
    analyst = analyst  reviewer = reviewer  admin = admin
    ada = ada  ADA = ADA  bob = bob
    pw = pw  pw2 = pw2
    None = None
    Threads = {t1, t2}
    Emails <- MCEmails
    Typed = {analyst, ada, ADA, bob}
    HeaderIds = {3, 7}
    Lower <- MCLower
    Passwords = {pw, pw2}
    AskedRoles <- MCAskedRoles
    Seeded <- MCSeeded
    MaxAccepted = 3
INVARIANTS
    TypeOK
    BuiltInAccountsStand
    AcceptedKeepsIdentity
PROPERTIES
    AccountsStay
