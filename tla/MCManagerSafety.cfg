SPECIFICATION Spec
CONSTANTS
    None = None
    doh1 = doh1
    doh2 = doh2
    dns = dns
    Callers = {c1}
    Testers = {t1, t2}
    Watchers = {w}
    Objs = {o1, o2, o3, o4, o5}
    Endpoints = {doh1, doh2, dns}
    PlainDNS = {dns}
    Providers <- SteeredProviders
    Fallible = {1, 3}
    InitEndpoint = None
    ErrorThreshold = 1
    Offering = {1, 2}
    Healthy = {doh1, doh2, dns}
SYMMETRY Symmetric
INVARIANTS LockDiscipline SingleTester
