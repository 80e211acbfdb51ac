SPECIFICATION TrafficSpec
CONSTANTS
    None = None
    doh1 = doh1
    doh2 = doh2
    dns = dns
    Callers = {c1}
    Testers = {t1}
    Watchers = {}
    Objs = {o1, o2, o3, o4}
    Endpoints = {doh1, doh2, dns}
    PlainDNS = {dns}
    Providers <- SteeredProviders
    Fallible = {1, 3}
    InitEndpoint = doh2
    ErrorThreshold = 1
    Offering = {1, 2}
    Healthy = {doh1, doh2, dns}
PROPERTIES DoReturns TestEnds Converges
