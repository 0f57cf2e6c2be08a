\* Spec section 8: "nameserver" glued to what follows is rejected.
CONSTANTS
    i1 = i1  i2 = i2  d1 = d1  d2 = d2  w1 = w1  ParseError = ParseError
    IPs = {i1, i2}
    Domains = {d1, d2}
    Words = {w1}
    MaxServers = 2
    MaxDomains = 2
    MaxLine = 4
SPECIFICATION Spec
INVARIANT KeywordNeedsSpace
