\* Calls ordered against other writers, no failure, no crash; plain or bind-mounted resolv.conf.
\* resolv.conf either an ordinary file or a bind mount (both per run).
CONSTANTS
    c1 = c1  c2 = c2  h1 = h1  h2 = h2  NoFile = NoFile  Zero = Zero  NoBase = NoBase
    Configs = {c1, c2}
    HostConfs = {h1, h2}
    Undecodable = {h2}
    BindModes = {FALSE, TRUE}
    LegacyLinks = {FALSE}
    GUIUser = FALSE
    MaxFaults = 0
    MaxCrashes = 0
    MaxExternal = 2
SPECIFICATION Spec
SYMMETRY ConfigSymmetry
INVARIANT TypeOK
INVARIANT HostConfigRecoverable
PROPERTY RevertRestoresHost
PROPERTY BaseConfigIsHost
PROPERTY HostResolverSpec
