\* Spec section 8 end-to-end: owned resolv.conf, no backup.
CONSTANTS
    c1 = c1  c2 = c2  h1 = h1  h2 = h2  NoFile = NoFile  Zero = Zero  NoBase = NoBase
    Configs = {c1, c2}
    HostConfs = {h1, h2}
    Undecodable = {h2}
    BindModes = {FALSE, TRUE}
    LegacyLinks = {FALSE}
    GUIUser = FALSE
    MaxFaults = 0
    MaxCrashes = 0
    MaxExternal = 0
SPECIFICATION Spec
SYMMETRY ConfigSymmetry
PROPERTY GetBaseWithoutBackupIsZero
