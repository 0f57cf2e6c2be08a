\* Two failing file-system calls, one crash-and-restart, one other write between calls; weak fairness of the manager steps.
CONSTANTS
    c1 = c1  c2 = c2  h1 = h1  h2 = h2  NoFile = NoFile  Zero = Zero  NoBase = NoBase
    Configs = {c1, c2}
    HostConfs = {h1, h2}
    Undecodable = {h2}
    BindModes = {FALSE, TRUE}
    LegacyLinks = {FALSE, TRUE}
    GUIUser = FALSE
    MaxFaults = 2
    MaxCrashes = 1
    MaxExternal = 1
SPECIFICATION FairSpec
INVARIANT NoOwnBackup
PROPERTY AppliedConfigInPlace
PROPERTY CallsReturn
