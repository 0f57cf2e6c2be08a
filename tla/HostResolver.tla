---------------------------- MODULE HostResolver ----------------------------
(***************************************************************************)
(* What the direct manager promises about the host's resolver files, one *)
(* call at a time (section 4.3 of the design): the setting in effect in  *)
(* /etc/resolv.conf, ours or another authority's, and the host setting    *)
(* saved aside while ours is in effect. Each call of the manager is one   *)
(* step or none: TakeOver for SetDNS of a non-zero config, Restore for    *)
(* SetDNS of the zero config and for Close. Other authorities may replace *)
(* or delete the file between calls.                                      *)
(***************************************************************************)
CONSTANTS
    Configs,     \* configurations the manager applies
    HostConfs,   \* configurations of other authorities
    None         \* no file

VARIABLES
    active,      \* the setting /etc/resolv.conf holds, or None
    saved        \* the saved host setting (the backup), or None

vars == <<active, saved>>

Ours(c) == [owner |-> "tailscale", conf |-> c]
Host(h) == [owner |-> "host", conf |-> h]
HostSettings == {Host(h) : h \in HostConfs}
IsHost(x) == x # None /\ x.owner = "host"

Init ==
    /\ active \in {Ours(c) : c \in Configs} \cup HostSettings \cup {None}
    /\ saved \in HostSettings \cup {None}

\* takeOwnership, then the new file: a host setting in effect is saved;
\* with no file in effect a stale saved setting is dropped; over our own
\* file the saved setting stays valid.
TakeOver(c) ==
    /\ active' = Ours(c)
    /\ saved' = CASE active = None -> None
                  [] IsHost(active) -> active
                  [] OTHER          -> saved

\* restore: with a saved setting, a host setting in effect means another
\* authority took over and the saved one is stale; otherwise the saved
\* setting is put back. Without one, nothing happens (no step).
Restore ==
    /\ saved # None
    /\ active' = IF IsHost(active) THEN active ELSE saved
    /\ saved' = None

OtherAuthorityWrites(h) == active' = Host(h) /\ UNCHANGED saved

OtherAuthorityRemoves == active # None /\ active' = None /\ UNCHANGED saved

Next ==
    \/ \E c \in Configs : TakeOver(c)
    \/ Restore
    \/ \E h \in HostConfs : OtherAuthorityWrites(h)
    \/ OtherAuthorityRemoves

Spec == Init /\ [][Next]_vars

=============================================================================
