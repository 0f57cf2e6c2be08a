-------------------------- MODULE MCDirectManager --------------------------
(***************************************************************************)
(* Model-checking instance of DirectManager. The configs and host        *)
(* configurations are model values given in the .cfg files; the configs *)
(* SetDNS may be called with are interchangeable, hence the symmetry.   *)
(***************************************************************************)
EXTENDS DirectManager, TLC

ConfigSymmetry == Permutations(Configs)

-----------------------------------------------------------------------------
(* Refinement mapping onto HostResolver. Between calls the abstract state *)
(* is read off the files; while a call runs it is the files the call      *)
(* found, so the whole call is one abstract step, taken when it returns. *)

\* A file as an abstract setting: ours when it holds the marker.
Setting(x) ==
    IF x = NoFile THEN NoFile
    ELSE [owner |-> IF x.marker THEN "tailscale" ELSE "host", conf |-> x.conf]

AbsResolv == IF pc = "idle" THEN Follow(resolvConf) ELSE lv.start
AbsBackup == IF pc = "idle" THEN Follow(backupConf) ELSE lv.startBackup

HR == INSTANCE HostResolver
        WITH active <- Setting(AbsResolv),
             saved  <- Setting(AbsBackup),
             None   <- NoFile

\* The manager implements HostResolver: every call, seen from outside,
\* is TakeOver, Restore or no change of the files, and between calls only
\* other authorities change resolv.conf.
HostResolverSpec == HR!Spec

=============================================================================
