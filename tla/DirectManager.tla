--------------------------- MODULE DirectManager ---------------------------
(***************************************************************************)
(* The directManager of src/net/dns/direct.go: the DNS backend that       *)
(* replaces /etc/resolv.conf with a generated file, keeps the host's      *)
(* previous file in a backup, and puts it back on revert or Close.        *)
(*                                                                         *)
(* Every call to the wholeFileFS (Stat, ReadFile, WriteFile, Rename,      *)
(* Remove, Truncate) is one step, so crashes and failing file operations *)
(* can fall between any two of them; other writers act between calls.   *)
(* The manager is one sequential caller: pc is its position in the code,  *)
(* lv holds the locals of the running call.                               *)
(***************************************************************************)
EXTENDS Naturals, FiniteSets

CONSTANTS
    Configs,        \* non-zero OSConfig values a caller may pass to SetDNS
    HostConfs,      \* configurations other authorities write to resolv.conf
    Undecodable,    \* host files readResolv rejects (e.g. multi-domain search)
    BindModes,      \* {FALSE}, {TRUE} or both: resolv.conf is a bind mount
    GUIUser,        \* runningAsGUIDesktopUser() for this process
    MaxFaults,      \* bound on injected file-system errors
    MaxCrashes,     \* bound on process crashes (each followed by restart)
    MaxExternal,    \* bound on writes by other resolv.conf authorities
    LegacyLinks,    \* {FALSE}, {TRUE} or both: resolv.conf is the old symlink
    NoFile,         \* model value: the path does not exist
    Zero,           \* model value: the zero OSConfig
    NoBase          \* model value: what a call returns when no OSConfig

ASSUME Undecodable \subseteq HostConfs
ASSUME Configs \cap HostConfs = {}
ASSUME BindModes \subseteq BOOLEAN /\ BindModes # {}
ASSUME LegacyLinks \subseteq BOOLEAN /\ LegacyLinks # {}
ASSUME GUIUser \in BOOLEAN
ASSUME {NoFile, Zero, NoBase} \cap (Configs \cup HostConfs) = {}
ASSUME {MaxFaults, MaxCrashes, MaxExternal} \subseteq Nat

VARIABLES
    fs,            \* path -> content, or NoFile
    renameBroken,  \* directManager.renameBroken (process-local, sticky)
    bindMount,     \* environment: resolv.conf is bind-mounted (fixed)
    pc,            \* where the running call is; "idle" between calls
    lv,            \* locals of the running call
    ret,           \* what the last finished call returned
    hostConf,      \* history: the latest configuration of another authority
    faults, crashes, externals  \* bounded environment events

vars == <<fs, renameBroken, bindMount, pc, lv, ret, hostConf,
          faults, crashes, externals>>

-----------------------------------------------------------------------------
(* Paths and contents.                                                     *)

resolvConf == "/etc/resolv.conf"
backupConf == "/etc/resolv.pre-tailscale-backup.conf"
legacyConf == "/etc/resolv.tailscale.conf"
\* atomicWriteFile's temporary name; the random suffix is abstracted away.
tmpConf    == "/etc/resolv.conf.RANDOM.tmp"
Paths      == {resolvConf, backupConf, legacyConf, tmpConf}


\* A file is abstracted to whether it contains "generated by tailscale"
\* and the OSConfig readResolv decodes from it.
writeResolvConf(c) == [marker |-> TRUE,  conf |-> c]
HostFile(h)        == [marker |-> FALSE, conf |-> h]
EmptyFile          == [marker |-> FALSE, conf |-> Zero]   \* truncated
Contents == {writeResolvConf(c) : c \in Configs}
              \cup {HostFile(h) : h \in HostConfs} \cup {EmptyFile}

\* readResolv of a file: its OSConfig, or NoBase for the files it rejects.
readResolv(x) == IF x.conf \in Undecodable THEN NoBase ELSE x.conf

\* Earlier versions made resolv.conf a symlink to the legacy file (the
\* comment in Close). os.Stat, ioutil.ReadFile, ioutil.WriteFile and
\* os.Truncate follow it; os.Rename and os.Remove act on the link itself.
Symlink == [link |-> legacyConf]

\* What Stat and ReadFile of path p see in the file map f.
Deref(f, p) == IF f[p] = Symlink THEN f[legacyConf] ELSE f[p]
Follow(p)   == Deref(fs, p)
\* The file WriteFile and Truncate of path p change.
Target(p)   == IF fs[p] = Symlink THEN legacyConf ELSE p

\* The content test of ownedByTailscale (bytes.Contains of the marker).
HasMarker(x) == x # NoFile /\ x.marker
IsHostFile(x) == x # NoFile /\ ~x.marker

\* start and startBackup are not locals of the code: they record
\* resolv.conf and the backup as the call found them, for the property on
\* restarts of systemd-resolved and for the refinement mapping.
NoLocals == [op |-> "none", cfg |-> Zero, owned |-> FALSE, buf |-> NoFile,
             old |-> NoFile, new |-> NoFile, caller |-> "none", err |-> FALSE,
             start |-> NoFile, startBackup |-> NoFile]

-----------------------------------------------------------------------------
(* Outcomes of file-system calls.                                          *)

\* A call that fails by itself when natural holds, and may otherwise fail
\* through an injected fault while faults remain.
Outcomes(natural) ==
    IF natural THEN {FALSE}
    ELSE IF faults < MaxFaults THEN {TRUE, FALSE} ELSE {TRUE}
CountFault(natural, ok) ==
    faults' = IF ok \/ natural THEN faults ELSE faults + 1

\* Stat and ReadFile errors other than "does not exist".
IOError == faults < MaxFaults /\ faults' = faults + 1

\* ioutil.WriteFile truncates before it writes: a failed write leaves the
\* target as it was (open failed) or truncated (write failed).
FailedWrites(path) == {fs, [fs EXCEPT ![path] = EmptyFile]}

-----------------------------------------------------------------------------
(* Control helpers.                                                        *)

Return(ok, base, kicked) ==
    /\ pc' = "idle"
    /\ lv' = NoLocals
    /\ ret' = [op |-> lv.op, ok |-> ok, base |-> base, kicked |-> kicked]

Fail == Return(FALSE, NoBase, FALSE)

Goto(l) == pc' = l /\ UNCHANGED <<lv, ret>>

Env == <<bindMount, hostConf, crashes, externals>>

\* Entry of directManager.rename: the renameBroken test picks the path.
CallRename(old, new, caller) ==
    /\ pc' = IF renameBroken THEN "rn_read" ELSE "rn_try"
    /\ lv' = [lv EXCEPT !.old = old, !.new = new, !.caller = caller]
    /\ UNCHANGED ret

\* The return of rename, continued in the function that called it.
RenameDone(ok) ==
    CASE lv.caller = "backupConfig"    -> IF ok THEN Goto("aw_write") ELSE Fail
      [] lv.caller = "atomicWriteFile" -> /\ pc' = "aw_cleanup"
                                          /\ lv' = [lv EXCEPT !.err = ~ok]
                                          /\ UNCHANGED ret
      [] lv.caller = "restoreBackup"   -> IF ok THEN Goto("kick") ELSE Fail

-----------------------------------------------------------------------------
(* Entry points, called only between calls (the caller serialises them).  *)

SetDNS(c) ==
    /\ pc = "idle"
    /\ lv' = [NoLocals EXCEPT !.op = IF c = Zero THEN "revert" ELSE "set",
                              !.cfg = c, !.start = Follow(resolvConf),
                              !.startBackup = Follow(backupConf)]
    /\ pc' = IF c = Zero THEN "rs_stat_backup" ELSE "bk_stat"
    /\ UNCHANGED <<fs, renameBroken, faults, ret>> /\ UNCHANGED Env

GetBaseConfig ==
    /\ pc = "idle"
    /\ lv' = [NoLocals EXCEPT !.op = "get", !.start = Follow(resolvConf),
                              !.startBackup = Follow(backupConf)]
    /\ pc' = "gb_owned"
    /\ UNCHANGED <<fs, renameBroken, faults, ret>> /\ UNCHANGED Env

\* Close removes the legacy file (error ignored), then runs the same
\* steps as restoreBackup; its restart of resolved follows the rename.
Close ==
    /\ pc = "idle"
    /\ \E ok \in Outcomes(fs[legacyConf] = NoFile) :
          /\ fs' = IF ok THEN [fs EXCEPT ![legacyConf] = NoFile] ELSE fs
          /\ CountFault(fs[legacyConf] = NoFile, ok)
    /\ lv' = [NoLocals EXCEPT !.op = "close", !.start = Follow(resolvConf),
                              !.startBackup = Follow(backupConf)]
    /\ pc' = "rs_stat_backup"
    /\ UNCHANGED <<renameBroken, ret>> /\ UNCHANGED Env

-----------------------------------------------------------------------------
(* backupConfig                                                            *)

\* Mutant: with no resolv.conf the stale backup is not removed.
BackupStatKeepsStale ==
    /\ pc = "bk_stat"
    /\ \/ IOError /\ Fail
       \/ /\ UNCHANGED faults
          /\ Goto(IF Follow(resolvConf) = NoFile THEN "aw_write" ELSE "bk_owned")
    /\ UNCHANGED <<fs, renameBroken>> /\ UNCHANGED Env

\* Stat(resolvConf): absent means there is nothing to back up.
BackupStat ==
    /\ pc = "bk_stat"
    /\ \/ IOError /\ Fail
       \/ /\ UNCHANGED faults
          /\ Goto(IF Follow(resolvConf) = NoFile THEN "bk_rm_backup" ELSE "bk_owned")
    /\ UNCHANGED <<fs, renameBroken>> /\ UNCHANGED Env

\* Remove(backupConf), error ignored, "to avoid restoring something old".
BackupRemoveStale ==
    /\ pc = "bk_rm_backup"
    /\ \E ok \in Outcomes(fs[backupConf] = NoFile) :
          /\ fs' = IF ok THEN [fs EXCEPT ![backupConf] = NoFile] ELSE fs
          /\ CountFault(fs[backupConf] = NoFile, ok)
    /\ Goto("aw_write")
    /\ UNCHANGED renameBroken /\ UNCHANGED Env

\* Mutant: the owned early return dropped, resolv.conf always renamed.
BackupCheckOwnedAlwaysRenames ==
    /\ pc = "bk_owned"
    /\ \/ IOError /\ Fail
       \/ /\ UNCHANGED faults
          /\ CallRename(resolvConf, backupConf, "backupConfig")
    /\ UNCHANGED <<fs, renameBroken>> /\ UNCHANGED Env

\* ownedByTailscale (Stat and ReadFile of resolvConf, one step); a file of
\* ours is kept, any other is renamed to the backup path.
BackupCheckOwned ==
    /\ pc = "bk_owned"
    /\ \/ IOError /\ Fail
       \/ /\ UNCHANGED faults
          /\ IF HasMarker(Follow(resolvConf))
               THEN Goto("aw_write")
               ELSE CallRename(resolvConf, backupConf, "backupConfig")
    /\ UNCHANGED <<fs, renameBroken>> /\ UNCHANGED Env

-----------------------------------------------------------------------------
(* rename: fs.Rename, or once it has failed, copy then remove/truncate.   *)

\* A real rename fails when the source is gone, or crosses the bind mount.
RenameCrossesMount == bindMount /\ resolvConf \in {lv.old, lv.new}

\* Mutant: a failed rename is retried instead of falling back to a copy.
RenameTryRetries ==
    /\ pc = "rn_try"
    /\ LET natural == fs[lv.old] = NoFile \/ RenameCrossesMount
       IN \E ok \in Outcomes(natural) :
            /\ CountFault(natural, ok)
            /\ IF ok
                 THEN /\ fs' = [fs EXCEPT ![lv.new] = fs[lv.old],
                                          ![lv.old] = NoFile]
                      /\ RenameDone(TRUE)
                 ELSE Goto("rn_try") /\ UNCHANGED fs
    /\ UNCHANGED renameBroken /\ UNCHANGED Env

RenameTry ==
    /\ pc = "rn_try"
    /\ LET natural == fs[lv.old] = NoFile \/ RenameCrossesMount
       IN \E ok \in Outcomes(natural) :
            /\ CountFault(natural, ok)
            /\ IF ok
                 THEN /\ fs' = [fs EXCEPT ![lv.new] = fs[lv.old],
                                          ![lv.old] = NoFile]
                      /\ RenameDone(TRUE)
                      /\ UNCHANGED renameBroken
                 ELSE /\ renameBroken' = TRUE
                      /\ Goto("rn_read")
                      /\ UNCHANGED fs
    /\ UNCHANGED Env

\* Mutant: the copy fallback reads the destination (arguments swapped).
RenameReadSwapped ==
    /\ pc = "rn_read"
    /\ \/ Follow(lv.new) = NoFile /\ UNCHANGED faults /\ RenameDone(FALSE)
       \/ Follow(lv.new) # NoFile /\ IOError /\ RenameDone(FALSE)
       \/ /\ Follow(lv.new) # NoFile /\ UNCHANGED faults
          /\ pc' = "rn_write" /\ lv' = [lv EXCEPT !.buf = Follow(lv.new)]
          /\ UNCHANGED ret
    /\ UNCHANGED <<fs, renameBroken>> /\ UNCHANGED Env

RenameRead ==
    /\ pc = "rn_read"
    /\ \/ Follow(lv.old) = NoFile /\ UNCHANGED faults /\ RenameDone(FALSE)
       \/ Follow(lv.old) # NoFile /\ IOError /\ RenameDone(FALSE)
       \/ /\ Follow(lv.old) # NoFile /\ UNCHANGED faults
          /\ pc' = "rn_write" /\ lv' = [lv EXCEPT !.buf = Follow(lv.old)]
          /\ UNCHANGED ret
    /\ UNCHANGED <<fs, renameBroken>> /\ UNCHANGED Env

RenameWrite ==
    /\ pc = "rn_write"
    /\ \/ /\ fs' = [fs EXCEPT ![Target(lv.new)] = lv.buf] /\ UNCHANGED faults
          /\ Goto("rn_remove")
       \/ /\ IOError /\ fs' \in FailedWrites(Target(lv.new))
          /\ RenameDone(FALSE)
    /\ UNCHANGED renameBroken /\ UNCHANGED Env

\* Remove(old); a bind-mounted resolv.conf cannot be removed.
RenameRemove ==
    /\ pc = "rn_remove"
    /\ LET natural == fs[lv.old] = NoFile \/ (bindMount /\ lv.old = resolvConf)
       IN \E ok \in Outcomes(natural) :
            /\ CountFault(natural, ok)
            /\ IF ok THEN fs' = [fs EXCEPT ![lv.old] = NoFile] /\ RenameDone(TRUE)
                     ELSE UNCHANGED fs /\ Goto("rn_trunc")
    /\ UNCHANGED renameBroken /\ UNCHANGED Env

RenameTruncate ==
    /\ pc = "rn_trunc"
    /\ \E ok \in Outcomes(Follow(lv.old) = NoFile) :
          /\ CountFault(Follow(lv.old) = NoFile, ok)
          /\ fs' = IF ok THEN [fs EXCEPT ![Target(lv.old)] = EmptyFile] ELSE fs
          /\ RenameDone(ok)
    /\ UNCHANGED renameBroken /\ UNCHANGED Env

-----------------------------------------------------------------------------
(* atomicWriteFile(fs, resolvConf, writeResolvConf(cfg)) and SetDNS's end. *)

\* rand.Read, then WriteFile of the temporary file, then rename onto
\* resolvConf. The deferred Remove(tmp) runs unless rand.Read failed.
AtomicWriteTmp ==
    /\ pc = "aw_write"
    /\ \/ IOError /\ Fail /\ UNCHANGED fs                       \* rand.Read
       \/ /\ IOError /\ fs' \in FailedWrites(tmpConf)
          /\ pc' = "aw_cleanup" /\ lv' = [lv EXCEPT !.err = TRUE]
          /\ UNCHANGED ret
       \/ /\ fs' = [fs EXCEPT ![tmpConf] = writeResolvConf(lv.cfg)]
          /\ UNCHANGED faults
          /\ CallRename(tmpConf, resolvConf, "atomicWriteFile")
    /\ UNCHANGED renameBroken /\ UNCHANGED Env

\* Mutant: the error of atomicWriteFile is lost in the deferred cleanup.
AtomicCleanupDropsErr ==
    /\ pc = "aw_cleanup"
    /\ \E ok \in Outcomes(fs[tmpConf] = NoFile) :
          /\ fs' = IF ok THEN [fs EXCEPT ![tmpConf] = NoFile] ELSE fs
          /\ CountFault(fs[tmpConf] = NoFile, ok)
    /\ Goto("kick")
    /\ UNCHANGED renameBroken /\ UNCHANGED Env

\* defer fs.Remove(tmpName), error ignored; then SetDNS returns the error
\* of atomicWriteFile, or goes on to restart resolved.
AtomicCleanup ==
    /\ pc = "aw_cleanup"
    /\ \E ok \in Outcomes(fs[tmpConf] = NoFile) :
          /\ fs' = IF ok THEN [fs EXCEPT ![tmpConf] = NoFile] ELSE fs
          /\ CountFault(fs[tmpConf] = NoFile, ok)
    /\ IF lv.err THEN Fail ELSE Goto("kick")
    /\ UNCHANGED renameBroken /\ UNCHANGED Env

\* The answers of isResolvedRunning(): systemctl is-active may say either.
ResolvedAnswers == BOOLEAN

\* changed && isResolvedRunning() && !runningAsGUIDesktopUser(): restart
\* systemd-resolved, best effort; the call then returns nil. Only paths
\* that changed something reach this step.
RestartResolved ==
    /\ pc = "kick"
    /\ \E running \in ResolvedAnswers : Return(TRUE, NoBase, running /\ ~GUIUser)
    /\ UNCHANGED <<fs, renameBroken, faults>> /\ UNCHANGED Env

-----------------------------------------------------------------------------
(* restoreBackup, also the body of Close after the legacy file.          *)

\* Stat(backupConf): without a backup there is nothing to restore.
RestoreStatBackup ==
    /\ pc = "rs_stat_backup"
    /\ \/ IOError /\ Fail
       \/ /\ UNCHANGED faults
          /\ IF Follow(backupConf) = NoFile
               THEN Return(TRUE, NoBase, FALSE)
               ELSE Goto("rs_owned")
    /\ UNCHANGED <<fs, renameBroken>> /\ UNCHANGED Env

RestoreCheckOwned ==
    /\ pc = "rs_owned"
    /\ \/ IOError /\ Fail
       \/ /\ UNCHANGED <<faults, ret>>
          /\ pc' = "rs_stat_resolv"
          /\ lv' = [lv EXCEPT !.owned = HasMarker(Follow(resolvConf))]
    /\ UNCHANGED <<fs, renameBroken>> /\ UNCHANGED Env

\* Mutant: any existing resolv.conf is taken for another authority's.
RestoreStatResolvIgnoresOwner ==
    /\ pc = "rs_stat_resolv"
    /\ \/ IOError /\ Fail
       \/ /\ UNCHANGED faults
          /\ IF Follow(resolvConf) # NoFile
               THEN Goto("rs_rm_backup")
               ELSE CallRename(backupConf, resolvConf, "restoreBackup")
    /\ UNCHANGED <<fs, renameBroken>> /\ UNCHANGED Env

\* Stat(resolvConf): a file that exists and was not ours is taken to be
\* another authority's, and the backup is dropped; otherwise restore it.
RestoreStatResolv ==
    /\ pc = "rs_stat_resolv"
    /\ \/ IOError /\ Fail
       \/ /\ UNCHANGED faults
          /\ IF Follow(resolvConf) # NoFile /\ ~lv.owned
               THEN Goto("rs_rm_backup")
               ELSE CallRename(backupConf, resolvConf, "restoreBackup")
    /\ UNCHANGED <<fs, renameBroken>> /\ UNCHANGED Env

\* Remove(backupConf), error ignored; returns (false, nil).
RestoreRemoveBackup ==
    /\ pc = "rs_rm_backup"
    /\ \E ok \in Outcomes(fs[backupConf] = NoFile) :
          /\ fs' = IF ok THEN [fs EXCEPT ![backupConf] = NoFile] ELSE fs
          /\ CountFault(fs[backupConf] = NoFile, ok)
    /\ Return(TRUE, NoBase, FALSE)
    /\ UNCHANGED renameBroken /\ UNCHANGED Env

-----------------------------------------------------------------------------
(* GetBaseConfig                                                           *)

GetBaseCheckOwned ==
    /\ pc = "gb_owned"
    /\ \/ IOError /\ Fail
       \/ /\ UNCHANGED <<faults, ret>>
          /\ pc' = "gb_read"
          /\ lv' = [lv EXCEPT !.owned = HasMarker(Follow(resolvConf))]
    /\ UNCHANGED <<fs, renameBroken>> /\ UNCHANGED Env

\* Mutant: resolv.conf is read even when it is ours.
GetBaseReadResolvOnly ==
    /\ pc = "gb_read"
    /\ LET x == Follow(resolvConf)
       IN \/ x = NoFile /\ UNCHANGED faults /\ Fail
          \/ x # NoFile /\ IOError /\ Fail
          \/ /\ x # NoFile /\ UNCHANGED faults
             /\ IF x.conf \in Undecodable
                  THEN Fail
                  ELSE Return(TRUE, x.conf, FALSE)
    /\ UNCHANGED <<fs, renameBroken>> /\ UNCHANGED Env

\* Mutant: the file's bytes are returned without readResolv.
GetBaseReadUndecoded ==
    /\ pc = "gb_read"
    /\ LET x == Follow(IF lv.owned THEN backupConf ELSE resolvConf)
       IN \/ x = NoFile /\ UNCHANGED faults /\ Fail
          \/ x # NoFile /\ IOError /\ Fail
          \/ x # NoFile /\ UNCHANGED faults /\ Return(TRUE, x, FALSE)
    /\ UNCHANGED <<fs, renameBroken>> /\ UNCHANGED Env

\* readResolvFile of the backup when resolv.conf is ours, else of
\* resolv.conf itself: ReadFile, then readResolv.
GetBaseRead ==
    /\ pc = "gb_read"
    /\ LET file == IF lv.owned THEN backupConf ELSE resolvConf
           x    == Follow(file)
       IN \/ x = NoFile /\ UNCHANGED faults /\ Fail
          \/ x # NoFile /\ IOError /\ Fail
          \/ /\ x # NoFile /\ UNCHANGED faults
             /\ IF readResolv(x) = NoBase
                  THEN Fail
                  ELSE Return(TRUE, readResolv(x), FALSE)
    /\ UNCHANGED <<fs, renameBroken>> /\ UNCHANGED Env

-----------------------------------------------------------------------------
(* Environment: other authorities, and crashes.                           *)

\* NetworkManager, resolvconf or an administrator writes resolv.conf
\* between calls. The design takes no locks, so a write landing between
\* a check and the rename it guards is lost whatever the manager does;
\* such writes are left out.
ExternalWrite(h) ==
    /\ externals < MaxExternal /\ pc = "idle"
    /\ fs' = [fs EXCEPT ![resolvConf] = HostFile(h)]
    /\ hostConf' = HostFile(h)
    /\ externals' = externals + 1
    /\ UNCHANGED <<renameBroken, bindMount, pc, lv, ret, faults, crashes>>

\* Another authority deletes resolv.conf: the host then has no
\* configuration of its own. A bind-mounted file cannot be deleted.
ExternalRemove ==
    /\ externals < MaxExternal /\ pc = "idle"
    /\ ~bindMount /\ fs[resolvConf] # NoFile
    /\ fs' = [fs EXCEPT ![resolvConf] = NoFile]
    /\ hostConf' = NoFile
    /\ externals' = externals + 1
    /\ UNCHANGED <<renameBroken, bindMount, pc, lv, ret, faults, crashes>>

\* The process dies at any point and is restarted: the files persist, the
\* renameBroken flag of the new directManager starts FALSE. A crash inside
\* ioutil.WriteFile may leave its target truncated.
Crash ==
    /\ crashes < MaxCrashes
    /\ crashes' = crashes + 1
    /\ fs' \in IF pc = "rn_write" THEN FailedWrites(Target(lv.new)) ELSE {fs}
    /\ pc' = "idle" /\ lv' = NoLocals /\ renameBroken' = FALSE
    /\ ret' = [op |-> "crash", ok |-> FALSE, base |-> NoBase, kicked |-> FALSE]
    /\ UNCHANGED <<bindMount, hostConf, faults, externals>>

-----------------------------------------------------------------------------
(* Initial states: the files any earlier run, or the host, left behind.  *)

HostFiles   == {HostFile(h) : h \in HostConfs}
OwnedFiles  == {writeResolvConf(c) : c \in Configs}

\* The host's own configuration, as far as the files say: the foreign
\* resolv.conf, or the backup of it while ours is in place.
HostConfOf(f) ==
    CASE IsHostFile(Deref(f, resolvConf)) -> Deref(f, resolvConf)
      [] HasMarker(Deref(f, resolvConf))  -> Deref(f, backupConf)
      [] OTHER                            -> NoFile

Init ==
    /\ bindMount \in BindModes
    /\ \E link \in LegacyLinks,
          r \in (IF bindMount THEN {} ELSE {NoFile}) \cup HostFiles \cup OwnedFiles,
          b \in {NoFile} \cup HostFiles,
          l \in {NoFile} \cup OwnedFiles :
          \* the old scheme: resolv.conf links to our legacy file
          /\ link => ~bindMount /\ l # NoFile
          /\ fs = [p \in Paths |-> CASE p = resolvConf -> IF link THEN Symlink ELSE r
                                  [] p = backupConf -> b
                                  [] p = legacyConf -> l
                                  [] OTHER          -> NoFile]
    /\ hostConf = HostConfOf(fs)
    /\ renameBroken = FALSE
    /\ pc = "idle" /\ lv = NoLocals
    /\ ret = [op |-> "none", ok |-> TRUE, base |-> NoBase, kicked |-> FALSE]
    /\ faults = 0 /\ crashes = 0 /\ externals = 0

Next ==
    \/ \E c \in Configs \cup {Zero} : SetDNS(c)
    \/ GetBaseConfig \/ Close
    \/ BackupStat \/ BackupRemoveStale \/ BackupCheckOwned
    \/ RenameTry \/ RenameRead \/ RenameWrite \/ RenameRemove \/ RenameTruncate
    \/ AtomicWriteTmp \/ AtomicCleanup \/ RestartResolved
    \/ RestoreStatBackup \/ RestoreCheckOwned \/ RestoreStatResolv
    \/ RestoreRemoveBackup
    \/ GetBaseCheckOwned \/ GetBaseRead
    \/ \E h \in HostConfs : ExternalWrite(h)
    \/ ExternalRemove \/ Crash

Spec == Init /\ [][Next]_vars

\* The steps of a running call. A call runs synchronously on the caller's
\* thread and every file-system call returns, so a call that can take a
\* step eventually does. Entry points (the caller may stop calling),
\* other writers and crashes get no fairness.
ManagerStep ==
    \/ BackupStat \/ BackupRemoveStale \/ BackupCheckOwned
    \/ RenameTry \/ RenameRead \/ RenameWrite \/ RenameRemove \/ RenameTruncate
    \/ AtomicWriteTmp \/ AtomicCleanup \/ RestartResolved
    \/ RestoreStatBackup \/ RestoreCheckOwned \/ RestoreStatResolv
    \/ RestoreRemoveBackup \/ GetBaseCheckOwned \/ GetBaseRead

FairSpec == Spec /\ WF_vars(ManagerStep)

-----------------------------------------------------------------------------
(* Properties                                                              *)

Steps == {"idle", "bk_stat", "bk_rm_backup", "bk_owned", "rn_try", "rn_read",
          "rn_write", "rn_remove", "rn_trunc", "aw_write", "aw_cleanup",
          "kick", "rs_stat_backup", "rs_owned", "rs_stat_resolv",
          "rs_rm_backup", "gb_owned", "gb_read"}

\* Every variable holds a value of its kind: files hold contents, the
\* call's locals and result hold configs, paths and decoded OSConfigs.
TypeOK ==
    /\ fs \in [Paths -> Contents \cup {NoFile, Symlink}]
    /\ renameBroken \in BOOLEAN /\ bindMount \in BOOLEAN
    /\ pc \in Steps
    /\ lv.op \in {"none", "set", "revert", "get", "close"}
    /\ lv.cfg \in Configs \cup {Zero}
    /\ lv.buf \in Contents \cup {NoFile}
    /\ {lv.start, lv.startBackup} \subseteq Contents \cup {NoFile}
    /\ {lv.old, lv.new} \subseteq Paths \cup {NoFile}
    /\ ret.base \in Configs \cup HostConfs \cup {Zero, NoBase}
    /\ hostConf \in HostFiles \cup {NoFile}

\* The host's own resolv.conf is never lost: while the host has a
\* configuration of its own, it is in resolv.conf or in the backup, through
\* backupConfig's rename, restoreBackup's rename and the stale-backup
\* removals of both.
HostConfigRecoverable ==
    hostConf # NoFile => hostConf \in {Follow(resolvConf), Follow(backupConf)}

\* The backup never holds a file of ours: backupConfig renames resolv.conf
\* away only when ownedByTailscale said it is not ours, so applying a
\* config twice, across failures and restarts, cannot overwrite the backup.
NoOwnBackup == ~HasMarker(Follow(backupConf))

\* A revert (SetDNS of the zero config, or Close) that returns nil leaves
\* the host's own configuration in resolv.conf.
RevertRestoresHost ==
    [][ /\ pc # "idle" /\ pc' = "idle"
        /\ ret'.op \in {"revert", "close"} /\ ret'.ok
        /\ hostConf # NoFile
        => Deref(fs', resolvConf) = hostConf ]_vars

\* GetBaseConfig, when it succeeds, answers with the host's own
\* configuration, whether that is in resolv.conf or in the backup.
BaseConfigIsHost ==
    [][ pc = "gb_read" /\ ret'.op = "get" /\ ret'.ok /\ hostConf # NoFile
        => ret'.base = hostConf.conf ]_vars

\* A SetDNS of a non-zero config that returns nil leaves exactly that
\* config in resolv.conf, even when a rename, write or remove of the
\* atomic write or of the copy fallback failed on the way.
AppliedConfigInPlace ==
    [][ /\ pc # "idle" /\ pc' = "idle" /\ ret'.op = "set" /\ ret'.ok
        => Deref(fs', resolvConf) = writeResolvConf(lv.cfg) ]_vars

\* Spec section 8: with resolv.conf ours and no backup, GetBaseConfig
\* returns the zero configuration and no error.
GetBaseWithoutBackupIsZero ==
    [][ /\ pc = "gb_read" /\ pc' = "idle" /\ ret'.op = "get"
        /\ lv.owned /\ Follow(backupConf) = NoFile
        => ret'.ok /\ ret'.base = Zero ]_vars

\* The comment in SetDNS: systemd-resolved is kicked only when the call
\* made some change to the system's DNS configuration, i.e. resolv.conf
\* is not what the call found.
ResolvedRestartedOnlyOnChange ==
    [][ pc = "kick" /\ ret'.kicked => Follow(resolvConf) # lv.start ]_vars

\* Every call returns: SetDNS, GetBaseConfig and Close finish in a bounded
\* number of file operations, whatever fails, crashes or interferes; no
\* path of rename, atomicWriteFile or restoreBackup loops or waits.
CallsReturn == pc # "idle" ~> pc = "idle"

=============================================================================
