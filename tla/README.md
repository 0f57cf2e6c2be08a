# TLA+ models of the direct resolv.conf manager

This directory holds TLA+ models of `src/net/dns/direct.go`. That file contains
`directManager`, the DNS backend that replaces `/etc/resolv.conf` with a
generated file. It keeps the host's previous file in
`/etc/resolv.pre-tailscale-backup.conf` and puts it back on revert or on
`Close`. The other source file, `src/wgengine/userspace_test.go`, only tests
engine code that is not in this repository, so it is not modelled.

## Inventory

### Components and their state

| Component | Code | State | Operations |
|---|---|---|---|
| File-system boundary | `wholeFileFS`, `directFS` (418-466) | the files at `resolvConf`, `backupConf`, the legacy path and the temporary file | Stat, ReadFile, WriteFile, Rename, Remove, Truncate |
| Config codec | `writeResolvConf` (30-47), `readResolv` (49-89) | none | encode, decode |
| Ownership detector | `ownedByTailscale` (186-207), `resolvOwner` (91-120) | none (reads resolv.conf) | owned?, owner name (diagnostic only) |
| Rename with fallback | `rename` (266-298) | `renameBroken`, sticky for the life of the process | rename, or read + write + remove/truncate |
| Atomic writer | `atomicWriteFile` (403-416) | a temporary file | write the temporary file, rename it, remove it (deferred) |
| Backup/restore | `backupConfig` (209-231), `restoreBackup` (233-264) | derived from the files only | take over, restore |
| Public surface | `SetDNS` (300-341), `GetBaseConfig` (347-358), `Close` (360-401), `SupportsSplitDNS` | none of its own | |
| External-service coordinator | `isResolvedRunning` (122-139), `runningAsGUIDesktopUser` (468-475) | none | restart systemd-resolved, best effort |

### How they interact

`SetDNS(cfg)` with a non-zero config calls `backupConfig` first. That
renames a foreign `resolv.conf` to the backup path, and deletes the backup
if `resolv.conf` is absent. It then calls `atomicWriteFile` with
`writeResolvConf(cfg)`. With the zero config, `SetDNS` calls
`restoreBackup` instead. `Close` runs the same steps as `restoreBackup`
inline. Every rename goes through `rename`. After its first failure, `rename`
permanently switches to copying (read, write, then remove, or truncate if
remove fails). The only state kept between calls is `renameBroken` and the
files themselves. The files persist across restarts, while `renameBroken`
does not.

### What is hard

- **Crash and restart.** `resolv.conf`, the backup and the temporary file
  persist, but the process can die between any two file operations.
- **Failing file operations.** Any call can fail. Some errors are ignored
  (`Remove` of the backup or of the temporary file); others abort the call
  halfway through.
- **Bind-mounted resolv.conf.** When `resolv.conf` is a bind mount, renames to
  or from it fail and so does removing it. The copy fallback then runs and can
  expose an empty file.
- **Other writers.** NetworkManager, resolvconf or an administrator may write
  or delete `resolv.conf` between the manager's calls, and each call must
  decide ownership afresh from the content (the spec: no cached state).
- **The legacy symlink.** Earlier versions made `resolv.conf` a symlink to
  `/etc/resolv.tailscale.conf` (the comment in `Close`). `os.Stat`,
  `ReadFile`, `WriteFile` and `Truncate` follow it, while `Rename` and
  `Remove` act on the link, and `Close` deletes the file it points to.

### Properties that make it correct

- The host's own configuration is never lost. It is always in `resolv.conf`
  or in the backup, unless another authority has since replaced it.
- The backup never holds a file of ours, so applying a config twice is
  harmless.
- A revert that returns nil puts the host's configuration back.
- `GetBaseConfig` returns the host's configuration.
- A `SetDNS` that returns nil has put its config in place.
- `systemd-resolved` is restarted only after something changed.
- Codec: `readResolv(writeResolvConf(c)) = c`.
- Every call returns.
- Seen from outside, each call moves the files as one take-over or restore
  transition of the design, or not at all.
- `resolvOwner` names the daemon from the leading comment block.

## Modules

### `DirectManager.tla`

This module models the whole manager. Its state:

- `fs` maps each path to a content, to `NoFile`, or to `Symlink`, the old
  link to the legacy file. `Follow(p)` is what Stat and ReadFile of `p` see,
  and `Target(p)` is the file that WriteFile and Truncate of `p` change.
  Rename and Remove use `fs[p]` itself, so they move or delete the link.
  `LegacyLinks` says whether a run may start with that link in place. It
  points to a legacy file of ours, and never to a bind mount.
- A content is abstracted to a record: whether it holds the marker
  "generated by tailscale", and which OSConfig it decodes to. A truncated
  file is `EmptyFile`.
- `renameBroken` is the field of the same name in the code.
- `pc` is the position of the running call in the code. `lv` holds that
  call's locals: the config, the `owned` answer, the rename arguments and its
  caller, the buffer of the copy fallback, and the error of `atomicWriteFile`.
- `ret` is what the last call returned.
- `hostConf` is a history variable. It holds the latest configuration written
  by an authority other than the manager, or `NoFile` if that authority
  deleted the file.

Each action is one file-system call, together with the control logic around
it up to the next file-system call:

| Code | Actions |
|---|---|
| `SetDNS`, `GetBaseConfig`, `Close` | `SetDNS(c)`, `GetBaseConfig`, `Close` (entry; `Close` also removes the legacy file) |
| `backupConfig` | `BackupStat`, `BackupRemoveStale`, `BackupCheckOwned` |
| `rename` | `RenameTry`, `RenameRead`, `RenameWrite`, `RenameRemove`, `RenameTruncate`; `RenameDone` continues in the caller |
| `atomicWriteFile` plus the error return of `SetDNS` | `AtomicWriteTmp`, `AtomicCleanup` |
| resolved restart at the end of `SetDNS`/`Close` | `RestartResolved` |
| `restoreBackup` (also the rest of `Close`) | `RestoreStatBackup`, `RestoreCheckOwned`, `RestoreStatResolv`, `RestoreRemoveBackup` |
| `GetBaseConfig` | `GetBaseCheckOwned`, `GetBaseRead` |
| environment | `ExternalWrite(h)`, `ExternalRemove`, `Crash` |

Every file operation can also fail through an injected fault, bounded by
`MaxFaults`. Failures that follow from the state happen without a fault: a
missing file, or a rename or remove across the bind mount. A failed
`WriteFile` may leave its target truncated, as `ioutil.WriteFile` truncates
the file before writing. A crash at any point resets `renameBroken` (the
restarted process builds a new manager). A crash during `WriteFile` may
leave the target truncated. Other writers act between calls.

Two parts of the model are simplified:

- `ownedByTailscale` (a Stat followed by a ReadFile) is one step.
- The random name of the temporary file is a single path.

### `ResolvCodec.tla`

This module models the line-level codec: `writeResolvConf` and `readResolv`.
A file is a sequence of lines, and a line is a sequence of tokens: the
keywords, a space, `#`, `.`, and model values for addresses (`IPs`),
domain labels (`Domains`) and other words. Adjacent tokens stand for
adjacent text, so `<<"nameserver", i1>>` is `nameserver1.2.3.4`.

- `writeResolvConf` emits the header lines, one `nameserver` line per
  address, and one `search` line that joins the domains without their
  trailing dots.
- `ParseLine` is one iteration of the scanner loop, in the code's order:
  `TrimSpace`, then cut at the first `#`, then the keyword tests with the
  missing-space check (`len(v) = len(s)`).
- `readResolv` folds `ReadStep` over the lines and stops at the first error.
- `netaddr.ParseIP` and `dnsname.ToFQDN` are not in `src/`, so they are
  modelled from the spec and the library's behaviour: a single address
  token; and for `ToFQDN`, a single label with or without its dot, with ""
  and "." giving the root name (so `search  #x` is accepted as the root).

The codec has no state. The variable `input` is a config to encode, or a
line to decode, and `Init` enumerates all of them up to the bounds.

### `HostResolver.tla`

This is the abstract specification: what the manager promises, one call at
a time, in the words of the design's section 4.3. Its state is `active`,
the setting `resolv.conf` holds (ours, another authority's, or none), and
`saved`, the host setting kept in the backup. Its actions:

- `TakeOver(c)` is a `SetDNS` of a non-zero config. A host setting in
  effect is saved. With no file in effect, a stale saved setting is dropped.
  Over our own file, the saved setting stays.
- `Restore` is a `SetDNS` of the zero config, or `Close`. With a host
  setting in effect, the saved one is stale and is dropped. Otherwise the
  saved setting is put back.
- `OtherAuthorityWrites(h)` and `OtherAuthorityRemoves` are other
  programs changing `resolv.conf`.

### `MCDirectManager.tla`

This module extends `DirectManager` and declares symmetry over `Configs`.
The configs and host configurations are model values given in the cfg files.
It also holds the refinement mapping onto `HostResolver`:

- Between calls, `active` and `saved` are read off `resolv.conf` and the
  backup.
- While a call runs, they are read off the files the call found
  (`lv.start`, `lv.startBackup`).

A whole call is therefore one abstract step, taken when it returns, and
every step inside it is a stutter. `HostResolverSpec == HR!Spec` is checked
as a property.

### `ResolvOwner.tla`

This module models `resolvOwner` (direct.go:94-120), the diagnostic guess
of which daemon wrote `resolv.conf`. A file is its lines of tokens (space,
`#`, the three daemon names, other words), plus whether the last line ends
in a newline.

- `ReadLines` is what `bytes.Buffer.ReadString('\n')` hands to the loop.
  A last line without a newline comes back with `io.EOF` and is dropped.
- `Scan` is the loop. It skips blank lines, returns at the first
  non-comment line, and lets each naming comment line overwrite `likely`.
- `LineOwner` is the if / else-if chain of `strings.Contains` tests.

The loop is checked against a declarative reference built from
`LeadingBlock` and `Named`.

## Runs

| Run | cfg | Expect | Checks |
|---|---|---|---|
| serial | `DirectManager_serial.cfg` | pass | `TypeOK`, `HostConfigRecoverable`, `RevertRestoresHost`, `BaseConfigIsHost`, `HostResolverSpec` |
| faulty | `DirectManager_faulty.cfg` | pass | `NoOwnBackup`, `AppliedConfigInPlace`, `CallsReturn` |
| partial_takeover | `DirectManager_partial.cfg` | violation | `HostConfigRecoverable` |
| nobackup | `DirectManager_nobackup.cfg` | violation | `GetBaseWithoutBackupIsZero` |
| rekick | `DirectManager_rekick.cfg` | violation | `ResolvedRestartedOnlyOnChange` |
| truncated | `DirectManager_truncated.cfg` | violation | `HostConfigRecoverable` |
| legacy | `DirectManager_legacy.cfg` | violation | `HostConfigRecoverable` |
| owner_scan | `ResolvOwner_scan.cfg` | pass | `OwnerIsLastNamed` |
| codec_roundtrip | `ResolvCodec_roundtrip.cfg` | pass | `TypeOK`, `RoundTripOneSearchDomain`, `CommentIgnored` |
| codec_multisearch | `ResolvCodec_multisearch.cfg` | violation | `RoundTrip` |
| codec_nospace | `ResolvCodec_nospace.cfg` | violation | `KeywordNeedsSpace` |

- **serial** (15,827 states). Other writers act only between calls, and
  nothing crashes or fails. `resolv.conf` is either a plain file or a bind
  mount. In this setting the protocol is correct:
  - the host's configuration is always in `resolv.conf` or the backup;
  - a revert brings it back;
  - `GetBaseConfig` reports it;
  - the manager refines `HostResolver`, so every call, copy fallback
    included, moves the files exactly as the design's take-over and restore
    transitions say.
- **faulty** (1,026,064 states, `FairSpec`, no symmetry, with and without the legacy link). Two file
  operations may fail, the process may crash once, and another writer may
  act once between calls. Even so, the backup never holds our own file, and
  a `SetDNS` that returns nil has put its config in `resolv.conf`: the
  fallback's remove-or-truncate handling and the error propagation of
  `atomicWriteFile` are right. Under weak fairness of the manager's own
  steps every call returns (`CallsReturn`), on a bind-mounted file too: a
  rename that fails is never retried, only replaced once by the copy
  fallback.
- **partial_takeover**. Code bug. A `SetDNS` stops after `backupConfig`
  renamed a foreign `resolv.conf` to the backup, and before the new file is
  in place. The cause is either a crash, or `atomicWriteFile` failing in
  `rand.Read` or in the `WriteFile` of the temporary file (for example a full
  disk). `resolv.conf` is then absent, and the next `SetDNS` deletes the
  backup (direct.go:216). The host's configuration is gone. TLC's trace is
  the shorter, single-failure one; with `MaxFaults = 0` it finds the crash
  variant instead.
- **truncated**. Code bug, distinct from partial_takeover. `resolv.conf`
  is a bind mount holding our file and the host's file is in the backup. A
  new `SetDNS` cannot rename across the mount, so `atomicWriteFile` falls
  back to `WriteFile(resolv.conf)`, which truncates before it writes. A
  crash in that write leaves `resolv.conf` empty. After the restart, a
  revert finds a `resolv.conf` without our marker, takes it for the host's
  own, and deletes the backup (direct.go:249). No fault is needed: one crash
  suffices.
- **nobackup**. Spec section 8 says that with `resolv.conf` ours and no
  backup, `GetBaseConfig` yields the zero config and no error. The code
  reads the missing backup and returns the error.
- **rekick**. The comment in `SetDNS` (direct.go:327-335) and spec
  section 4.5 say `systemd-resolved` is restarted only when the call changed
  the system's DNS configuration. `changed` is set to true for every
  non-zero config (direct.go:308), so applying the config that is already
  in place restarts it with every file unchanged.
- **owner_scan** (162,800 files). `resolvOwner` returns the daemon named by
  the last naming line of the leading comment block, among the lines
  `ReadString` delivers.
- The design (section 4.2) says `classifyOwner` returns the *first*
  recognised name. The code returns the last one, because `likely` is
  overwritten (direct.go:113-118). `OwnerIsLastNamed` records the code's
  behaviour. No violation run reports the design's wording, because the
  function is only used for diagnostics.
- **legacy**. Code bug. `resolv.conf` starts as the old symlink to
  `/etc/resolv.tailscale.conf`, and the host's file is in the backup.
  `Close` removes the legacy file first (direct.go:365). Its restore then
  stops on one failing Stat. `resolv.conf` is now a dangling link, which
  `os.Stat` reports as absent, so the next `SetDNS` deletes the backup
  (direct.go:216). There is a second way, with no failure in `Close`. A
  revert whose rename of the backup falls back to a copy writes the host's
  file through the link into the legacy file, then removes the backup.
  `Close` then deletes the legacy file. TLC finds this variant when only
  renames may fail. The spec says `isOwned` holds only for a plain regular
  file, "not a symlink". The code's `Stat` follows the link.
- **codec_roundtrip** (11,160 inputs). The checked inputs are every
  config with up to two addresses and one search domain, and every line of
  up to four tokens. For these configs, reading back what was written gives
  the config. A trailing comment (`#`, ` #` or `#word`) after a valid
  nameserver line never changes what the line decodes to.
- **codec_multisearch**. Spec section 8 claims the round trip for any
  number of domains. With two domains, the single `search d1 d1` line is
  read as one name, and `ToFQDN` rejects it. Spec section 9 records this
  limitation as an open question, so this is a gap in the spec's section 8
  claim rather than a code bug.
- **codec_nospace**. The spec says a line is comment-stripped and then
  trimmed, and that `nameserverX` is rejected. The code trims first and cuts
  the comment afterwards (direct.go:53-57). In `nameserver1.2.3.4 #`, the
  space before `#` is still there at the missing-space check, so the line is
  accepted.

### Bounds

- Two configs and two host configurations, one of which `readResolv`
  rejects. This is enough to tell apart "the host's file", "another host
  file" and "ours", and to reach decode errors.
- The initial states cover every combination of files that an earlier run or
  the host can leave behind.
- Up to 2 other-writer events, 2 injected faults and 1 crash. Every finding
  needs at most one of each.
- The legacy link starts the faulty and legacy runs. It is not in the
  serial run: a `Close` over the link with no backup leaves `resolv.conf`
  dangling, and the refinement mapping would accept that only as another
  authority's `OtherAuthorityRemoves`.
- The refinement is checked in the serial setting only. A cut-short call
  leaves file states that no abstract transition produces, and the
  partial_takeover finding already shows where that goes wrong.
- Codec: two addresses, two domain labels and one other word. Configs have
  up to two servers and two domains, and lines up to four tokens. Four
  tokens are enough for every shape the properties tell apart: a keyword, a
  space or not, a value, and a trailing comment.
- `resolvOwner`: files of up to three lines of up to two tokens, with or
  without a final newline. This covers a blank line, a comment naming one
  daemon, two naming comments in either order, and a non-comment line
  before or after them.

No call sequence is bounded: the state is finite.

### Fairness

`FairSpec` adds `WF_vars(ManagerStep)` to `Spec`. `ManagerStep` is the
disjunction of every step of a running call. The code justifies weak
fairness:

- a call runs synchronously on the caller's thread;
- every file-system call returns;
- no step waits on another actor, so a call that can take a step does.

Several things get no fairness: the entry points (the caller may stop
calling), other writers and crashes. Only the faulty run uses `FairSpec`. It
runs without symmetry, because symmetry is not sound for liveness checking.
All other runs check safety. Deadlock checking is on everywhere, and TLC
confirms that only idle states wait for a call.

## Not modelled

- Non-regular `resolv.conf` (the `isRegular` check of `ownedByTailscale`).
  Stat follows symlinks, and the old link to the legacy file is modelled, so
  this only concerns a directory, FIFO or device at `/etc/resolv.conf`. No
  code path creates one. `ReadFile` of one fails, blocks or reads nothing
  depending on its kind, and that behaviour is the kernel's, not this
  code's.
- The random temporary name. One temporary path stands for all of them, so
  files leaked by a crash between `WriteFile` and the deferred `Remove` are
  not counted. Their content is never read again, and on every path without
  a fault or crash the temporary file is either renamed into place or
  removed, so an invariant on it would only restate the fault bound.
- `Close` runs the restore steps inline (direct.go:367-401). The model
  shares the `Restore*` actions with `restoreBackup`, whose lines the map
  names. The two copies of the code are the same.
- Other writers acting in the middle of a call. The design takes no locks
  (spec section 5), so a write that lands between an ownership check and the
  rename it guards is overwritten by any lock-free manager, even with no
  file operation in between; a property demanding that it survive would say
  nothing about this code. Writers between calls are modelled, and each call
  re-derives ownership from the content, as the spec asks.
- The wait of `exec.Command("systemctl", ...).Run()`: the restart is
  assumed to return (its error is ignored).
- Byte-level file contents, the `directFS` prefix, and `SupportsSplitDNS`
  (constant).
- The userspace engine tests: the engine they test is not in this
  repository.

## Plan

1. *(done)* `DirectManager`: the backup/restore protocol with rename
   fallback, atomic write, crashes, faults, bind mount and other writers.
   Runs serial, faulty, partial_takeover, nobackup, truncated and
   legacy (the old symlinked `resolv.conf`).
2. *(done)* **Resolved restart.** `ResolvedRestartedOnlyOnChange`, the
   violation run rekick.
3. *(done)* **`ResolvCodec.tla`.** Runs codec_roundtrip, codec_multisearch
   and codec_nospace.
4. *(done)* **`HostResolver.tla`** and the refinement, checked in the serial
   run.
5. *(done)* **Liveness.** `CallsReturn` under weak fairness, in the faulty run.
6. *(done)* **`ResolvOwner.tla`.** Run owner_scan.
7. **Next.**
   - Refinement under faults, against an abstract spec extended with the
     failure outcomes the design allows: a call that fails leaves the files
     as they were, or `resolv.conf` empty after the fallback.
   - An abstract step for a manager call that leaves `resolv.conf`
     absent, so that the serial run can start from the legacy link.
   - A property on leaked temporary files, if the random name is modelled
     as a small set of paths.
