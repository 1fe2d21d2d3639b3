----------------------------- MODULE SelfUpdate -----------------------------
(***************************************************************************)
(* The start-up update of the managed binary (src/lium/cli/self_update.py):*)
(* launches of the CLI that share ~/.lium, each of which may find a newer  *)
(* release and install it under a lock file.  A step may fail, a launch    *)
(* may be killed between any two steps, releases are published and time    *)
(* passes at any moment.                                                   *)
(***************************************************************************)
EXTENDS Integers, FiniteSets

CONSTANTS
  Launches,    \* processes that start the CLI, each once
  MaxVersion,  \* bound: the versions ever released are 1..MaxVersion
  MaxMishaps,  \* bound: failed steps and killed launches
  NoLaunch     \* nobody's lock

ASSUME UpdateAssumption ==
  MaxVersion \in Nat \ {0} /\ MaxMishaps \in Nat /\ NoLaunch \notin Launches

VARIABLES
  link,        \* the version ~/.lium/bin/lium points to
  bundle,      \* versions/<v>/lium: none, torn (being removed, or incomplete) or whole
  staging,     \* versions/<v>/.lium.tmp: none, part or whole
  lock,        \* the launch that created self-update.lock, NoLaunch without the file
  old,         \* the lock file is older than STALE_LOCK_SECONDS
  fresh,       \* self-update.json: the last check is within the interval
  latest,      \* the newest release published
  pc, dead,    \* each launch's next step; the launches that were killed
  cur, new,    \* layout.current_version, latest_version
  stolen,      \* history: a lock file was removed while its creator ran
  reinstalled, \* history: a launch whose layout was out of date replaced the live bundle
  mishaps

updateFiles == <<link, bundle, staging, lock, old, fresh>>
updateVars == <<link, bundle, staging, lock, old, fresh, latest, pc, dead, cur, new,
                stolen, reinstalled, mishaps>>

Versions == 1..MaxVersion
Holding == {"resolve", "download", "clear", "extract", "remove", "removing", "swap",
            "switch", "clean", "unstage", "write", "release"}
Steps == {"discover", "exists", "stat", "stale", "open", "away", "done"} \cup Holding

(* With who can be holding the lock.                                       *)
UpdateTypeOK ==
  /\ link \in Versions /\ latest \in Versions
  /\ bundle \in [Versions -> {"none", "torn", "whole"}]
  /\ staging \in [Versions -> {"none", "part", "whole"}]
  /\ lock \in Launches \cup {NoLaunch} /\ old \in BOOLEAN /\ fresh \in BOOLEAN
  /\ \A l \in Launches : lock = l => pc[l] \in Holding
  /\ pc \in [Launches -> Steps] /\ dead \subseteq Launches
  /\ cur \in [Launches -> Versions] /\ new \in [Launches -> Versions]
  /\ stolen \in BOOLEAN /\ reinstalled \in BOOLEAN /\ mishaps \in 0..MaxMishaps

UpdateInit ==
  /\ link = 1 /\ latest = 1 /\ bundle = [v \in Versions |-> IF v = 1 THEN "whole" ELSE "none"]
  /\ staging = [v \in Versions |-> "none"]
  /\ lock = NoLaunch /\ old = FALSE /\ fresh = FALSE
  /\ pc = [l \in Launches |-> "discover"] /\ dead = {}
  /\ cur = [l \in Launches |-> 1] /\ new = [l \in Launches |-> 1]
  /\ stolen = FALSE /\ reinstalled = FALSE /\ mishaps = 0

-----------------------------------------------------------------------------
At(l, step) == pc[l] = step /\ l \notin dead
To(l, step) == pc' = [pc EXCEPT ![l] = step]
Mishap == mishaps < MaxMishaps /\ mishaps' = mishaps + 1
Fails(l) == To(l, "unstage") /\ Mishap
KeepsFiles == UNCHANGED updateFiles
KeepsRest == UNCHANGED <<latest, dead, cur, stolen, reinstalled>>

Updating(l) == pc[l] \in Holding /\ l \notin dead

(* UpdateLock's unlink: whosever file is there goes.                       *)
Unlink(l) ==
  /\ lock' = NoLaunch /\ old' = FALSE
  /\ stolen' = (stolen \/ \E h \in Launches \ {l} : lock = h /\ Updating(h))

(* discover_managed_install and _should_check_for_updates: both before the *)
(* lock.  A link without its binary is no managed install.                 *)
Discover(l) ==
  /\ At(l, "discover")
  /\ cur' = [cur EXCEPT ![l] = link]
  /\ To(l, IF bundle[link] = "none" \/ fresh THEN "done" ELSE "exists")
  /\ KeepsFiles /\ UNCHANGED <<latest, dead, new, stolen, reinstalled, mishaps>>

(* UpdateLock.acquire, one file operation at a time; an OSError of the     *)
(* second or the third turns the launch away.                              *)
LockExists(l) ==
  /\ At(l, "exists") /\ To(l, IF lock = NoLaunch THEN "open" ELSE "stat")
  /\ KeepsFiles /\ KeepsRest /\ UNCHANGED <<new, mishaps>>

LockAge(l) ==
  /\ At(l, "stat")
  /\ To(l, IF lock = NoLaunch THEN "away" ELSE IF old THEN "stale" ELSE "open")
  /\ KeepsFiles /\ KeepsRest /\ UNCHANGED <<new, mishaps>>

UnlinkStale(l) ==
  /\ At(l, "stale") /\ Unlink(l)
  /\ To(l, IF lock = NoLaunch THEN "away" ELSE "open")
  /\ UNCHANGED <<link, bundle, staging, fresh, latest, dead, cur, new, reinstalled, mishaps>>

(* os.open with O_CREAT | O_EXCL; faulty: without O_EXCL.                  *)
OpenLockFaulty(l) ==
  /\ At(l, "open") /\ To(l, "resolve") /\ lock' = l /\ old' = FALSE
  /\ UNCHANGED <<link, bundle, staging, fresh, new, mishaps>> /\ KeepsRest
OpenLock(l) ==
  /\ At(l, "open")
  /\ IF lock = NoLaunch THEN lock' = l /\ old' = FALSE /\ To(l, "resolve")
     ELSE To(l, "away") /\ UNCHANGED <<lock, old>>
  /\ UNCHANGED <<link, bundle, staging, fresh, new, mishaps>> /\ KeepsRest

(* `with UpdateLock(...)` ends with release() for the launch that was      *)
(* turned away as well.                                                    *)
TurnedAway(l) ==
  /\ At(l, "away") /\ To(l, "done") /\ Unlink(l)
  /\ UNCHANGED <<link, bundle, staging, fresh, latest, dead, cur, new, reinstalled, mishaps>>

-----------------------------------------------------------------------------
(* Under the lock.  Whatever fails, the check is written down and the lock *)
(* released.  Faulty: the release was asked for before the lock was taken. *)
ResolveFaulty(l) ==
  /\ At(l, "resolve")
  /\ \E v \in cur[l]..latest :
       new' = [new EXCEPT ![l] = v] /\ To(l, IF v > cur[l] THEN "download" ELSE "write")
  /\ KeepsFiles /\ KeepsRest /\ UNCHANGED mishaps
Resolve(l) ==
  /\ At(l, "resolve")
  /\ \/ /\ new' = [new EXCEPT ![l] = latest]
        /\ To(l, IF latest > cur[l] THEN "download" ELSE "write") /\ UNCHANGED mishaps
     \/ To(l, "write") /\ Mishap /\ UNCHANGED new
  /\ KeepsFiles /\ KeepsRest

(* The tarball and its checksum.                                           *)
Download(l) ==
  /\ At(l, "download")
  /\ \/ To(l, "clear") /\ UNCHANGED mishaps
     \/ To(l, "write") /\ Mishap
  /\ KeepsFiles /\ KeepsRest /\ UNCHANGED new

(* install_versioned_binary: a staging directory of its own, ...           *)
ClearStaging(l) ==
  /\ At(l, "clear")
  /\ \/ staging' = [staging EXCEPT ![new[l]] = "part"] /\ To(l, "extract") /\ UNCHANGED mishaps
     \/ Fails(l) /\ UNCHANGED staging
  /\ UNCHANGED <<link, bundle, lock, old, fresh, new>> /\ KeepsRest

(* ... extracted and validated; what another launch does in the same       *)
(* directory meanwhile may leave it incomplete.                            *)
Extract(l) ==
  /\ At(l, "extract")
  /\ \/ /\ staging[new[l]] # "none"
        /\ \E s \in {"part", "whole"} :
             /\ s = "part" => \E o \in Launches \ {l} : Updating(o) /\ new[o] = new[l]
             /\ staging' = [staging EXCEPT ![new[l]] = s]
        /\ To(l, "remove") /\ UNCHANGED mishaps
     \/ staging[new[l]] = "none" /\ To(l, "unstage") /\ UNCHANGED <<staging, mishaps>>
     \/ Fails(l) /\ UNCHANGED staging
  /\ UNCHANGED <<link, bundle, lock, old, fresh, new>> /\ KeepsRest

(* shutil.rmtree of an older bundle of that version: it starts, ...        *)
RemoveBundle(l) ==
  /\ At(l, "remove")
  /\ IF bundle[new[l]] = "none" THEN To(l, "swap") /\ UNCHANGED <<bundle, reinstalled>>
     ELSE /\ To(l, "removing") /\ bundle' = [bundle EXCEPT ![new[l]] = "torn"]
          /\ reinstalled' = (reinstalled \/ (new[l] = link /\ cur[l] # link))
  /\ UNCHANGED <<link, staging, lock, old, fresh, latest, dead, cur, new, stolen, mishaps>>

(* ... and ends.                                                           *)
BundleRemoved(l) ==
  /\ At(l, "removing")
  /\ \/ bundle' = [bundle EXCEPT ![new[l]] = "none"] /\ To(l, "swap") /\ UNCHANGED mishaps
     \/ Fails(l) /\ UNCHANGED bundle
  /\ UNCHANGED <<link, staging, lock, old, fresh, new>> /\ KeepsRest

(* os.replace, which needs the extracted bundle and an empty place; then   *)
(* the `finally` that removes the staging directory.                       *)
Swap(l) ==
  /\ At(l, "swap")
  /\ \/ /\ staging[new[l]] # "none" /\ bundle[new[l]] = "none"
        /\ bundle' = [bundle EXCEPT ![new[l]] = IF staging[new[l]] = "whole" THEN "whole" ELSE "torn"]
        /\ staging' = [staging EXCEPT ![new[l]] = "none"]
        /\ To(l, "switch") /\ UNCHANGED mishaps
     \/ /\ staging[new[l]] = "none" \/ bundle[new[l]] # "none"
        /\ To(l, "unstage") /\ UNCHANGED <<bundle, staging, mishaps>>
     \/ Fails(l) /\ UNCHANGED <<bundle, staging>>
  /\ UNCHANGED <<link, lock, old, fresh, new>> /\ KeepsRest

(* The `finally` after a failed installation.                              *)
Unstage(l) ==
  /\ At(l, "unstage") /\ To(l, "write")
  /\ staging' = [staging EXCEPT ![new[l]] = "none"]
  /\ UNCHANGED <<link, bundle, lock, old, fresh, new, mishaps>> /\ KeepsRest

(* switch_cli_symlink: one rename.                                         *)
SwitchLink(l) ==
  /\ At(l, "switch")
  /\ \/ link' = new[l] /\ To(l, "clean") /\ UNCHANGED mishaps
     \/ To(l, "write") /\ Mishap /\ UNCHANGED link
  /\ UNCHANGED <<bundle, staging, lock, old, fresh, new>> /\ KeepsRest

(* cleanup_old_versions: all but the new version and the one it replaces;  *)
(* what cannot be removed is passed over.                                  *)
CleanUp(l) ==
  /\ At(l, "clean") /\ To(l, "write")
  /\ LET others == Versions \ {cur[l], new[l]}
     IN \E kept \in SUBSET {v \in others : bundle[v] # "none"} :
          /\ IF kept = {} THEN UNCHANGED mishaps ELSE Mishap
          /\ bundle' = [v \in Versions |-> IF v \notin others THEN bundle[v]
                                           ELSE IF v \in kept THEN "torn" ELSE "none"]
          /\ staging' = [v \in Versions |-> IF v \in others THEN "none" ELSE staging[v]]
  /\ UNCHANGED <<link, lock, old, fresh, new>> /\ KeepsRest

(* _write_state: the check counts, whatever came of it; it may not be      *)
(* writable.                                                               *)
WriteState(l) ==
  /\ At(l, "write") /\ To(l, "release") /\ fresh' \in {fresh, TRUE}
  /\ UNCHANGED <<link, bundle, staging, lock, old, new, mishaps>> /\ KeepsRest

ReleaseLock(l) ==
  /\ At(l, "release") /\ To(l, "done") /\ Unlink(l)
  /\ UNCHANGED <<link, bundle, staging, fresh, latest, dead, cur, new, reinstalled, mishaps>>

-----------------------------------------------------------------------------
(* A launch is killed where it is: its files and its lock stay.            *)
Killed(l) ==
  /\ l \notin dead /\ pc[l] \notin {"done", "discover"} /\ Mishap
  /\ dead' = dead \cup {l}
  /\ KeepsFiles /\ UNCHANGED <<latest, pc, cur, new, stolen, reinstalled>>

Publish ==
  /\ latest < MaxVersion /\ latest' = latest + 1
  /\ KeepsFiles /\ UNCHANGED <<pc, dead, cur, new, stolen, reinstalled, mishaps>>

(* The check interval is a day, a lock is stale after an hour.             *)
HourPasses ==
  /\ lock # NoLaunch /\ old' = TRUE
  /\ UNCHANGED <<link, bundle, staging, lock, fresh, latest, pc, dead, cur, new,
                 stolen, reinstalled, mishaps>>
DayPasses ==
  /\ fresh /\ fresh' = FALSE /\ old' = (lock # NoLaunch)
  /\ UNCHANGED <<link, bundle, staging, lock, latest, pc, dead, cur, new,
                 stolen, reinstalled, mishaps>>

LaunchStep(l) ==
  \/ Discover(l) \/ LockExists(l) \/ LockAge(l) \/ UnlinkStale(l) \/ OpenLock(l)
  \/ TurnedAway(l) \/ Resolve(l) \/ Download(l) \/ ClearStaging(l) \/ Extract(l)
  \/ RemoveBundle(l) \/ BundleRemoved(l) \/ Swap(l) \/ Unstage(l) \/ SwitchLink(l)
  \/ CleanUp(l) \/ WriteState(l) \/ ReleaseLock(l) \/ Killed(l)

UpdateNext == (\E l \in Launches : LaunchStep(l)) \/ Publish \/ HourPasses \/ DayPasses

UpdateSpec == UpdateInit /\ [][UpdateNext]_updateVars

-----------------------------------------------------------------------------
(* One launch updates at a time, unless a lock file was removed while its  *)
(* creator was still at work (UpdateLock).                                 *)
OneUpdater == ~stolen => \A k, l \in Launches : Updating(k) /\ Updating(l) => k = l

(* The link always leads to a whole bundle: a crash or a failure at any    *)
(* step leaves a CLI that starts.  It does not hold where a launch that    *)
(* read its layout before another's update installs the live version over  *)
(* itself.                                                                 *)
LiveBundleWhole == ~stolen /\ ~reinstalled => bundle[link] = "whole"

(* Both: what the lock and the order of the steps are for.                 *)
UpdateIsSafe == OneUpdater /\ LiveBundleWhole

(* An update never takes the CLI back to an older version, although the    *)
(* layout it compares with may be out of date.                             *)
NoDowngrade == [][~stolen => link' >= link]_updateVars

(* What an update promises of the installation it works on.                *)
UpdateKeepsItsWord == []UpdateIsSafe /\ NoDowngrade

(* "atomically swapped into place so a half-extracted bundle is never left *)
(* live" (install_versioned_binary): also where the live version is        *)
(* installed again.                                                        *)
SwappedAtomically == ~stolen => bundle[link] = "whole"

=============================================================================
