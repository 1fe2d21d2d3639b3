---------------------------- MODULE StorageSetup ----------------------------
(***************************************************************************)
(* `lium mine gpu-splitting setup` (src/lium/cli/mine/gpu_splitting.py):   *)
(* moving /var/lib/docker onto an XFS partition or image file, command by  *)
(* command, with its rollback.  A command may fail or be interrupted       *)
(* before, within or after its effect; the process may be killed and the   *)
(* host rebooted between any two commands, in the rollback as well.        *)
(*                                                                         *)
(* `host` is what survives the process; a root's contents are "full" (all  *)
(* of the Docker data), "partial", "blank" (no data) or "stray" (a root    *)
(* Docker has set up for itself), "none" when there is no such place.      *)
(***************************************************************************)
EXTENDS Integers, FiniteSets

CONSTANTS
  MaxFaults,   \* bound: failed or interrupted commands, and crashes
  MaxReboots   \* bound: reboots

ASSUME SetupAssumption == MaxFaults \in Nat /\ MaxReboots \in Nat

VARIABLES
  layout,     \* loop: the target is an image file; own: the Docker root is a mount of its own
  host,       \* the machine, see HostType
  stage,      \* the next command of _execute_setup or _rollback_setup
  flags,      \* _SetupExecutionState
  found,      \* what the rollback has worked out, see FoundType
  errors,     \* the rollback has errors to report
  committed,  \* the backup may be removed
  unmasked,   \* history: step 10 has unmasked the unit
  faults, reboots

setupVars == <<layout, host, stage, flags, found, errors, committed, unmasked, faults, reboots>>

Roots == {"none", "blank", "partial", "full", "stray"}
Files == {"fstab", "dropin", "udev", "daemon"}
HostType ==
  [base : Roots,                       \* the directory /var/lib/docker under any mount
   backup : Roots, target : Roots, image : BOOLEAN,
   mounts : SUBSET {"orig", "target", "probe"},
   conf : [Files -> {"old", "new", "torn"}],
   docker : BOOLEAN, masked : BOOLEAN]
FoundType == [onTarget : BOOLEAN, origGone : BOOLEAN, moved : BOOLEAN,
              unmounted : BOOLEAN, restored : BOOLEAN, fstab : BOOLEAN]
Forward == {"stop", "mask", "backup", "image", "format", "probe", "unprobe", "daemon",
            "fstab", "dropin", "udev", "mkdir", "umount", "mount", "check", "restore",
            "unmask", "start", "verify"}
Rollback == {"rb_stop", "rb_look", "rb_umount", "rb_remount", "rb_move", "rb_confirm",
             "rb_fstab", "rb_dropin", "rb_udev", "rb_daemon", "rb_image", "rb_docker", "rb_start"}
(* "cut": the rollback itself was cut short.                               *)
Ended == {"refused", "failed", "cut", "crashed", "done"}
Flags == {"owed", "mayRun", "masked", "daemon", "fstab", "dropin", "udev",
          "mounted", "unmounted", "moved", "created", "removed"}

SetupTypes ==
  /\ layout \in [loop : BOOLEAN, own : BOOLEAN]
  /\ host \in HostType /\ found \in FoundType
  /\ stage \in Forward \cup Rollback \cup Ended \cup {"checks", "commit"}
  /\ flags \subseteq Flags /\ errors \in BOOLEAN
  /\ committed \in BOOLEAN /\ unmasked \in BOOLEAN
  /\ faults \in 0..MaxFaults /\ reboots \in 0..MaxReboots

(* With what can be mounted.                                               *)
SetupTypeOK ==
  /\ SetupTypes
  /\ "orig" \in host.mounts => layout.own
  /\ host.mounts \cap {"target", "probe"} # {} => host.target # "none"

SetupInit ==
  /\ layout \in [loop : BOOLEAN, own : BOOLEAN]
  /\ host = [base |-> IF layout.own THEN "blank" ELSE "full", backup |-> "none",
             target |-> "none", image |-> FALSE,
             mounts |-> IF layout.own THEN {"orig"} ELSE {},
             conf |-> [f \in Files |-> "old"], docker |-> TRUE, masked |-> FALSE]
  /\ stage = "checks" /\ flags = {} /\ errors = FALSE
  /\ committed = FALSE /\ unmasked = FALSE
  /\ found = [onTarget |-> FALSE, origGone |-> FALSE, moved |-> FALSE,
              unmounted |-> FALSE, restored |-> FALSE, fstab |-> TRUE]
  /\ faults = 0 /\ reboots = 0

(* _should_rename_docker_root_for_backup                                   *)
Renames == layout.loop /\ ~layout.own

(* What a process sees under /var/lib/docker: the mount on top, if any.    *)
Visible(h) ==
  IF "target" \in h.mounts THEN h.target ELSE IF "orig" \in h.mounts THEN "full" ELSE h.base
RootExists == host.base # "none"
MountedAtRoot == host.mounts \cap {"orig", "target"}

With(f, v) == [host EXCEPT !.conf[f] = v]
Mounted(m) == [host EXCEPT !.mounts = @ \cup {m}]
Unmounted(m) == [host EXCEPT !.mounts = @ \ {m}]

(* dockerd sets an empty root up for itself.                               *)
Started(h) ==
  [h EXCEPT !.docker = TRUE,
            !.base = IF h.mounts \cap {"orig", "target"} = {} /\ @ \in {"none", "blank"} THEN "stray" ELSE @,
            !.target = IF "target" \in h.mounts /\ @ = "blank" THEN "stray" ELSE @]

(* What a command that was cut short, or the crash, can leave half done.   *)
HalfDone ==
  CASE stage = "backup" /\ ~Renames -> {[host EXCEPT !.backup = "partial"]}
    [] stage = "image" /\ layout.loop -> {[host EXCEPT !.image = TRUE]}
    [] stage = "restore" -> {[host EXCEPT !.target = "partial"]}
    [] stage \in {"fstab", "dropin", "udev"} -> {With(stage, "torn")}
    [] stage = "rb_fstab" /\ "fstab" \in flags -> {With("fstab", "torn")}
    [] stage = "commit" -> {[host EXCEPT !.backup = "partial"]}
    [] OTHER -> {}

(* One command of _execute_setup.  The flags `pre` are set before it,      *)
(* `post` after it; failed or interrupted, it leads to the rollback.       *)
Command(from, to, pre, post, after) ==
  /\ stage = from
  /\ \/ /\ host' = after /\ stage' = to /\ flags' = flags \cup pre \cup post
        /\ UNCHANGED faults
     \/ /\ faults < MaxFaults /\ faults' = faults + 1
        /\ host' \in {host, after} \cup HalfDone
        /\ stage' = "rb_stop" /\ flags' = flags \cup pre
  /\ UNCHANGED <<layout, found, errors, committed, unmasked, reboots>>

Fault == faults < MaxFaults /\ faults' = faults + 1
Goes(to) == stage' = to
KeepsRun == UNCHANGED <<layout, committed, unmasked, reboots>>

(* _pre_stop_checks: the last refusal before the first change.             *)
Checks ==
  /\ stage = "checks"
  /\ stage' \in {"stop", "refused"}
  /\ UNCHANGED <<host, flags, found, errors, faults>> /\ KeepsRun

StopDocker == Command("stop", "mask", {"owed"}, {}, [host EXCEPT !.docker = FALSE])

(* Faulty: the unit stays enabled for the next boot.                       *)
MaskDockerFaulty == Command("mask", "backup", {"masked"}, {}, host)
MaskDocker == Command("mask", "backup", {"masked"}, {}, [host EXCEPT !.masked = TRUE])

(* `mv` on one filesystem, or rsync.                                       *)
BackUp ==
  Command("backup", "image", {}, IF Renames THEN {"moved"} ELSE {},
          [host EXCEPT !.backup = Visible(host), !.base = IF Renames THEN "none" ELSE @])

(* _create_image_file: the file is ours from on_created on, and a failed   *)
(* preallocation removes it; _prepare_partition cannot be undone.          *)
CreateTarget ==
  \/ ~layout.loop /\ Command("image", "format", {}, {}, host)
  \/ /\ layout.loop /\ stage = "image"
     /\ \/ host' = [host EXCEPT !.image = TRUE] /\ flags' = flags \cup {"created"}
           /\ Goes("format") /\ UNCHANGED faults
        \/ /\ Fault /\ Goes("rb_stop")
           /\ host' \in {host} \cup HalfDone /\ flags' \in {flags, flags \cup {"created"}}
     /\ UNCHANGED <<found, errors>> /\ KeepsRun

Format == Command("format", "probe", {}, {}, [host EXCEPT !.target = "blank"])

(* _mount_validation                                                       *)
MountProbe == Command("probe", "unprobe", {}, {}, Mounted("probe"))
CheckProbe == Command("unprobe", "daemon", {}, {}, Unmounted("probe"))

(* The configuration files, each flag set before its write.                *)
WriteConfig ==
  \E f \in Files :
    LET to == CASE f = "daemon" -> "fstab" [] f = "fstab" /\ layout.loop -> "dropin"
                [] f = "dropin" -> "udev" [] OTHER -> "mkdir"
    IN Command(f, to, {f}, {}, With(f, "new"))

(* The cutover.  A failed umount of the old mount is passed over: the new  *)
(* one is then mounted on top of it.                                       *)
MakeRoot ==
  Command("mkdir", IF layout.own THEN "umount" ELSE "mount", {}, {},
          [host EXCEPT !.base = IF @ = "none" THEN "blank" ELSE @])

UnmountOriginal ==
  /\ stage = "umount"
  /\ \/ host' = Unmounted("orig") /\ flags' = flags \cup {"unmounted"} /\ Goes("mount")
        /\ UNCHANGED faults
     \/ host' = host /\ Fault /\ Goes("mount") /\ UNCHANGED flags
     \/ host' \in {host, Unmounted("orig")} /\ Fault /\ Goes("rb_stop") /\ UNCHANGED flags
  /\ UNCHANGED <<found, errors>> /\ KeepsRun

MountTarget == Command("mount", "check", {}, {"mounted"}, Mounted("target"))
CheckMount == Command("check", "restore", {}, {}, host)

RestoreData == Command("restore", "unmask", {}, {}, [host EXCEPT !.target = "full"])

UnmaskDocker ==
  /\ stage = "unmask"
  /\ \/ host' = [host EXCEPT !.masked = FALSE] /\ flags' = flags \ {"masked"}
        /\ Goes("start") /\ UNCHANGED faults
     \/ host' \in {host, [host EXCEPT !.masked = FALSE]} /\ Fault /\ Goes("rb_stop")
        /\ UNCHANGED flags
  /\ unmasked' = ~host'.masked
  /\ UNCHANGED <<layout, found, errors, committed, reboots>>

StartDocker == Command("start", "verify", {"mayRun"}, {}, Started(host))

Verify ==
  /\ stage = "verify"
  /\ \/ Goes("commit") /\ committed' = TRUE /\ UNCHANGED faults
     \/ Fault /\ Goes("rb_stop") /\ UNCHANGED committed
  /\ UNCHANGED <<layout, host, flags, found, errors, unmasked, reboots>>

(* The commit point: whatever the removal meets, nothing is rolled back.   *)
RemoveBackup ==
  /\ stage = "commit" /\ Goes("done")
  /\ \/ host' = [host EXCEPT !.backup = "none"] /\ UNCHANGED faults
     \/ Fault /\ host' \in {host} \cup HalfDone
  /\ UNCHANGED <<flags, found, errors>> /\ KeepsRun

(***************************************************************************)
(* _rollback_setup.  A step that fails is noted, and the rest still runs.  *)
(***************************************************************************)

(* One _rollback_attempt, due when `due`, that can work when `can`; `says` *)
(* and `fails` are what the rollback then believes.                        *)
Attempt(from, to, due, can, after, says, fails, halves) ==
  /\ stage = from /\ Goes(to)
  /\ \/ ~due /\ UNCHANGED <<host, found, errors, faults>>
     \/ due /\ can /\ host' = after /\ found' = says /\ UNCHANGED <<errors, faults>>
     \/ due /\ ~can /\ host' = host /\ found' = fails /\ errors' = TRUE /\ UNCHANGED faults
     \/ due /\ can /\ Fault /\ host' \in {host} \cup halves /\ found' = fails /\ errors' = TRUE
  /\ UNCHANGED flags /\ KeepsRun

Believe(field, v) == [found EXCEPT ![field] = v]

StopAgain ==
  Attempt("rb_stop", "rb_look", "mayRun" \in flags, TRUE, [host EXCEPT !.docker = FALSE],
          found, found, {})

(* The flags are set after each helper returns, so the mount table and the *)
(* backup path decide too; findmnt may fail.                               *)
Look ==
  /\ stage = "rb_look" /\ Goes("rb_umount")
  /\ \E unknown \in BOOLEAN :
       LET changed == /\ RootExists /\ ~unknown
                      /\ "target" \in host.mounts \/ (layout.own /\ MountedAtRoot = {})
       IN /\ IF unknown THEN RootExists /\ Fault /\ errors' = TRUE ELSE UNCHANGED <<faults, errors>>
          /\ found' = [onTarget |-> "mounted" \in flags \/ (changed /\ MountedAtRoot # {}),
                       origGone |-> "unmounted" \in flags \/ (changed /\ layout.own),
                       moved |-> "moved" \in flags \/ (Renames /\ host.backup # "none" /\ ~RootExists),
                       unmounted |-> ~unknown, restored |-> ~unknown, fstab |-> TRUE]
  /\ UNCHANGED <<host, flags>> /\ KeepsRun

UnmountTarget ==
  Attempt("rb_umount", "rb_remount", found.onTarget, MountedAtRoot # {} /\ ~host.docker,
          Unmounted(IF "target" \in host.mounts THEN "target" ELSE "orig"),
          Believe("unmounted", TRUE), [found EXCEPT !.unmounted = FALSE, !.restored = FALSE], {})

RemountOriginal ==
  Attempt("rb_remount", "rb_move", found.unmounted /\ found.origGone,
          RootExists /\ "orig" \notin host.mounts, Mounted("orig"),
          Believe("restored", TRUE), Believe("restored", FALSE), {})

(* _move_docker_root_back: rmdir, then mv.  Faulty: without the rmdir `mv`  *)
(* puts the backup inside the new root.                                    *)
BackInPlace == [host EXCEPT !.base = host.backup, !.backup = "none"]
MoveBackFaulty ==
  Attempt("rb_move", "rb_confirm", found.moved, found.unmounted,
          IF host.base = "none" THEN BackInPlace ELSE [host EXCEPT !.backup = "none"],
          found, Believe("restored", FALSE), {})
MoveBack ==
  Attempt("rb_move", "rb_confirm", found.moved,
          /\ found.unmounted /\ MountedAtRoot = {} /\ host.base \in {"none", "blank"}
          /\ host.backup # "none",
          BackInPlace, found, Believe("restored", FALSE),
          {[host EXCEPT !.base = "none"], BackInPlace})

(* Docker starts only on a root that is demonstrably back.                 *)
Confirm ==
  /\ stage = "rb_confirm" /\ Goes("rb_fstab")
  /\ LET inPlace == /\ Renames => RootExists /\ ~(found.moved /\ host.backup # "none")
                    /\ found.restored
     IN \/ /\ found' = Believe("restored", inPlace /\ (layout.own => MountedAtRoot = {"orig"}))
           /\ errors' = (errors \/ (inPlace /\ layout.own /\ MountedAtRoot # {"orig"}))
           /\ UNCHANGED faults
        \/ inPlace /\ layout.own /\ Fault /\ errors' = TRUE /\ found' = Believe("restored", FALSE)
  /\ UNCHANGED <<host, flags>> /\ KeepsRun

RestoreFstab ==
  Attempt("rb_fstab", "rb_dropin", "fstab" \in flags, TRUE, With("fstab", "old"),
          found, Believe("fstab", FALSE), {With("fstab", "torn")})

RestoreConfig ==
  \E f \in Files \ {"fstab"} :
    LET to == CASE f = "dropin" -> "rb_udev" [] f = "udev" -> "rb_daemon" [] OTHER -> "rb_image"
        from == CASE f = "dropin" -> "rb_dropin" [] f = "udev" -> "rb_udev" [] OTHER -> "rb_daemon"
    IN Attempt(from, to, f \in flags, TRUE, With(f, "old"), found, found, {With(f, "torn")})

(* The validation mount may still hold the file.                           *)
RemoveImage ==
  Attempt("rb_image", "rb_docker", "created" \in flags /\ (~found.unmounted \/ host.image),
          found.unmounted /\ host.mounts \cap {"target", "probe"} = {},
          [host EXCEPT !.image = FALSE, !.target = "none"], found, found, {})

DataBack == found.restored /\ found.fstab
MaskAgain ==
  /\ Attempt("rb_docker", IF DataBack /\ "owed" \in flags THEN "rb_start" ELSE "failed",
             "owed" \in flags /\ (DataBack => "masked" \in flags), TRUE,
             [host EXCEPT !.masked = IF DataBack THEN FALSE ELSE TRUE], found, found, {})

StartAgain ==
  Attempt("rb_start", "failed", TRUE, ~host.masked, Started(host), found, found, {Started(host)})

(* A second Ctrl-C, or a kill, ends the rollback where it is.              *)
Crash ==
  /\ stage \notin Ended /\ Fault
  /\ Goes(IF stage \in Rollback THEN "cut" ELSE "crashed")
  /\ host' \in {host} \cup HalfDone
  /\ UNCHANGED <<flags, found, errors>> /\ KeepsRun

(* The next boot: fstab mounts (an image file with nofail), an unmasked    *)
(* unit starts, after the mount only where the drop-in is in place.        *)
Booted ==
  LET mounts == IF host.conf.fstab = "new" /\ host.target # "none" /\ (layout.loop => host.image)
                THEN {"target"}
                ELSE IF host.conf.fstab = "old" /\ layout.own THEN {"orig"} ELSE {}
      up == [host EXCEPT !.mounts = mounts, !.docker = FALSE]
      waits == host.conf.dropin = "new" /\ host.conf.fstab = "new"
  IN CASE host.masked -> {up}
       [] ~host.masked /\ waits /\ mounts = {} -> {up}
       [] ~host.masked /\ waits /\ mounts # {} -> {Started(up)}
       [] OTHER -> {Started(up)} \cup
            (IF layout.loop /\ host.conf.fstab = "new"
             THEN {[Started([up EXCEPT !.mounts = {}]) EXCEPT !.mounts = mounts]} ELSE {})

Reboot ==
  /\ stage \in Ended /\ reboots < MaxReboots /\ reboots' = reboots + 1
  /\ host' \in Booted
  /\ UNCHANGED <<layout, stage, flags, found, errors, committed, unmasked, faults>>

SetupNext ==
  \/ Checks \/ StopDocker \/ MaskDocker \/ BackUp \/ CreateTarget \/ Format
  \/ MountProbe \/ CheckProbe \/ WriteConfig \/ MakeRoot \/ UnmountOriginal
  \/ MountTarget \/ CheckMount \/ RestoreData \/ UnmaskDocker \/ StartDocker
  \/ Verify \/ RemoveBackup
  \/ StopAgain \/ Look \/ UnmountTarget \/ RemountOriginal \/ MoveBack \/ Confirm
  \/ RestoreFstab \/ RestoreConfig \/ RemoveImage \/ MaskAgain \/ StartAgain
  \/ Crash \/ Reboot

SetupSpec == SetupInit /\ [][SetupNext]_setupVars

-----------------------------------------------------------------------------
(* At every moment there is a whole copy of the Docker data: outside the   *)
(* target until the new root has been verified, on it from then on         *)
(* (_execute_setup's "commit point").                                      *)
CopyOutside == layout.own \/ host.base = "full" \/ host.backup = "full"
DataKept == IF committed THEN host.target = "full" ELSE CopyOutside

(* Docker never runs on a root without its data: not after a failed step,  *)
(* not after an interrupt and not after a reboot at any point ("a reboot   *)
(* must not start Docker on the renamed-away root or on the new            *)
(* filesystem").  The one exception is a rollback that comes after step 10 *)
(* has unmasked the unit and does not reach, or fails at, masking it again.*)
NeverOnWrongRoot ==
  host.docker => Visible(host) = "full" \/ (unmasked /\ stage \in {"cut", "failed"})

(* "Reversible host changes rolled back and Docker was restarted": without *)
(* an error to report, a failed setup leaves Docker running on the old     *)
(* data, with the old configuration and without the image file it made.    *)
SilentRollbackIsWhole ==
  stage = "failed" /\ ~errors /\ reboots = 0 =>
    /\ host.docker /\ ~host.masked
    /\ "target" \notin host.mounts /\ Visible(host) = "full"
    /\ host.conf = [f \in Files |-> "old"]
    /\ Renames => host.backup = "none"
    /\ "created" \in flags => ~host.image

(* Both: wherever it ends or is cut, the set-up leaves a host that runs on *)
(* its data, or does not run Docker and says so.                           *)
HostIsLeftWhole == NeverOnWrongRoot /\ SilentRollbackIsWhole

=============================================================================
