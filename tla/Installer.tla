----------------------------- MODULE Installer -----------------------------
(***************************************************************************)
(* tools/install-dot.py against one unit, run after run: the backup of the *)
(* recovery partition, the unit's identity, the boot image, the slot       *)
(* script, the boot count, and the wait on the unit's console; with steps  *)
(* that fail, power cuts, a second PC, a user who goes back to adb, and a  *)
(* Dot that was given away and set up by its new owner.                    *)
(*                                                                         *)
(* A root filesystem is "new" (this run's), "old" (an earlier one's) or    *)
(* "part" of one.  disk is the store and userdata as they are read,        *)
(* survivors the disks a power cut may leave, as in DotBoot.  What the     *)
(* images hold and who else writes them is BootImage's business.           *)
(***************************************************************************)
EXTENDS Naturals

CONSTANTS
  Keys,          \* Home Assistant keys that may be made
  TRIES_MAX,     \* boots in a row that may fail before rescue
  MaxFailures,   \* bound: installer runs that fail
  PowerCuts      \* TRUE: the power may fail

ASSUME KeysAssumption == "none" \notin Keys
ASSUME BoundsAssumption == TRIES_MAX \in Nat \ {0} /\ MaxFailures \in Nat
ASSUME FlagsAssumption == PowerCuts \in BOOLEAN

VARIABLES
  env,         \* what the unit runs; "adb" is TWRP, or Fire OS with root adb
  rec,         \* the recovery partition
  disk,        \* slots a and a.old, slot a's state, the firmware, the identity
  survivors,   \* the disks a power cut may leave
  misc,        \* the boot count, and whether it says healthy
  step,        \* how far the installer is
  gift,        \* this run: --for-someone-else
  backup,      \* the PC's backup of the recovery partition
  keyFile,     \* the PC's file with the unit's key
  write,       \* this run: the key to write, with a name, or none
  shown,       \* this run: the key to show at the end, or none
  said,        \* what the last run ended with
  had,         \* history: a whole root has been installed
  failures,    \* history: runs that failed since one completed
  boots,       \* history: boots since the count was cleared
  cameUp       \* history: the new root has been healthy since then

unit == <<env, rec, disk, survivors, misc>>
pc   == <<gift, backup, keyFile, write, shown, said>>
hist == <<had, failures, boots, cameUp>>
vars == <<unit, step, pc, hist>>

Trees == {"none", "part", "old", "new"}
Disks == [a : Trees, aOld : Trees, good : BOOLEAN, fw : {"none", "part", "whole"},
          name : BOOLEAN, psk : Keys \cup {"none"}]
Script == {"script", "setaside", "tar", "firmware", "drop", "mark"}
Steps  == {"idle", "backup", "identity", "flash", "check", "name", "psk", "arm",
           "reboot", "wait"} \cup Script
Images == {"twrp", "linux", "torn"}

TypeOK ==
  /\ env \in {"off", "adb", "slot", "rescue"}
  /\ rec \in Images
  /\ disk \in Disks
  /\ survivors \subseteq Disks
  /\ misc \in [tries : 0 .. TRIES_MAX, healthy : BOOLEAN]
  /\ step \in Steps
  /\ gift \in BOOLEAN
  /\ backup \in Images \cup {"none"}
  /\ {keyFile, write, shown} \subseteq Keys \cup {"none"}
  /\ said \in {"none", "done", "up", "unconfirmed", "rescue", "failed"}
  /\ had \in BOOLEAN
  /\ failures \in 0 .. MaxFailures
  /\ boots \in 0 .. TRIES_MAX
  /\ cameUp \in BOOLEAN

\* A unit new to TECHO5, or one installed before: by this PC or another, with
\* its firmware in the store already or still in its slot (dot-v1.0).
NewUnit == [a |-> "none", aOld |-> "none", good |-> FALSE, fw |-> "none",
            name |-> FALSE, psk |-> "none"]

OldUnits == [a : {"old"}, aOld : {"none"}, good : {TRUE}, fw : {"none", "whole"},
             name : {TRUE}, psk : Keys]

Init ==
  /\ env = "adb"
  /\ \/ disk = NewUnit /\ rec = "twrp" /\ backup = "none" /\ keyFile = "none"
     \/ /\ disk \in OldUnits
        /\ rec \in {"twrp", "linux"}
        /\ \/ backup = "twrp" /\ keyFile = disk.psk
           \/ backup = "none" /\ keyFile = "none"
  /\ survivors = {disk}
  /\ misc \in [tries : {0, TRIES_MAX}, healthy : {FALSE}]
  /\ step = "idle"
  /\ gift = FALSE
  /\ write = "none"
  /\ shown = "none"
  /\ said = "none"
  /\ had = (disk.a = "old")
  /\ failures = 0
  /\ boots = 0
  /\ cameUp = FALSE

-----------------------------------------------------------------------------
Put(new) ==
  /\ disk' = new
  /\ survivors' = survivors \cup {new}

Sync == survivors' = {disk}

Goto(to) == step' = to /\ UNCHANGED <<pc, hist>>

\* A step fails: the tool says so and stops where it is.
Fail ==
  /\ step \notin {"idle", "wait"}
  /\ failures < MaxFailures
  /\ failures' = failures + 1
  /\ step' = "idle"
  /\ said' = "failed"
  /\ UNCHANGED <<unit, gift, backup, keyFile, write, shown, had, boots, cameUp>>

\* Steps 1 and 2 begin: what is in slot a now is an earlier install's.
Begin(someoneElse) ==
  LET Earlier(d) == [d EXCEPT !.a = IF @ = "new" THEN "old" ELSE @]
  IN  /\ env = "adb"
      /\ step = "idle"
      /\ step' = "backup"
      /\ gift' = someoneElse
      /\ said' = "none"
      /\ write' = "none"
      /\ shown' = "none"
      /\ disk' = Earlier(disk)
      /\ survivors' = {Earlier(d) : d \in survivors}
      /\ had' = (had \/ disk.a \in {"old", "new"})
      /\ cameUp' = FALSE
      /\ UNCHANGED <<env, rec, misc, backup, keyFile, failures, boots>>

\* The image a backup must not be: Linux's own, or what is left of one.
\* Mutant: it is not looked for.
IsTecho5_Unchecked(image) == FALSE

IsTecho5(image) == image \in {"linux", "torn"}

\* A recovery backup taken before stays, whatever the partition holds now; one
\* that holds TECHO5 Linux stops the run.
Backup ==
  LET kept == IF backup = "none" THEN rec ELSE backup
  IN  /\ step = "backup"
      /\ ~IsTecho5(kept)
      /\ backup' = kept
      /\ step' = "identity"
      /\ UNCHANGED <<unit, gift, keyFile, write, shown, said, hist>>

\* The copy itself is kept, and the next run finds it.
BackupRefused ==
  LET kept == IF backup = "none" THEN rec ELSE backup
  IN  /\ step = "backup"
      /\ IsTecho5(kept)
      /\ backup' = kept
      /\ step' = "idle"
      /\ said' = "failed"
      /\ UNCHANGED <<unit, gift, keyFile, write, shown, hist>>

\* The user puts the unit's TWRP where the refused backup is, as the tool says.
UserFindsTwrp ==
  /\ step = "idle"
  /\ IsTecho5(backup)
  /\ backup' = "twrp"
  /\ UNCHANGED <<unit, step, gift, keyFile, write, shown, said, hist>>

\* Mutant: a name alone is taken for an identity.
HasIdentity_NameOnly == disk.name

HasIdentity == disk.name /\ disk.psk # "none"

\* Step 4: the unit keeps the identity it has; one without gets the key of the
\* PC's key file, or a new one, which the file then holds.
Identity ==
  /\ step = "identity"
  /\ step' = "flash"
  /\ IF gift
     THEN UNCHANGED <<keyFile, write, shown>>
     ELSE IF HasIdentity
     THEN /\ write' = "none"
          /\ shown' = disk.psk
          /\ keyFile' = IF keyFile = "none" THEN disk.psk ELSE keyFile
     ELSE \E k \in IF keyFile = "none" THEN Keys ELSE {keyFile} :
            write' = k /\ shown' = k /\ keyFile' = k
  /\ UNCHANGED <<unit, gift, backup, said, hist>>

\* Step 5: the boot image is written ...
Flash ==
  /\ step = "flash"
  /\ rec' = "torn"
  /\ UNCHANGED <<env, disk, survivors, misc>>
  /\ Goto("check")

\* ... and read back as it is.
FlashChecks ==
  /\ step = "check"
  /\ rec' = "linux"
  /\ Sync
  /\ UNCHANGED <<env, disk, misc>>
  /\ Goto("script")

-----------------------------------------------------------------------------
(* Step 6: SLOT_SCRIPT.                                                    *)

\* rm -rf a.old
ScriptClears ==
  /\ step = "script"
  /\ Put([disk EXCEPT !.aOld = "none"])
  /\ UNCHANGED <<env, rec, misc>>
  /\ Goto("setaside")

\* Mutant: the old slot a is removed, not set aside.
OldRoot_Removed == "none"

OldRoot == disk.a

\* mv a a.old; mkdir a
ScriptSetsAside ==
  /\ step = "setaside"
  /\ Put([disk EXCEPT !.aOld = OldRoot, !.a = "part"])
  /\ UNCHANGED <<env, rec, misc>>
  /\ Goto("tar")

\* tar, and the look for /sbin/init.
ScriptUnpacks ==
  /\ step = "tar"
  /\ Put([disk EXCEPT !.a = "new"])
  /\ UNCHANGED <<env, rec, misc>>
  /\ Goto("firmware")

\* The firmware goes from the old slot to the store, unless one is there by name.
ScriptMovesFirmware ==
  /\ step = "firmware"
  /\ IF disk.fw = "none" /\ disk.aOld = "old"
     THEN LET moved == [disk EXCEPT !.fw = "whole"]
          IN  /\ disk' = moved
              /\ survivors' = survivors \cup {moved, [disk EXCEPT !.fw = "part"]}
     ELSE UNCHANGED <<disk, survivors>>
  /\ UNCHANGED <<env, rec, misc>>
  /\ Goto("drop")

\* rm -rf a.old.  Nothing has been synced: the new root's names are there, and
\* its data may not be.
ScriptDropsOld ==
  LET dropped == [disk EXCEPT !.aOld = "none"]
  IN  /\ step = "drop"
      /\ disk' = dropped
      /\ survivors' = survivors \cup {dropped, [dropped EXCEPT !.a = "part"]}
      /\ UNCHANGED <<env, rec, misc>>
      /\ Goto("mark")

\* Slot a is good and active; sync.
ScriptMarks ==
  /\ step = "mark"
  /\ disk' = [disk EXCEPT !.good = TRUE]
  /\ survivors' = {disk'}
  /\ UNCHANGED <<env, rec, misc>>
  /\ Goto("name")

-----------------------------------------------------------------------------
(* The rest of step 6, and step 7.                                         *)

\* The name is pushed before the key; a gift's are both removed.
PushName ==
  /\ step = "name"
  /\ IF gift THEN Put([disk EXCEPT !.name = FALSE, !.psk = "none"])
     ELSE IF write # "none" THEN Put([disk EXCEPT !.name = TRUE])
     ELSE UNCHANGED <<disk, survivors>>
  /\ UNCHANGED <<env, rec, misc>>
  /\ Goto("psk")

PushKey ==
  /\ step = "psk"
  /\ IF write # "none" THEN Put([disk EXCEPT !.psk = write])
                       ELSE UNCHANGED <<disk, survivors>>
  /\ UNCHANGED <<env, rec, misc>>
  /\ Goto("arm")

\* Mutant: the count is not read back.
CountCleared_Unchecked == TRUE

CountCleared == misc'.tries = 0

\* The count is cleared; a dd that refuses its options leaves it as it was.
Arm ==
  /\ step = "arm"
  /\ \/ misc' = [tries |-> 0, healthy |-> FALSE]
     \/ UNCHANGED misc
  /\ CountCleared
  /\ Sync
  /\ step' = "reboot"
  /\ boots' = 0
  /\ UNCHANGED <<env, rec, disk, pc, had, failures, cameUp>>

Reboot ==
  /\ step = "reboot"
  /\ env' = "off"
  /\ step' = "wait"
  /\ failures' = 0
  /\ UNCHANGED <<rec, disk, survivors, misc, pc, had, boots, cameUp>>

\* Console answers: which slot is booted, and the count.
InRescue == env = "rescue" /\ misc.tries >= 5

\* Mutant: a booted slot is taken for a healthy one.
SaysHealthy_Booted == env = "slot"

SaysHealthy == env \in {"slot", "rescue"} /\ misc.healthy

\* Within eight minutes an answer says rescue or healthy; then the API port
\* answers within one, or does not.
WaitSees ==
  /\ step = "wait"
  /\ \/ InRescue /\ said' = "rescue"
     \/ ~InRescue /\ SaysHealthy /\ said' \in {"done", "unconfirmed"}
  /\ step' = "idle"
  /\ UNCHANGED <<unit, gift, backup, keyFile, write, shown, hist>>

\* No such answer came in time.
WaitTimesOut ==
  /\ step = "wait"
  /\ said' \in {"unconfirmed"} \cup (IF env = "slot" THEN {"up"} ELSE {})
  /\ step' = "idle"
  /\ UNCHANGED <<unit, gift, backup, keyFile, write, shown, hist>>

-----------------------------------------------------------------------------
(* The unit (DotBoot, with slot a alone).                                  *)

\* TWRP, or Fire OS: with nothing else there, or as it was before the installer
\* asked for recovery.
BootToAdb ==
  /\ env = "off"
  /\ rec = "linux" => step = "idle"
  /\ env' = "adb"
  /\ UNCHANGED <<rec, disk, survivors, misc, step, pc, hist>>

\* Mutant: one boot more.
Spent_OffByOne == misc.tries > TRIES_MAX

Spent == misc.tries >= TRIES_MAX

\* A boot is counted; a slot marked good boots if its /sbin/init is there.
BootLinux ==
  /\ env = "off"
  /\ rec = "linux"
  /\ IF Spent
     THEN env' = "rescue" /\ UNCHANGED <<misc, boots>>
     ELSE /\ misc' = [tries |-> misc.tries + 1, healthy |-> FALSE]
          /\ boots' = IF boots < TRIES_MAX THEN boots + 1 ELSE boots
          /\ \/ env' = "rescue" /\ (disk.a \in {"none", "part"} \/ ~disk.good)
             \/ env' = "slot" /\ disk.a # "none" /\ disk.good
  /\ UNCHANGED <<rec, disk, survivors, step, pc, had, failures, cameUp>>

\* echod has been up for 90 s; it is not, in part of a root.
Healthy ==
  /\ env = "slot"
  /\ disk.a # "part"
  /\ misc' = [tries |-> 0, healthy |-> TRUE]
  /\ cameUp' = (cameUp \/ disk.a = "new")
  /\ UNCHANGED <<env, rec, disk, survivors, step, pc, had, failures, boots>>

\* The kernel or a user restarts it.
Restart ==
  /\ env \in {"slot", "rescue"}
  /\ env' = "off"
  /\ UNCHANGED <<rec, disk, survivors, misc, step, pc, hist>>

\* to-twrp, or to-android and root adb.
BackToAdb ==
  /\ env \in {"slot", "rescue"}
  /\ step = "idle"
  /\ env' = "adb"
  /\ rec' \in {rec, "twrp"}
  /\ Sync
  /\ UNCHANGED <<disk, misc, step, pc, hist>>

\* The new owner of a gift sets it up (the daemon's first run).
OwnerSetsUp(k) ==
  /\ env = "slot"
  /\ ~disk.name
  /\ disk' = [disk EXCEPT !.name = TRUE, !.psk = k]
  /\ survivors' = {disk'}
  /\ UNCHANGED <<env, rec, misc, step, pc, hist>>

PowerCut ==
  /\ PowerCuts
  /\ env # "off"
  /\ env' = "off"
  /\ \E d \in survivors : disk' = d /\ survivors' = {d}
  /\ IF step \in {"idle", "wait"}
     THEN UNCHANGED <<step, said, failures>>
     ELSE /\ failures < MaxFailures
          /\ failures' = failures + 1
          /\ step' = "idle"
          /\ said' = "failed"
  /\ UNCHANGED <<rec, misc, gift, backup, keyFile, write, shown, had, boots, cameUp>>

-----------------------------------------------------------------------------
InstallerStep ==
  \/ \E someoneElse \in BOOLEAN : Begin(someoneElse)
  \/ Backup \/ BackupRefused \/ Identity \/ Flash \/ FlashChecks
  \/ ScriptClears \/ ScriptSetsAside \/ ScriptUnpacks \/ ScriptMovesFirmware
  \/ ScriptDropsOld \/ ScriptMarks \/ PushName \/ PushKey \/ Arm \/ Reboot
  \/ WaitSees \/ WaitTimesOut \/ Fail

UnitStep ==
  \/ UserFindsTwrp \/ BootToAdb \/ BootLinux \/ Healthy \/ Restart \/ BackToAdb \/ PowerCut
  \/ \E k \in Keys : OwnerSetsUp(k)

Next == InstallerStep \/ UnitStep

Spec == Init /\ [][Next]_vars

-----------------------------------------------------------------------------
(* Safety.                                                                 *)

\* Nothing is written to a unit whose own TWRP the PC does not hold, whatever
\* earlier runs, or another PC's, left in the recovery partition.
BackupIsTwrp ==
  step \notin {"idle", "backup", "wait"} => backup = "twrp"

WholeRoot(d) == d.a \in {"old", "new"} \/ d.aOld = "old"

\* A unit that had a root has one still, on any disk a power cut may leave, at
\* any time until a run has failed, but between the removal of the old root
\* and the sync after it.
EarlierRootKept ==
  had /\ failures = 0 /\ step # "mark" => \A d \in survivors : WholeRoot(d)

\* "Done: ... is running TECHO5 Linux, healthy" is said of the root this run
\* installed, never on the word of a count an earlier one left.
DoneIsHealthy == said = "done" => cameUp

\* A unit is called in rescue, and the wait given up, only after five boots of
\* what this run installed: a count left in MISC is never taken for them.
RescueIsSpent ==
  [][said' = "rescue" /\ said # "rescue" => boots = TRIES_MAX]_vars

\* The key a run that is not a gift shows at its end is the unit's, which has a
\* name as well, whatever runs were cut short before and whoever set it up.
KeyIsTheUnits ==
  said \in {"done", "up"} /\ ~gift => disk.name /\ disk.psk = shown /\ shown # "none"

-----------------------------------------------------------------------------
(* What the slot script says of itself.                                    *)

\* "A slot a from an earlier install is set aside until the new one has
\* unpacked, then removed": the root an install replaces is there until then.
SetAside == had /\ step # "mark" => WholeRoot(disk)
=============================================================================
