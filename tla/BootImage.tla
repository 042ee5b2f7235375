----------------------------- MODULE BootImage -----------------------------
(***************************************************************************)
(* The recovery partition, which holds a unit's kernel and initramfs, and  *)
(* the image files in its store: the installer (install-dot.py, steps 5 to *)
(* 7) and update-boot.py on a PC, to-twrp and back-to-linux.sh on the      *)
(* unit, a user with fastboot, and power cuts between any two steps.       *)
(*                                                                         *)
(* An image is its name: a build, the unit's own TWRP, "short" for a file  *)
(* that begins right and ends early, "torn" for a partition that was being *)
(* written.  disk is the store as it is read; survivors holds the stores a *)
(* power cut may leave, as in DotBoot.                                     *)
(***************************************************************************)
EXTENDS Naturals

CONSTANTS
  Builds,        \* the Linux boot images that can be built for the unit
  BadWrites,     \* TRUE: dd to the partition may go wrong unseen
  PowerCuts,     \* TRUE: the power may fail
  Impatient      \* TRUE: a user may act while update-boot.py waits

ASSUME BuildsAssumption == Builds \cap {"twrp", "none", "short", "torn", "off", "dead"} = {}
ASSUME FlagsAssumption ==
  {BadWrites, PowerCuts, Impatient} \subseteq BOOLEAN

VARIABLES
  rec,         \* what the recovery partition holds
  disk,        \* linux.img, linux-prev.img, linux-next.img, twrp.img, and
               \* whether back-to-linux.sh is there
  survivors,   \* the stores a power cut may leave
  env,         \* what the unit runs: a build, TWRP, nothing, or a dead kernel
  mark,        \* MISC says "TECHO5-TRIES 0 healthy"
  sameBoot,    \* this boot's id is the one update-boot.py read
  update,      \* how far update-boot.py and its flash script are
  want,        \* the build it installs
  swap,        \* how far to-twrp or back-to-linux.sh is
  installer,   \* how far install-dot.py is
  proven,      \* history: the builds that have booted healthy
  installed,   \* history: the builds the installer has put in place
  cut          \* history: an installer run was cut short, none completed since

vars == <<rec, disk, survivors, env, mark, sameBoot, update, want, swap,
          installer, proven, installed, cut>>

Files   == Builds \cup {"twrp", "none", "short"}
Stores  == [linux : Files, prev : Files, next : Files, twrp : Files,
            back : BOOLEAN]
Updates == {"idle", "send", "flash", "dd", "write", "check", "restore",
            "reboot", "wait", "keep"}
Swaps   == {"idle", "write", "check", "restore"}
Installs == {"idle", "linux", "flash", "write", "check", "twrp", "arm"}

TypeOK ==
  /\ rec \in Builds \cup {"twrp", "short", "torn"}
  /\ disk \in Stores
  /\ survivors \subseteq Stores
  /\ env \in Builds \cup {"twrp", "off", "dead"}
  /\ mark \in BOOLEAN
  /\ sameBoot \in BOOLEAN
  /\ update \in Updates
  /\ want \in Builds
  /\ swap \in Swaps
  /\ installer \in Installs
  /\ proven \subseteq Builds
  /\ installed \subseteq Builds
  /\ cut \in BOOLEAN

\* A unit in TWRP (or in Fire OS with root adb), before its first install.
Init ==
  /\ rec = "twrp"
  /\ disk = [linux |-> "none", prev |-> "none", next |-> "none", twrp |-> "none",
              back |-> FALSE]
  /\ survivors = {disk}
  /\ env = "twrp"
  /\ mark = FALSE
  /\ sameBoot = FALSE
  /\ update = "idle"
  /\ want \in Builds
  /\ swap = "idle"
  /\ installer = "idle"
  /\ proven = {}
  /\ installed = {}
  /\ cut = FALSE

-----------------------------------------------------------------------------
(* Files and the partition.                                                *)

\* A file written and not synced may be short after a power cut.
Put(file, image) ==
  /\ disk' = [disk EXCEPT ![file] = image]
  /\ survivors' = survivors \cup {[disk EXCEPT ![file] = image],
                                  [disk EXCEPT ![file] = "short"]}

Sync == survivors' = {disk}

\* dd to the partition: torn until it is done, and then as written or not.
DdBegins == rec' = "torn"

DdEnds(image) == rec' \in {image} \cup (IF BadWrites THEN {"torn"} ELSE {})

Bootable == Builds \cup {"twrp"}

OnLinux == env \in Builds

\* The PC tools and the user use the unit only when no other is at work.
Free ==
  /\ installer = "idle"
  /\ swap = "idle"
  /\ update = "idle" \/ (Impatient /\ update = "wait")

-----------------------------------------------------------------------------
(* Boots.                                                                  *)

\* The partition's image comes up.  A Linux boot counts a try in MISC, so the
\* mark of the boot before is gone; TWRP leaves MISC alone.
Boot ==
  /\ env = "off"
  /\ rec \in Bootable
  /\ env' = rec
  /\ mark' = (mark /\ rec = "twrp")
  /\ sameBoot' = FALSE
  /\ UNCHANGED <<rec, disk, survivors, update, want, swap, installer, proven,
                 installed, cut>>

\* There is no image to come up, or its kernel does not.
BootDies ==
  /\ env = "off"
  /\ rec \notin proven \cup {"twrp"}
  /\ env' = "dead"
  /\ UNCHANGED <<rec, disk, survivors, mark, sameBoot, update, want, swap,
                 installer, proven, installed, cut>>

\* boot.sh finds the daemon up to stay (DotBoot's Healthy to ResetCount).
Healthy ==
  /\ OnLinux
  /\ ~mark
  /\ mark' = TRUE
  /\ proven' = proven \cup {env}
  /\ UNCHANGED <<rec, disk, survivors, env, sameBoot, update, want, swap,
                 installer, installed, cut>>

\* What ran on the unit is gone; a PC tool that drove it sees its shell fail.
Stopped ==
  /\ env' = "off"
  /\ swap' = "idle"
  /\ installer' = "idle"
  /\ update' = IF update \in {"reboot", "wait", "keep"} THEN update ELSE "idle"

PowerCut ==
  /\ PowerCuts
  /\ env # "off"
  /\ Stopped
  /\ cut' = (cut \/ installer # "idle")
  /\ \E st \in survivors : disk' = st /\ survivors' = {st}
  /\ UNCHANGED <<rec, mark, sameBoot, want, proven, installed>>

\* A user puts the TWRP of the PC's backup in by fastboot.
FastbootTwrp ==
  /\ env = "dead"
  /\ Free
  /\ rec' = "twrp"
  /\ env' = "twrp"
  /\ UNCHANGED <<disk, survivors, mark, sameBoot, update, want, swap,
                 installer, proven, installed, cut>>

-----------------------------------------------------------------------------
(* update-boot.py.                                                         *)

\* The image is built and the running boot's id read.
UpdateBegins(b) ==
  /\ update = "idle"
  /\ OnLinux
  /\ Free
  /\ update' = "send"
  /\ want' = b
  /\ sameBoot' = TRUE
  /\ UNCHANGED <<rec, disk, survivors, env, mark, swap, installer, proven,
                 installed, cut>>

\* It goes over SSH into the store, whole, or the tool fails.
UpdateSends ==
  /\ update = "send"
  /\ \/ Put("next", want) /\ update' = "flash"
     \/ Put("next", "short") /\ update' = "idle"
  /\ UNCHANGED <<rec, env, mark, sameBoot, want, swap, installer, proven,
                 installed, cut>>

\* The flash script keeps linux.img as linux-prev.img, if there is one, ...
FlashKeepsPrev ==
  /\ update = "flash"
  /\ IF disk.linux = "none"
     THEN update' = "idle" /\ UNCHANGED <<disk, survivors>>
     ELSE update' = "dd" /\ Put("prev", disk.linux)
  /\ UNCHANGED <<rec, env, mark, sameBoot, want, swap, installer, proven,
                 installed, cut>>

\* ... writes the partition, syncs ...
FlashBegins ==
  /\ update = "dd"
  /\ DdBegins
  /\ update' = "write"
  /\ UNCHANGED <<disk, survivors, env, mark, sameBoot, want, swap, installer,
                 proven, installed, cut>>

FlashWrites ==
  /\ update = "write"
  /\ DdEnds(disk.next)
  /\ Sync
  /\ update' = "check"
  /\ UNCHANGED <<disk, env, mark, sameBoot, want, swap, installer, proven,
                 installed, cut>>

\* Mutant: the partition is not read back.
ReadBack_Unchecked(image) == TRUE

ReadBack(image) == rec = image

\* ... and reads it back: what is not as sent is replaced by linux-prev.img.
FlashChecks ==
  /\ update = "check"
  /\ IF ReadBack(want) THEN update' = "reboot" /\ UNCHANGED rec
                       ELSE update' = "restore" /\ DdBegins
  /\ UNCHANGED <<disk, survivors, env, mark, sameBoot, want, swap, installer,
                 proven, installed, cut>>

FlashRestores ==
  /\ update = "restore"
  /\ DdEnds(disk.prev)
  /\ Sync
  /\ update' = "idle"
  /\ UNCHANGED <<disk, env, mark, sameBoot, want, swap, installer, proven,
                 installed, cut>>

\* The unit is told to sync and reboot, if it can still be reached.
UpdateReboots ==
  /\ update = "reboot"
  /\ update' = "wait"
  /\ \/ OnLinux /\ env' = "off" /\ swap' = "idle" /\ Sync
     \/ UNCHANGED <<env, swap, survivors>>
  /\ UNCHANGED <<rec, disk, mark, sameBoot, want, installer, proven, installed, cut>>

\* Mutant: any boot's mark will do.
NewBootHealthy_AnyBoot == mark

NewBootHealthy == mark /\ ~sameBoot

\* Six minutes of looking for a healthy boot with another id.
UpdateWaits ==
  /\ update = "wait"
  /\ \/ OnLinux /\ NewBootHealthy /\ update' = "keep"
     \/ update' = "idle"
  /\ UNCHANGED <<rec, disk, survivors, env, mark, sameBoot, want, swap,
                 installer, proven, installed, cut>>

\* Mutant: linux-next.img is copied over linux.img.
MoveNext_Copied == Put("linux", disk.next)

\* linux-next.img becomes linux.img (mv), then sync.
MoveNext ==
  LET kept == [disk EXCEPT !.linux = disk.next, !.next = "none"]
  IN  disk' = kept /\ survivors' = {kept}

\* A unit that is gone by now, or a file that is, goes unnoticed.
UpdateKeeps ==
  /\ update = "keep"
  /\ update' = "idle"
  /\ IF OnLinux /\ disk.next # "none" THEN MoveNext
                                      ELSE UNCHANGED <<disk, survivors>>
  /\ UNCHANGED <<rec, env, mark, sameBoot, want, swap, installer, proven,
                 installed, cut>>

-----------------------------------------------------------------------------
(* to-twrp, on Linux; back-to-linux.sh, in TWRP.                           *)

\* The image each writes from the store.
SwapImage == IF OnLinux THEN disk.twrp ELSE disk.linux

\* Mutant: whether there is a file is not looked at.
HasImage_Unchecked == TRUE

\* to-twrp wants a file that is not empty and begins as an image does,
\* back-to-linux.sh one not empty.
HasImage == SwapImage # "none"

\* back-to-linux.sh is there once an installer has put it there.
SwapBegins ==
  /\ OnLinux \/ (env = "twrp" /\ disk.back)
  /\ Free
  /\ HasImage
  /\ DdBegins
  /\ swap' = "write"
  /\ UNCHANGED <<disk, survivors, env, mark, sameBoot, update, want, installer,
                 proven, installed, cut>>

SwapWrites ==
  /\ swap = "write"
  /\ DdEnds(SwapImage)
  /\ Sync
  /\ swap' = "check"
  /\ UNCHANGED <<disk, env, mark, sameBoot, update, want, installer, proven,
                 installed, cut>>

\* Read back as it was in the store: reboot into it; to-twrp clears the count.
SwapReboots ==
  /\ swap = "check"
  /\ ReadBack(SwapImage)
  /\ env' = "off"
  /\ swap' = "idle"
  /\ mark' = (mark /\ ~OnLinux)
  /\ Sync
  /\ UNCHANGED <<rec, disk, sameBoot, update, want, installer, proven, installed, cut>>

\* Not so: to-twrp writes linux.img back, back-to-linux.sh only says so.
SwapFails ==
  /\ swap = "check"
  /\ ~ReadBack(SwapImage)
  /\ IF OnLinux /\ disk.linux # "none" THEN swap' = "restore" /\ DdBegins
                                            ELSE swap' = "idle" /\ UNCHANGED rec
  /\ UNCHANGED <<disk, survivors, env, mark, sameBoot, update, want, installer,
                 proven, installed, cut>>

SwapRestores ==
  /\ swap = "restore"
  /\ DdEnds(disk.linux)
  /\ Sync
  /\ swap' = "idle"
  /\ UNCHANGED <<disk, env, mark, sameBoot, update, want, installer, proven,
                 installed, cut>>

-----------------------------------------------------------------------------
(* install-dot.py, steps 5 to 7, over adb.                                 *)

\* linux.img is being pushed in place.
InstallBegins ==
  /\ env = "twrp"
  /\ Free
  /\ installer = "idle"
  /\ installer' = "linux"
  /\ Put("linux", "short")
  /\ UNCHANGED <<rec, env, mark, sameBoot, update, want, swap, proven, installed, cut>>

InstallPushesLinux(b) ==
  /\ installer = "linux"
  /\ Put("linux", b)
  /\ installer' = "flash"
  /\ installed' = installed \cup {b}
  /\ UNCHANGED <<rec, env, mark, sameBoot, update, want, swap, proven, cut>>

InstallFlashes ==
  /\ installer = "flash"
  /\ DdBegins
  /\ installer' = "write"
  /\ UNCHANGED <<disk, survivors, env, mark, sameBoot, update, want, swap,
                 proven, installed, cut>>

InstallWrites ==
  /\ installer = "write"
  /\ DdEnds(disk.linux)
  /\ Sync
  /\ installer' = "check"
  /\ UNCHANGED <<disk, env, mark, sameBoot, update, want, swap, proven, installed, cut>>

\* Read back; the slot goes in (SLOT_SCRIPT), and twrp.img is being pushed.
InstallChecks ==
  /\ installer = "check"
  /\ IF ReadBack(disk.linux)
     THEN installer' = "twrp" /\ Put("twrp", "short")
     ELSE installer' = "idle" /\ UNCHANGED <<disk, survivors>>
  /\ UNCHANGED <<rec, env, mark, sameBoot, update, want, swap, proven, installed, cut>>

\* The TWRP copy's md5 is that of the PC's backup; back-to-linux.sh follows.
InstallPushesTwrp ==
  /\ installer = "twrp"
  /\ disk' = [disk EXCEPT !.twrp = "twrp", !.back = TRUE]
  /\ survivors' = survivors \cup {disk', [disk' EXCEPT !.twrp = "short"]}
  /\ installer' = "arm"
  /\ UNCHANGED <<rec, env, mark, sameBoot, update, want, swap, proven, installed, cut>>

\* The count is cleared and read back, and the unit rebooted.
InstallReboots ==
  /\ installer = "arm"
  /\ Sync
  /\ mark' = FALSE
  /\ env' = "off"
  /\ installer' = "idle"
  /\ cut' = FALSE
  /\ UNCHANGED <<rec, disk, sameBoot, update, want, swap, proven, installed>>

\* Any step fails: the tool stops where it is.
InstallFails ==
  /\ installer # "idle"
  /\ installer' = "idle"
  /\ cut' = TRUE
  /\ UNCHANGED <<rec, disk, survivors, env, mark, sameBoot, update, want, swap,
                 proven, installed>>

-----------------------------------------------------------------------------
UnitStep == Boot \/ BootDies \/ Healthy \/ PowerCut \/ FastbootTwrp

UpdateStep ==
  \/ \E b \in Builds : UpdateBegins(b)
  \/ UpdateSends \/ FlashKeepsPrev \/ FlashBegins \/ FlashWrites \/ FlashChecks
  \/ FlashRestores \/ UpdateReboots \/ UpdateWaits \/ UpdateKeeps

SwapStep == SwapBegins \/ SwapWrites \/ SwapReboots \/ SwapFails \/ SwapRestores

InstallStep ==
  \/ InstallBegins \/ InstallFlashes \/ InstallWrites \/ InstallChecks
  \/ InstallPushesTwrp \/ InstallReboots \/ InstallFails
  \/ \E b \in Builds : InstallPushesLinux(b)

Next == UnitStep \/ UpdateStep \/ SwapStep \/ InstallStep

\* A script that runs on the unit runs on, and the tool on the PC does not wait
\* for ever; users, installers and the power supply owe nothing.
Fairness ==
  /\ WF_vars(FlashKeepsPrev \/ FlashBegins \/ FlashWrites \/ FlashChecks \/ FlashRestores)
  /\ WF_vars(SwapWrites \/ SwapReboots \/ SwapFails \/ SwapRestores)
  /\ WF_vars(UpdateReboots \/ UpdateWaits \/ UpdateKeeps)

Spec == Init /\ [][Next]_vars /\ Fairness

-----------------------------------------------------------------------------
(* Safety.                                                                 *)

\* Once the installer has put linux.img in place it stays, whatever the power
\* does to an update, a whole image: one the installer put there or one that
\* has booted healthy, for to-twrp and back-to-linux.sh to go back to.
LinuxImgKept ==
  installer = "idle" /\ ~cut =>
    \A st \in survivors :
      st.linux \in proven \cup installed \/ (st.linux = "none" /\ installed = {})

\* "linux.img is only replaced once the new image has booted healthy"
\* (update-boot.py): no healthy mark of another boot, or of another image, is
\* taken for the new one's.
ReplacedOnceHealthy ==
  [][UpdateKeeps /\ disk'.linux # disk.linux => disk'.linux \in proven]_vars

\* A tool reboots the unit only into what it is for, and what can come up: what
\* it wrote went in whole, or it did not get that far.  update-boot.py and the
\* installer go into a Linux image, to-twrp into TWRP, back-to-linux.sh into
\* Linux.  (An installer cut short may leave files in the store that to-twrp and
\* back-to-linux.sh take for whole.)
RebootsIntoImage ==
  [][/\ UpdateReboots \/ InstallReboots => rec \in Builds
     /\ SwapReboots /\ ~cut => IF OnLinux THEN rec = "twrp" ELSE rec \in Builds]_vars

-----------------------------------------------------------------------------
(* What to-twrp says of itself.                                            *)

\* "to-twrp: TWRP is in recovery (md5 ...); rebooting into it": what it reboots
\* into is the unit's own TWRP.
TwrpInRecovery == [][SwapReboots /\ OnLinux => rec = "twrp"]_vars
=============================================================================
