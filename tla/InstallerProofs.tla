-------------------------- MODULE InstallerProofs --------------------------
(***************************************************************************)
(* Theorems about Installer, for every set of keys, every number of boots  *)
(* and every number of failures.                                           *)
(***************************************************************************)
EXTENDS Installer, TLAPS

USE BoundsAssumption, KeysAssumption, FlagsAssumption

-----------------------------------------------------------------------------
(* Types.                                                                  *)

\* The disks the model starts from are disks.
LEMMA InitialDisks == NewUnit \in Disks /\ OldUnits \subseteq Disks
  BY DEF NewUnit, OldUnits, Disks, Trees

\* A write puts a disk where there was one.
LEMMA PutTyped ==
  ASSUME NEW d \in Disks, survivors \subseteq Disks, Put(d)
  PROVE  disk' \in Disks /\ survivors' \subseteq Disks
  BY DEF Put

\* A step of the installer keeps the types.
LEMMA InstallerTyped == TypeOK /\ InstallerStep => TypeOK'
<1> SUFFICES ASSUME TypeOK, InstallerStep PROVE TypeOK'
    OBVIOUS
<1> USE DEF TypeOK, unit, pc, hist
<1>1. CASE \E someoneElse \in BOOLEAN : Begin(someoneElse)
  <2>1. disk' \in Disks /\ survivors' \subseteq Disks
    BY <1>1 DEF Begin, Disks, Trees
  <2>2. QED
    BY <1>1, <2>1 DEF Begin, Steps
<1>2. CASE Backup \/ BackupRefused
  BY <1>2 DEF Backup, BackupRefused, Steps
<1>3. CASE Identity
  <2>1. disk.psk \in Keys \cup {"none"}
    BY DEF Disks
  <2>2. QED
    BY <1>3, <2>1 DEF Identity, Steps
<1>4. CASE Flash \/ FlashChecks
  BY <1>4 DEF Flash, FlashChecks, Goto, Sync, Steps, Script, Images
<1>5. CASE ScriptClears \/ ScriptSetsAside \/ ScriptUnpacks
  <2>1. [disk EXCEPT !.aOld = "none"] \in Disks
    BY DEF Disks, Trees
  <2>2. [disk EXCEPT !.aOld = OldRoot, !.a = "part"] \in Disks
    BY DEF Disks, Trees, OldRoot
  <2>3. [disk EXCEPT !.a = "new"] \in Disks
    BY DEF Disks, Trees
  <2>4. disk' \in Disks /\ survivors' \subseteq Disks
    BY <1>5, <2>1, <2>2, <2>3, PutTyped DEF ScriptClears, ScriptSetsAside, ScriptUnpacks
  <2>5. QED
    BY <1>5, <2>4 DEF ScriptClears, ScriptSetsAside, ScriptUnpacks, Goto, Steps, Script
<1>6. CASE ScriptMovesFirmware
  <2>1. disk' \in Disks /\ survivors' \subseteq Disks
    BY <1>6 DEF ScriptMovesFirmware, Disks
  <2>2. QED
    BY <1>6, <2>1 DEF ScriptMovesFirmware, Goto, Steps, Script
<1>7. CASE ScriptDropsOld \/ ScriptMarks
  <2>1. [disk EXCEPT !.aOld = "none"] \in Disks
    BY DEF Disks, Trees
  <2>2. [[disk EXCEPT !.aOld = "none"] EXCEPT !.a = "part"] \in Disks
    BY <2>1 DEF Disks, Trees
  <2>3. [disk EXCEPT !.good = TRUE] \in Disks
    BY DEF Disks
  <2>4. disk' \in Disks /\ survivors' \subseteq Disks
    BY <1>7, <2>1, <2>2, <2>3 DEF ScriptDropsOld, ScriptMarks
  <2>5. QED
    BY <1>7, <2>4 DEF ScriptDropsOld, ScriptMarks, Goto, Steps, Script
<1>8. CASE PushName \/ PushKey
  <2>1. [disk EXCEPT !.name = FALSE, !.psk = "none"] \in Disks
    BY DEF Disks
  <2>2. [disk EXCEPT !.name = TRUE] \in Disks
    BY DEF Disks
  <2>3. [disk EXCEPT !.psk = write] \in Disks
    BY DEF Disks
  <2>4. disk' \in Disks /\ survivors' \subseteq Disks
    BY <1>8, <2>1, <2>2, <2>3, PutTyped DEF PushName, PushKey
  <2>5. QED
    BY <1>8, <2>4 DEF PushName, PushKey, Goto, Steps
<1>9. CASE Arm \/ Reboot
  <2>1. 0 \in 0 .. TRIES_MAX /\ 0 \in 0 .. MaxFailures
    OBVIOUS
  <2>2. [tries |-> 0, healthy |-> FALSE] \in [tries : 0 .. TRIES_MAX, healthy : BOOLEAN]
    BY <2>1
  <2>3. CASE Arm
    BY <2>1, <2>2, <2>3 DEF Arm, Sync, Steps
  <2>4. CASE Reboot
    BY <2>1, <2>4 DEF Reboot, Steps
  <2>5. QED
    BY <1>9, <2>3, <2>4
<1>10. CASE WaitSees \/ WaitTimesOut \/ Fail
  BY <1>10 DEF WaitSees, WaitTimesOut, Fail, Steps
<1>11. QED
  BY <1>1, <1>2, <1>3, <1>4, <1>5, <1>6, <1>7, <1>8, <1>9, <1>10 DEF InstallerStep

\* A step of the unit, or of its user, keeps the types.
LEMMA UnitTyped == TypeOK /\ UnitStep => TypeOK'
<1> SUFFICES ASSUME TypeOK, UnitStep PROVE TypeOK'
    OBVIOUS
<1> USE DEF TypeOK, unit, pc, hist
<1>1. CASE UserFindsTwrp \/ BootToAdb \/ Restart
  BY <1>1 DEF UserFindsTwrp, BootToAdb, Restart, Images
<1>2. CASE BootLinux
  <2>1. CASE Spent
    BY <1>2, <2>1 DEF BootLinux
  <2>2. CASE ~Spent
    <3>1. misc.tries \in 0 .. TRIES_MAX /\ misc.tries < TRIES_MAX
      BY <2>2 DEF Spent
    <3>2. misc.tries + 1 \in 0 .. TRIES_MAX
      BY <3>1
    <3>3. misc' = [tries |-> misc.tries + 1, healthy |-> FALSE]
      BY <1>2, <2>2 DEF BootLinux
    <3>4. misc' \in [tries : 0 .. TRIES_MAX, healthy : BOOLEAN]
      BY <3>2, <3>3
    <3>5. boots' \in 0 .. TRIES_MAX
      BY <1>2, <2>2 DEF BootLinux
    <3>6. QED
      BY <1>2, <2>2, <3>4, <3>5 DEF BootLinux
  <2>3. QED
    BY <2>1, <2>2
<1>3. CASE Healthy
  BY <1>3 DEF Healthy
<1>4. CASE BackToAdb
  BY <1>4 DEF BackToAdb, Sync, Images
<1>5. CASE \E k \in Keys : OwnerSetsUp(k)
  <2>1. \A k \in Keys : [disk EXCEPT !.name = TRUE, !.psk = k] \in Disks
    BY DEF Disks
  <2>2. QED
    BY <1>5, <2>1 DEF OwnerSetsUp
<1>6. CASE PowerCut
  BY <1>6 DEF PowerCut, Steps
<1>7. QED
  BY <1>1, <1>2, <1>3, <1>4, <1>5, <1>6 DEF UnitStep

\* Every state an installer, a unit, a user and power cuts lead to is well
\* typed: no boot counts past the limit, whatever the count began at.
THEOREM InstallerTypes == Spec => []TypeOK
<1>1. Init => TypeOK
  <2> SUFFICES ASSUME Init PROVE TypeOK
      OBVIOUS
  <2>1. disk \in Disks
    BY InitialDisks DEF Init
  <2>2. had \in BOOLEAN
    <3>1. had = (disk.a = "old")
      BY DEF Init
    <3>2. CASE disk.a = "old"
      BY <3>1, <3>2
    <3>3. CASE disk.a # "old"
      BY <3>1, <3>3
    <3>4. QED
      BY <3>2, <3>3
  <2>3. {keyFile, write, shown} \subseteq Keys \cup {"none"}
    <3>1. disk.psk \in Keys \cup {"none"}
      BY <2>1 DEF Disks
    <3>2. keyFile = "none" \/ keyFile = disk.psk
      BY DEF Init
    <3>3. write = "none" /\ shown = "none"
      BY DEF Init
    <3>4. QED
      BY <3>1, <3>2, <3>3
  <2>4. misc \in [tries : 0 .. TRIES_MAX, healthy : BOOLEAN]
    <3>1. misc \in [tries : {0, TRIES_MAX}, healthy : {FALSE}]
      BY DEF Init
    <3>2. 0 \in 0 .. TRIES_MAX /\ TRIES_MAX \in 0 .. TRIES_MAX
      OBVIOUS
    <3>3. QED
      BY <3>1, <3>2
  <2>5. /\ env = "adb" /\ step = "idle" /\ said = "none"
        /\ rec \in {"twrp", "linux"} /\ backup \in {"twrp", "none"}
        /\ survivors = {disk} /\ gift = FALSE /\ cameUp = FALSE
        /\ failures = 0 /\ boots = 0
    BY DEF Init
  <2>6. env \in {"off", "adb", "slot", "rescue"} /\ step \in Steps
        /\ said \in {"none", "done", "up", "unconfirmed", "rescue", "failed"}
    BY <2>5 DEF Steps
  <2>7. rec \in Images /\ backup \in Images \cup {"none"}
    BY <2>5 DEF Images
  <2>8. survivors \subseteq Disks
    BY <2>1, <2>5
  <2>9. gift \in BOOLEAN /\ cameUp \in BOOLEAN
    BY <2>5
  <2>10. failures \in 0 .. MaxFailures /\ boots \in 0 .. TRIES_MAX
    BY <2>5
  <2>11. QED
    BY <2>1, <2>2, <2>3, <2>4, <2>6, <2>7, <2>8, <2>9, <2>10, Zenon DEF TypeOK
<1>2. TypeOK /\ [Next]_vars => TypeOK'
  <2> SUFFICES ASSUME TypeOK, [Next]_vars PROVE TypeOK'
      OBVIOUS
  <2>1. CASE Next
    BY <2>1, InstallerTyped, UnitTyped DEF Next
  <2>2. CASE UNCHANGED vars
    BY <2>2 DEF vars, unit, pc, hist, TypeOK
  <2>3. QED
    BY <2>1, <2>2
<1>3. QED
  BY <1>1, <1>2, PTL DEF Spec

-----------------------------------------------------------------------------
(* The backup.                                                             *)

\* What is known of the two places a unit's TWRP may be in.
ImagesKnown == rec \in Images /\ backup \in Images \cup {"none"}

BackupInv == ImagesKnown /\ BackupIsTwrp

\* A step of the unit, or of the installer up to the backup, keeps the promise:
\* what backs up the recovery partition looks at what it kept.
LEMMA BackupInvStep == BackupInv /\ [Next]_vars => BackupInv'
<1> SUFFICES ASSUME BackupInv, [Next]_vars PROVE BackupInv'
    OBVIOUS
<1> USE DEF BackupInv, ImagesKnown, BackupIsTwrp, Images, unit, pc, hist
<1>1. CASE \E someoneElse \in BOOLEAN : Begin(someoneElse)
  BY <1>1 DEF Begin
<1>2. CASE Backup
  BY <1>2 DEF Backup, IsTecho5
<1>3. CASE BackupRefused
  BY <1>3 DEF BackupRefused, IsTecho5
<1>4. CASE Identity
  BY <1>4 DEF Identity
<1>5. CASE Flash \/ FlashChecks
  BY <1>5 DEF Flash, FlashChecks, Goto
<1>6. CASE ScriptClears \/ ScriptSetsAside \/ ScriptUnpacks
  BY <1>6 DEF ScriptClears, ScriptSetsAside, ScriptUnpacks, Goto
<1>7. CASE ScriptMovesFirmware \/ ScriptDropsOld \/ ScriptMarks
  BY <1>7 DEF ScriptMovesFirmware, ScriptDropsOld, ScriptMarks, Goto
<1>8. CASE PushName \/ PushKey
  BY <1>8 DEF PushName, PushKey, Goto
<1>9. CASE Arm \/ Reboot
  BY <1>9 DEF Arm, Reboot
<1>10. CASE WaitSees \/ WaitTimesOut \/ Fail
  BY <1>10 DEF WaitSees, WaitTimesOut, Fail
<1>11. CASE UserFindsTwrp
  BY <1>11 DEF UserFindsTwrp
<1>12. CASE BootToAdb \/ BootLinux \/ Healthy \/ Restart
  BY <1>12 DEF BootToAdb, BootLinux, Healthy, Restart
<1>13. CASE BackToAdb \/ \E k \in Keys : OwnerSetsUp(k)
  BY <1>13 DEF BackToAdb, OwnerSetsUp
<1>14. CASE PowerCut
  BY <1>14 DEF PowerCut
<1>15. CASE UNCHANGED vars
  BY <1>15 DEF vars
<1>16. QED
  BY <1>1, <1>2, <1>3, <1>4, <1>5, <1>6, <1>7, <1>8, <1>9, <1>10, <1>11,
     <1>12, <1>13, <1>14, <1>15 DEF Next, InstallerStep, UnitStep

\* The PC holds the unit's own TWRP before the installer writes anything,
\* however many runs, on whatever PC, were cut short before (install-dot.py,
\* step 2).
THEOREM BackupSafe == Spec => []BackupIsTwrp
<1>1. Init => BackupInv
  BY DEF Init, BackupInv, ImagesKnown, BackupIsTwrp, Images
<1>2. BackupInv => BackupIsTwrp
  BY DEF BackupInv
<1>3. QED
  BY <1>1, <1>2, BackupInvStep, PTL DEF Spec

-----------------------------------------------------------------------------
(* What the tool says at its end.                                          *)

\* While the installer writes, the unit stays in adb.
EnvInv == step \notin {"idle", "wait"} => env = "adb"

\* The last steps of a run.
Late == {"name", "psk", "arm", "reboot", "wait"}

\* From the script's tar to the end of a run slot a is this run's, and from its
\* sync on whatever happens; a healthy record read on the console was written since.
HealthInv ==
  /\ misc.healthy => misc.tries = 0
  /\ step \in {"firmware", "drop", "mark"} => disk.a = "new"
  /\ step \in Late => disk.a = "new" /\ \A d \in survivors : d.a = "new"
  /\ step = "wait" /\ misc.healthy /\ env \in {"slot", "rescue"} => cameUp
  /\ said = "done" => cameUp

\* A disk holds the identity shown.
Holds(d) == d.name /\ d.psk = shown /\ shown # "none"

\* The identity shown is there already, or about to be written.
Chosen == (write = "none" /\ Holds(disk)) \/ (write = shown /\ shown # "none")

\* A run that is not a gift: its identity is chosen, then its name is there,
\* then its key, then both on any disk a power cut leaves.
IdentityInv ==
  /\ ~gift /\ step \in Script \cup {"flash", "check", "name"} => Chosen
  /\ ~gift /\ step = "psk" => Chosen /\ disk.name
  /\ ~gift /\ step = "arm" => Holds(disk)
  /\ ~gift /\ (step \in {"reboot", "wait"} \/ said \in {"done", "up"})
       => Holds(disk) /\ \A d \in survivors : Holds(d)
  /\ said \in {"done", "up"} => step = "idle"

AnswerInv == TypeOK /\ EnvInv /\ HealthInv /\ IdentityInv

\* An installer's step leaves the unit in adb until it reboots it.
LEMMA EnvStep == TypeOK /\ EnvInv /\ [Next]_vars => EnvInv'
<1> SUFFICES ASSUME TypeOK, EnvInv, [Next]_vars PROVE EnvInv'
    OBVIOUS
<1> USE DEF EnvInv, unit, pc, hist
<1>1. CASE \E someoneElse \in BOOLEAN : Begin(someoneElse)
  BY <1>1 DEF Begin
<1>2. CASE Backup \/ BackupRefused \/ Identity
  BY <1>2 DEF Backup, BackupRefused, Identity
<1>3. CASE Flash \/ FlashChecks
  BY <1>3 DEF Flash, FlashChecks, Goto
<1>4. CASE ScriptClears \/ ScriptSetsAside \/ ScriptUnpacks
  BY <1>4 DEF ScriptClears, ScriptSetsAside, ScriptUnpacks, Goto
<1>5. CASE ScriptMovesFirmware \/ ScriptDropsOld \/ ScriptMarks
  BY <1>5 DEF ScriptMovesFirmware, ScriptDropsOld, ScriptMarks, Goto
<1>6. CASE PushName \/ PushKey
  BY <1>6 DEF PushName, PushKey, Goto
<1>7. CASE Arm \/ Reboot \/ WaitSees \/ WaitTimesOut \/ Fail
  BY <1>7 DEF Arm, Reboot, WaitSees, WaitTimesOut, Fail
<1>8. CASE UserFindsTwrp \/ BootToAdb \/ BootLinux \/ Healthy \/ Restart
  BY <1>8 DEF UserFindsTwrp, BootToAdb, BootLinux, Healthy, Restart
<1>9. CASE BackToAdb \/ \E k \in Keys : OwnerSetsUp(k)
  BY <1>9 DEF BackToAdb, OwnerSetsUp
<1>10. CASE PowerCut
  BY <1>10 DEF PowerCut
<1>11. CASE UNCHANGED vars
  BY <1>11 DEF vars
<1>12. QED
  BY <1>1, <1>2, <1>3, <1>4, <1>5, <1>6, <1>7, <1>8, <1>9, <1>10, <1>11
     DEF Next, InstallerStep, UnitStep

\* What the installer writes to the unit, but for its name and key.
LEMMA HealthInstaller == TypeOK /\ EnvInv /\ HealthInv /\ InstallerStep => HealthInv'
<1> SUFFICES ASSUME TypeOK, EnvInv, HealthInv, InstallerStep PROVE HealthInv'
    OBVIOUS
<1> USE DEF HealthInv, Late, unit, pc, hist
<1>0. disk \in Disks
  BY DEF TypeOK
<1>1. CASE \E someoneElse \in BOOLEAN : Begin(someoneElse)
  BY <1>1 DEF Begin
<1>2. CASE Backup \/ BackupRefused \/ Identity
  BY <1>2 DEF Backup, BackupRefused, Identity
<1>3. CASE Flash \/ FlashChecks
  BY <1>3 DEF Flash, FlashChecks, Goto
<1>4. CASE ScriptClears \/ ScriptSetsAside
  BY <1>4 DEF ScriptClears, ScriptSetsAside, Goto
<1>5. CASE ScriptUnpacks
  <2>1. disk'.a = "new"
    BY <1>0, <1>5 DEF ScriptUnpacks, Put, Disks
  <2>2. QED
    BY <1>5, <2>1 DEF ScriptUnpacks, Goto
<1>6. CASE ScriptMovesFirmware \/ ScriptDropsOld
  <2>1. disk'.a = disk.a
    BY <1>0, <1>6 DEF ScriptMovesFirmware, ScriptDropsOld, Disks
  <2>2. QED
    BY <1>6, <2>1 DEF ScriptMovesFirmware, ScriptDropsOld, Goto
<1>7. CASE ScriptMarks
  <2>1. disk'.a = "new"
    BY <1>0, <1>7 DEF ScriptMarks, Disks
  <2>2. QED
    BY <1>7, <2>1 DEF ScriptMarks, Goto
<1>8. CASE PushName
  <2>1. /\ [disk EXCEPT !.name = FALSE, !.psk = "none"].a = disk.a
        /\ [disk EXCEPT !.name = TRUE].a = disk.a
    BY <1>0 DEF Disks
  <2>2. disk'.a = "new" /\ \A d \in survivors' : d.a = "new"
    BY <1>8, <2>1 DEF PushName, Put
  <2>3. QED
    BY <1>8, <2>2 DEF PushName, Goto
<1>9. CASE PushKey
  <2>1. [disk EXCEPT !.psk = write].a = disk.a
    BY <1>0 DEF Disks
  <2>2. disk'.a = "new" /\ \A d \in survivors' : d.a = "new"
    BY <1>9, <2>1 DEF PushKey, Put
  <2>3. QED
    BY <1>9, <2>2 DEF PushKey, Goto
<1>10. CASE Arm
  <2>1. misc'.healthy => misc'.tries = 0
    BY <1>10 DEF Arm
  <2>2. disk' = disk /\ survivors' = {disk} /\ disk.a = "new"
    BY <1>10 DEF Arm, Sync
  <2>3. QED
    BY <1>10, <2>1, <2>2 DEF Arm
<1>11. CASE Reboot
  BY <1>11 DEF Reboot
<1>12. CASE WaitSees \/ WaitTimesOut
  BY <1>12 DEF WaitSees, WaitTimesOut, SaysHealthy
<1>13. CASE Fail
  BY <1>13 DEF Fail
<1>14. QED
  BY <1>1, <1>2, <1>3, <1>4, <1>5, <1>6, <1>7, <1>8, <1>9, <1>10, <1>11, <1>12,
     <1>13 DEF InstallerStep

\* What the unit writes: no boot reads a healthy record but its own.
LEMMA HealthUnit == TypeOK /\ EnvInv /\ HealthInv /\ UnitStep => HealthInv'
<1> SUFFICES ASSUME TypeOK, EnvInv, HealthInv, UnitStep PROVE HealthInv'
    OBVIOUS
<1> USE DEF HealthInv, Late, unit, pc, hist
<1>1. CASE UserFindsTwrp \/ BootToAdb \/ Restart
  BY <1>1 DEF UserFindsTwrp, BootToAdb, Restart
<1>2. CASE BootLinux
  <2>1. Spent => ~misc.healthy
    BY DEF Spent, TypeOK
  <2>2. ~misc'.healthy
    BY <1>2, <2>1 DEF BootLinux
  <2>3. QED
    BY <1>2, <2>2 DEF BootLinux
<1>3. CASE Healthy
  <2>1. misc'.tries = 0
    BY <1>3 DEF Healthy
  <2>2. step \in Late => cameUp'
    BY <1>3 DEF Healthy
  <2>3. cameUp => cameUp'
    BY <1>3 DEF Healthy
  <2>4. QED
    BY <1>3, <2>1, <2>2, <2>3 DEF Healthy
<1>4. CASE BackToAdb
  BY <1>4 DEF BackToAdb, Sync
<1>5. CASE \E k \in Keys : OwnerSetsUp(k)
  <2> PICK k \in Keys : OwnerSetsUp(k)
      BY <1>5
  <2>1. disk'.a = disk.a
    BY DEF OwnerSetsUp, TypeOK, Disks
  <2>2. step \in {"idle", "wait"}
    BY DEF OwnerSetsUp, EnvInv
  <2>3. QED
    BY <2>1, <2>2 DEF OwnerSetsUp
<1>6. CASE PowerCut
  <2>1. PICK d \in survivors : disk' = d /\ survivors' = {d}
    BY <1>6 DEF PowerCut
  <2>2. step' \in {"idle", "wait"} /\ (step' = "wait" => step = "wait")
    BY <1>6 DEF PowerCut
  <2>3. QED
    BY <1>6, <2>1, <2>2 DEF PowerCut
<1>7. QED
  BY <1>1, <1>2, <1>3, <1>4, <1>5, <1>6 DEF UnitStep

\* A write elsewhere leaves the identity as it is.
LEMMA OtherWrites ==
  ASSUME disk \in Disks
  PROVE  /\ Holds([disk EXCEPT !.aOld = "none"]) <=> Holds(disk)
         /\ Holds([disk EXCEPT !.aOld = OldRoot, !.a = "part"]) <=> Holds(disk)
         /\ Holds([disk EXCEPT !.a = "new"]) <=> Holds(disk)
         /\ Holds([disk EXCEPT !.fw = "whole"]) <=> Holds(disk)
         /\ Holds([disk EXCEPT !.good = TRUE]) <=> Holds(disk)
  BY DEF Holds, Disks

\* The steps of the slot script keep the identity that is chosen.
LEMMA IdentityScript ==
  ASSUME TypeOK, IdentityInv,
         \/ ScriptClears \/ ScriptSetsAside \/ ScriptUnpacks
         \/ ScriptMovesFirmware \/ ScriptDropsOld \/ ScriptMarks
  PROVE  IdentityInv'
<1> USE DEF IdentityInv, pc, hist, Goto
<1>1. /\ step \in Script /\ step' \in Script \cup {"name"}
      /\ UNCHANGED <<gift, write, shown, said>>
  BY DEF ScriptClears, ScriptSetsAside, ScriptUnpacks, ScriptMovesFirmware,
         ScriptDropsOld, ScriptMarks, Script
<1>2. Holds(disk') <=> Holds(disk)
  BY OtherWrites DEF TypeOK, ScriptClears, ScriptSetsAside, ScriptUnpacks,
     ScriptMovesFirmware, ScriptDropsOld, ScriptMarks, Put
<1>3. Holds(disk)' <=> Holds(disk')
  BY <1>1 DEF Holds
<1>4. ~gift => Chosen'
  BY <1>1, <1>2, <1>3 DEF Chosen
<1>5. QED
  BY <1>1, <1>4 DEF Script

\* So do the installer's other steps, which write it.
LEMMA IdentityInstaller == TypeOK /\ IdentityInv /\ InstallerStep => IdentityInv'
<1> SUFFICES ASSUME TypeOK, IdentityInv, InstallerStep PROVE IdentityInv'
    OBVIOUS
<1> USE DEF IdentityInv, Script, unit, pc, hist
<1>0. disk \in Disks
  BY DEF TypeOK
<1>1. CASE \E someoneElse \in BOOLEAN : Begin(someoneElse)
  BY <1>1 DEF Begin
<1>2. CASE Backup \/ BackupRefused
  BY <1>2 DEF Backup, BackupRefused
<1>3. CASE Identity
  <2>1. step' = "flash" /\ UNCHANGED <<disk, gift, said>>
    BY <1>3 DEF Identity
  <2>2. ASSUME ~gift PROVE Chosen'
    <3>1. CASE HasIdentity
      BY <1>3, <2>1, <2>2, <3>1 DEF Identity, HasIdentity, Chosen, Holds
    <3>2. CASE ~HasIdentity
      <4>1. PICK k \in IF keyFile = "none" THEN Keys ELSE {keyFile} :
                   write' = k /\ shown' = k
        BY <1>3, <2>2, <3>2 DEF Identity
      <4>2. k # "none"
        BY <4>1, KeysAssumption
      <4>3. QED
        BY <4>1, <4>2 DEF Chosen
    <3>3. QED
      BY <3>1, <3>2
  <2>3. QED
    BY <1>3, <2>1, <2>2 DEF Identity
<1>4. CASE Flash \/ FlashChecks
  BY <1>4 DEF Flash, FlashChecks, Goto, Chosen, Holds
<1>5. CASE \/ ScriptClears \/ ScriptSetsAside \/ ScriptUnpacks
           \/ ScriptMovesFirmware \/ ScriptDropsOld \/ ScriptMarks
  BY <1>5, IdentityScript
<1>6. CASE PushName
  <2>1. step' = "psk" /\ UNCHANGED <<gift, write, shown, said>>
    BY <1>6 DEF PushName, Goto
  <2>2. [disk EXCEPT !.name = TRUE].name
    BY <1>0 DEF Disks
  <2>3. ASSUME ~gift PROVE Chosen' /\ disk'.name
    <3>1. CASE write = "none"
      BY <1>6, <2>1, <2>3, <3>1 DEF PushName, Chosen, Holds
    <3>2. CASE write # "none"
      BY <1>6, <2>1, <2>2, <2>3, <3>2 DEF PushName, Put, Chosen
    <3>3. QED
      BY <3>1, <3>2
  <2>4. QED
    BY <1>6, <2>1, <2>3 DEF PushName
<1>7. CASE PushKey
  <2>1. step' = "arm" /\ UNCHANGED <<gift, write, shown, said>>
    BY <1>7 DEF PushKey, Goto
  <2>2. /\ [disk EXCEPT !.psk = write].name = disk.name
        /\ [disk EXCEPT !.psk = write].psk = write
    BY <1>0 DEF Disks
  <2>3. ASSUME ~gift PROVE Holds(disk)'
    <3>1. CASE write = "none"
      BY <1>7, <2>1, <2>3, <3>1 DEF PushKey, Chosen, Holds
    <3>2. CASE write # "none"
      BY <1>7, <2>1, <2>2, <2>3, <3>2 DEF PushKey, Put, Chosen, Holds
    <3>3. QED
      BY <3>1, <3>2
  <2>4. QED
    BY <1>7, <2>1, <2>3 DEF PushKey
<1>8. CASE Arm
  BY <1>8 DEF Arm, Sync, Holds
<1>9. CASE Reboot
  BY <1>9 DEF Reboot, Holds
<1>10. CASE WaitSees \/ WaitTimesOut
  BY <1>10 DEF WaitSees, WaitTimesOut, Holds
<1>11. CASE Fail
  BY <1>11 DEF Fail
<1>12. QED
  BY <1>1, <1>2, <1>3, <1>4, <1>5, <1>6, <1>7, <1>8, <1>9, <1>10, <1>11
     DEF InstallerStep

\* The unit loses no identity to a power cut once it is synced, and its owner
\* sets up only a unit that has none.
LEMMA IdentityUnit == TypeOK /\ EnvInv /\ IdentityInv /\ UnitStep => IdentityInv'
<1> SUFFICES ASSUME TypeOK, EnvInv, IdentityInv, UnitStep PROVE IdentityInv'
    OBVIOUS
<1> USE DEF IdentityInv, Script, unit, pc, hist
<1>1. CASE UserFindsTwrp \/ BootToAdb \/ BootLinux \/ Healthy \/ Restart
  BY <1>1 DEF UserFindsTwrp, BootToAdb, BootLinux, Healthy, Restart, Chosen, Holds
<1>2. CASE BackToAdb
  BY <1>2 DEF BackToAdb, Sync, Chosen, Holds
<1>3. CASE \E k \in Keys : OwnerSetsUp(k)
  <2> PICK k \in Keys : OwnerSetsUp(k)
      BY <1>3
  <2>1. step \in {"idle", "wait"} /\ ~Holds(disk)
    BY DEF OwnerSetsUp, EnvInv, Holds
  <2>2. QED
    BY <2>1 DEF OwnerSetsUp
<1>4. CASE PowerCut
  <2>1. PICK d \in survivors : disk' = d /\ survivors' = {d}
    BY <1>4 DEF PowerCut
  <2>2. /\ step' \in {"idle", "wait"} /\ (step' = "wait" => step = "wait")
        /\ (said' \in {"done", "up"} => said' = said /\ step' \in {step, "idle"})
        /\ UNCHANGED <<gift, shown>>
    BY <1>4 DEF PowerCut
  <2>3. QED
    BY <2>1, <2>2 DEF Holds
<1>5. QED
  BY <1>1, <1>2, <1>3, <1>4 DEF UnitStep

\* The four together are inductive.
LEMMA AnswerInvariant == Spec => []AnswerInv
<1>1. Init => EnvInv /\ HealthInv /\ IdentityInv
  <2> SUFFICES ASSUME Init PROVE EnvInv /\ HealthInv /\ IdentityInv
      OBVIOUS
  <2>1. step = "idle" /\ said = "none"
    BY DEF Init
  <2>2. ~misc.healthy
    <3>1. misc \in [tries : {0, TRIES_MAX}, healthy : {FALSE}]
      BY DEF Init
    <3>2. QED
      BY <3>1
  <2>3. QED
    BY <2>1, <2>2 DEF EnvInv, HealthInv, IdentityInv, Late, Script
<1>2. TypeOK /\ EnvInv /\ HealthInv /\ IdentityInv /\ [Next]_vars
        => EnvInv' /\ HealthInv' /\ IdentityInv'
  <2> SUFFICES ASSUME TypeOK, EnvInv, HealthInv, IdentityInv, [Next]_vars
               PROVE  EnvInv' /\ HealthInv' /\ IdentityInv'
      OBVIOUS
  <2>1. CASE Next
    BY <2>1, EnvStep, HealthInstaller, HealthUnit, IdentityInstaller, IdentityUnit
       DEF Next
  <2>2. CASE UNCHANGED vars
    BY <2>2 DEF vars, unit, pc, hist, EnvInv, HealthInv, IdentityInv, Chosen, Holds
  <2>3. QED
    BY <2>1, <2>2
<1>3. QED
  BY <1>1, <1>2, InstallerTypes, PTL DEF Spec, AnswerInv

\* "Done: ... healthy" is true: the root this run installed came up healthy,
\* whatever count or healthy mark earlier boots left (install-dot.py:624-676).
THEOREM DoneIsTrue == Spec => []DoneIsHealthy
<1>1. AnswerInv => DoneIsHealthy
  BY DEF AnswerInv, HealthInv, DoneIsHealthy
<1>2. QED
  BY <1>1, AnswerInvariant, PTL

\* The key shown is the unit's, and stays on it through any power cut, whatever
\* runs were cut short between the name and the key (install-dot.py:435-479, 573-577).
THEOREM KeyIsTrue == Spec => []KeyIsTheUnits
<1>1. AnswerInv => KeyIsTheUnits
  BY DEF AnswerInv, IdentityInv, KeyIsTheUnits, Holds
<1>2. QED
  BY <1>1, AnswerInvariant, PTL

-----------------------------------------------------------------------------
(* The earlier root.                                                       *)

Whole == {"old", "new"}

\* A run up to the moment it sets slot a aside, and while it has no root there.
Before == {"backup", "identity", "flash", "check", "script", "setaside"}
Within == {"tar", "firmware", "drop", "mark"}

\* As long as no run has failed: outside the slot script a root on the disk is
\* on every survivor; a run begins with no root of its own; and in the script
\* what was set aside is there where the new one is not.
RootInv ==
  failures = 0 =>
    /\ step \notin Within =>
         /\ had => disk.a \in Whole
         /\ disk.a \in Whole => \A d \in survivors : d.a \in Whole
    /\ step \in Before => disk.a # "new" /\ \A d \in survivors : d.a # "new"
    /\ step = "tar" /\ had => disk.aOld = "old"
    /\ step \in {"tar", "firmware", "drop"} /\ had => \A d \in survivors : WholeRoot(d)

\* The installer's steps keep it: it drops the old root once the new one is in.
LEMMA RootInstaller == AnswerInv /\ RootInv /\ InstallerStep => RootInv'
<1> SUFFICES ASSUME AnswerInv, RootInv, InstallerStep PROVE RootInv'
    OBVIOUS
<1> USE DEF RootInv, Whole, Before, Within, unit, pc, hist
<1>0. disk \in Disks /\ survivors \subseteq Disks /\ failures \in Nat
  BY DEF AnswerInv, TypeOK
<1>1. CASE \E someoneElse \in BOOLEAN : Begin(someoneElse)
  <2> DEFINE Earlier(d) == [d EXCEPT !.a = IF @ = "new" THEN "old" ELSE @]
  <2>1. \A d \in Disks : Earlier(d).a = IF d.a = "new" THEN "old" ELSE d.a
    BY DEF Disks
  <2>2. /\ disk' = Earlier(disk) /\ survivors' = {Earlier(d) : d \in survivors}
        /\ had' = (had \/ disk.a \in {"old", "new"})
        /\ step = "idle" /\ step' = "backup" /\ failures' = failures
    BY <1>1 DEF Begin
  <2> HIDE DEF Earlier
  <2>3. QED
    BY <1>0, <2>1, <2>2
<1>2. CASE Backup \/ BackupRefused \/ Identity
  BY <1>2 DEF Backup, BackupRefused, Identity
<1>3. CASE Flash \/ FlashChecks
  BY <1>3 DEF Flash, FlashChecks, Goto, Sync
<1>4. CASE ScriptClears
  <2>1. [disk EXCEPT !.aOld = "none"].a = disk.a
    BY <1>0 DEF Disks
  <2>2. QED
    BY <1>4, <2>1 DEF ScriptClears, Put, Goto
<1>5. CASE ScriptSetsAside
  <2>1. [disk EXCEPT !.aOld = OldRoot, !.a = "part"].aOld = disk.a
    BY <1>0 DEF Disks, OldRoot
  <2>2. /\ step = "setaside" /\ step' = "tar" /\ UNCHANGED <<failures, had>>
        /\ disk'.aOld = disk.a /\ survivors' = survivors \cup {disk'}
    BY <1>5, <2>1 DEF ScriptSetsAside, Put, Goto
  <2>3. ASSUME failures = 0, had
        PROVE  disk'.aOld = "old" /\ \A d \in survivors' : WholeRoot(d)
    BY <2>2, <2>3 DEF WholeRoot
  <2>4. CASE failures = 0 /\ had
    BY <2>2, <2>3, <2>4 DEF WholeRoot
  <2>5. CASE ~(failures = 0 /\ had)
    <3>1. ~(failures' = 0 /\ had')
      BY <2>2, <2>5
    <3>2. QED
      BY <2>2, <3>1
  <2>6. QED
    BY <2>4, <2>5
<1>6. CASE ScriptUnpacks
  <2>1. [disk EXCEPT !.a = "new"].a = "new"
    BY <1>0 DEF Disks
  <2>2. QED
    BY <1>6, <2>1 DEF ScriptUnpacks, Put, Goto, WholeRoot
<1>7. CASE ScriptMovesFirmware
  <2>1. [disk EXCEPT !.fw = "whole"].a = disk.a /\ [disk EXCEPT !.fw = "part"].a = disk.a
    BY <1>0 DEF Disks
  <2>2. disk.a = "new"
    BY <1>7 DEF AnswerInv, HealthInv, ScriptMovesFirmware
  <2>3. \A d \in survivors' : d \in survivors \/ d.a = "new"
    BY <1>7, <2>1, <2>2 DEF ScriptMovesFirmware
  <2>4. QED
    BY <1>7, <2>3 DEF ScriptMovesFirmware, Goto, WholeRoot
<1>8. CASE ScriptDropsOld
  BY <1>8 DEF ScriptDropsOld, Goto
<1>9. CASE ScriptMarks \/ PushName \/ PushKey
  <2>1. /\ step' \in {"name", "psk", "arm"}
        /\ disk'.a = "new" /\ \A d \in survivors' : d.a = "new"
    <3>1. step' \in Late
      BY <1>9 DEF ScriptMarks, PushName, PushKey, Goto, Late
    <3>2. HealthInv'
      BY HealthInstaller DEF AnswerInv
    <3>3. QED
      BY <1>9, <3>1, <3>2 DEF HealthInv, ScriptMarks, PushName, PushKey, Goto
  <2>2. QED
    BY <2>1
<1>10. CASE Arm \/ Reboot
  <2>1. disk.a = "new" /\ \A d \in survivors : d.a = "new"
    BY <1>10 DEF AnswerInv, HealthInv, Late, Arm, Reboot
  <2>2. QED
    BY <1>10, <2>1 DEF Arm, Reboot, Sync
<1>11. CASE WaitSees \/ WaitTimesOut
  BY <1>11 DEF WaitSees, WaitTimesOut
<1>12. CASE Fail
  BY <1>0, <1>12 DEF Fail
<1>13. QED
  BY <1>1, <1>2, <1>3, <1>4, <1>5, <1>6, <1>7, <1>8, <1>9, <1>10, <1>11, <1>12 DEF InstallerStep

\* So does the unit: a power cut in a run is a run that failed.
LEMMA RootUnit == AnswerInv /\ RootInv /\ UnitStep => RootInv'
<1> SUFFICES ASSUME AnswerInv, RootInv, UnitStep PROVE RootInv'
    OBVIOUS
<1> USE DEF RootInv, Whole, Before, Within, unit, pc, hist
<1>0. disk \in Disks /\ failures \in Nat
  BY DEF AnswerInv, TypeOK
<1>1. CASE UserFindsTwrp \/ BootToAdb \/ BootLinux \/ Healthy \/ Restart
  BY <1>1 DEF UserFindsTwrp, BootToAdb, BootLinux, Healthy, Restart
<1>2. CASE BackToAdb
  BY <1>2 DEF BackToAdb, Sync
<1>3. CASE \E k \in Keys : OwnerSetsUp(k)
  <2> PICK k \in Keys : OwnerSetsUp(k)
      BY <1>3
  <2>1. disk'.a = disk.a
    BY <1>0 DEF OwnerSetsUp, Disks
  <2>2. step \in {"idle", "wait"}
    BY DEF OwnerSetsUp, AnswerInv, EnvInv
  <2>3. QED
    BY <2>1, <2>2 DEF OwnerSetsUp
<1>4. CASE PowerCut
  <2>1. PICK d \in survivors : disk' = d /\ survivors' = {d}
    BY <1>4 DEF PowerCut
  <2>2. CASE step \in {"idle", "wait"}
    BY <1>4, <2>1, <2>2 DEF PowerCut
  <2>3. CASE step \notin {"idle", "wait"}
    BY <1>0, <1>4, <2>3 DEF PowerCut
  <2>4. QED
    BY <2>2, <2>3
<1>5. QED
  BY <1>1, <1>2, <1>3, <1>4 DEF UnitStep

\* A unit that had a root keeps one on every disk a power cut may leave, until a
\* run has failed, but for the moment before the script's sync (SLOT_SCRIPT).
THEOREM EarlierRootSafe == Spec => []EarlierRootKept
<1>1. Init => RootInv
  <2> SUFFICES ASSUME Init PROVE RootInv
      OBVIOUS
  <2>1. survivors = {disk} /\ had = (disk.a = "old") /\ step = "idle"
    BY DEF Init
  <2>2. QED
    BY <2>1 DEF RootInv, Whole, Before, Within
<1>2. AnswerInv /\ RootInv /\ [Next]_vars => RootInv'
  BY RootInstaller, RootUnit
     DEF Next, vars, unit, pc, hist, RootInv, Whole, Before, Within, WholeRoot
<1>3. AnswerInv /\ RootInv => EarlierRootKept
  BY DEF RootInv, Whole, Before, Within, EarlierRootKept, WholeRoot
<1>4. QED
  BY <1>1, <1>2, <1>3, AnswerInvariant, PTL DEF Spec

-----------------------------------------------------------------------------
(* The count that the wait reads.                                          *)

\* From the moment the count was cleared it is no more than the boots since.
CountInv ==
  step \in {"reboot", "wait"} => misc.tries <= boots

\* Every step keeps that.
LEMMA CountStep == TypeOK /\ CountInv /\ [Next]_vars => CountInv'
<1> SUFFICES ASSUME TypeOK, CountInv, [Next]_vars PROVE CountInv'
    OBVIOUS
<1> USE DEF CountInv, unit, pc, hist
<1>0. misc.tries \in 0 .. TRIES_MAX /\ boots \in 0 .. TRIES_MAX
  BY DEF TypeOK
<1>1. CASE InstallerStep
  <2>1. CASE Arm
    BY <2>1 DEF Arm, CountCleared
  <2>2. CASE Reboot
    BY <2>2 DEF Reboot
  <2>3. CASE ~Arm /\ ~Reboot
    <3>1. step' \notin {"reboot", "wait"}
      BY <1>1, <2>3 DEF InstallerStep, Begin, Backup, BackupRefused, Identity, Flash, FlashChecks,
         ScriptClears, ScriptSetsAside, ScriptUnpacks, ScriptMovesFirmware, ScriptDropsOld,
         ScriptMarks, PushName, PushKey, WaitSees, WaitTimesOut, Fail, Goto
    <3>2. QED
      BY <3>1
  <2>4. QED
    BY <2>1, <2>2, <2>3
<1>2. CASE UserFindsTwrp \/ BootToAdb \/ Restart \/ BackToAdb \/ \E k \in Keys : OwnerSetsUp(k)
  BY <1>2 DEF UserFindsTwrp, BootToAdb, Restart, BackToAdb, OwnerSetsUp
<1>3. CASE BootLinux
  <2>1. CASE Spent
    BY <1>3, <2>1 DEF BootLinux
  <2>2. CASE ~Spent
    <3>1. misc'.tries = misc.tries + 1 /\ misc.tries < TRIES_MAX
      BY <1>0, <1>3, <2>2 DEF BootLinux, Spent
    <3>2. QED
      BY <1>0, <1>3, <2>2, <3>1 DEF BootLinux
  <2>3. QED
    BY <2>1, <2>2
<1>4. CASE Healthy
  BY <1>0, <1>4 DEF Healthy
<1>5. CASE PowerCut
  BY <1>5 DEF PowerCut
<1>6. CASE UNCHANGED vars
  BY <1>6 DEF vars
<1>7. QED
  BY <1>1, <1>2, <1>3, <1>4, <1>5, <1>6 DEF Next, UnitStep

\* The wait is given up for rescue only after TRIES_MAX boots of this run's
\* install: the count read is never one that an earlier run left
\* (install-dot.py:624-676, which asks for five or more).
THEOREM RescueSpent ==
  ASSUME TRIES_MAX <= 5
  PROVE  Spec => RescueIsSpent
<1>1. Init => CountInv
  BY DEF Init, CountInv
<1>2. TypeOK /\ CountInv /\ [Next]_vars =>
        [said' = "rescue" /\ said # "rescue" => boots = TRIES_MAX]_vars
  <2> SUFFICES ASSUME TypeOK, CountInv, Next, said' = "rescue", said # "rescue"
               PROVE  boots = TRIES_MAX
      OBVIOUS
  <2>1. WaitSees /\ InRescue
    BY DEF Next, InstallerStep, Begin, Backup, BackupRefused, Identity, Flash, FlashChecks,
       ScriptClears, ScriptSetsAside, ScriptUnpacks, ScriptMovesFirmware, ScriptDropsOld,
       ScriptMarks, PushName, PushKey, Arm, Reboot, WaitSees, WaitTimesOut, Fail, Goto,
       UnitStep, UserFindsTwrp, BootToAdb, BootLinux, Healthy, Restart, BackToAdb, OwnerSetsUp,
       PowerCut, pc
  <2>2. misc.tries <= boots /\ misc.tries >= 5
    BY <2>1 DEF WaitSees, InRescue, CountInv
  <2>3. boots \in 0 .. TRIES_MAX /\ misc.tries \in 0 .. TRIES_MAX
    BY DEF TypeOK
  <2>4. QED
    BY <2>2, <2>3
<1>3. QED
  BY <1>1, <1>2, CountStep, InstallerTypes, PTL DEF Spec, RescueIsSpent
=============================================================================
