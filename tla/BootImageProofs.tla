-------------------------- MODULE BootImageProofs --------------------------
(***************************************************************************)
(* Theorems about BootImage, for every set of builds and whatever dd and   *)
(* the power supply do.  What the tools promise holds of a user who lets   *)
(* update-boot.py finish (~Impatient), and is stated so.                   *)
(***************************************************************************)
EXTENDS BootImage, TLAPS

USE BuildsAssumption, FlagsAssumption

-----------------------------------------------------------------------------
(* The invariant.                                                          *)

\* Which tools run at once, and what the unit runs meanwhile.
ToolsInv ==
  /\ update \notin {"idle", "wait", "keep"} => swap = "idle" /\ installer = "idle"
  /\ update # "idle" /\ ~Impatient => swap = "idle" /\ installer = "idle"
  /\ swap = "idle" \/ installer = "idle"
  /\ update \in {"send", "flash", "dd", "write", "check", "restore"} => OnLinux
  /\ swap # "idle" => env \in Bootable
  /\ installer # "idle" => env = "twrp"

\* The files that each step takes from the store are there, and what was read
\* back is in the partition.
FilesInv ==
  /\ update \in {"flash", "dd", "write", "check"} => disk.next = want
  /\ update \in {"dd", "write", "check", "restore"} => disk.prev # "none"
  /\ update = "reboot" => rec = want
  /\ swap \in {"write", "check"} => SwapImage # "none"
  /\ swap = "restore" => disk.linux # "none"
  /\ installer \in {"flash", "write", "check", "twrp", "arm"} => disk.linux \in installed
  /\ installer \in {"twrp", "arm"} => rec = disk.linux

\* From the flash on, the partition and every store a power cut may leave have
\* the new image; another boot than the one that flashed it is a boot of it.
WaitInv ==
  /\ update \in {"check", "reboot", "wait", "keep"} => disk.next = want /\ survivors = {disk}
  /\ update \in {"reboot", "wait", "keep"} => rec = want
  /\ update # "idle" /\ OnLinux /\ ~sameBoot =>
       /\ update \in {"reboot", "wait", "keep"}
       /\ env = want
       /\ mark => want \in proven
  /\ update = "keep" => want \in proven

\* What a store that may survive has for linux.img and for twrp.img.
LinuxGood(st) ==
  st.linux \in proven \cup installed \/ (st.linux = "none" /\ installed = {})

TwrpGood(st) == st.twrp \in {"twrp", "none"}

KeptInv ==
  /\ installer = "idle" /\ ~cut => \A st \in survivors : LinuxGood(st)
  /\ installer \notin {"twrp", "arm"} /\ ~cut => \A st \in survivors : TwrpGood(st)
  /\ installer = "check" => survivors = {disk}
  /\ installer = "arm" => disk.twrp = "twrp"

BaseInv == TypeOK /\ disk \in survivors /\ ToolsInv /\ FilesInv

Inv == BaseInv /\ (~Impatient => WaitInv /\ KeptInv)

-----------------------------------------------------------------------------
(* Files.                                                                  *)

\* A file put in the store is there, whole or short, and the others stay.
LEMMA PutKeeps ==
  ASSUME NEW st \in Stores, NEW image \in Files
  PROVE  /\ [st EXCEPT !["linux"] = image] \in Stores
         /\ [st EXCEPT !["prev"] = image] \in Stores
         /\ [st EXCEPT !["next"] = image] \in Stores
         /\ [st EXCEPT !["twrp"] = image] \in Stores
  BY DEF Stores

LEMMA Builds0 == "none" \notin Builds /\ "twrp" \notin Builds /\ "short" \notin Builds
                 /\ "torn" \notin Builds /\ "off" \notin Builds /\ "dead" \notin Builds
  OBVIOUS

\* What putting linux.img does to the stores that may survive.
LEMMA PutLinux ==
  ASSUME TypeOK, disk \in survivors, NEW image \in Files, Put("linux", image)
  PROVE  /\ disk' \in Stores /\ disk' \in survivors' /\ survivors' \subseteq Stores
         /\ disk'.linux = image /\ disk'.prev = disk.prev /\ disk'.next = disk.next
         /\ disk'.twrp = disk.twrp /\ disk'.back = disk.back
         /\ \A st \in survivors' : st \in survivors \/ (st.twrp = disk.twrp)
<1>1. "short" \in Files
  BY DEF Files
<1>2. disk \in Stores /\ survivors \subseteq Stores
  BY DEF TypeOK
<1>3. QED
  BY <1>1, <1>2, PutKeeps DEF Put, Stores

\* The same of linux-prev.img, ...
LEMMA PutPrev ==
  ASSUME TypeOK, disk \in survivors, NEW image \in Files, Put("prev", image)
  PROVE  /\ disk' \in Stores /\ disk' \in survivors' /\ survivors' \subseteq Stores
         /\ disk'.prev = image /\ disk'.linux = disk.linux /\ disk'.next = disk.next
         /\ disk'.twrp = disk.twrp /\ disk'.back = disk.back
         /\ \A st \in survivors' : st \in survivors \/ (st.linux = disk.linux /\ st.twrp = disk.twrp)
<1>1. "short" \in Files
  BY DEF Files
<1>2. disk \in Stores /\ survivors \subseteq Stores
  BY DEF TypeOK
<1>3. QED
  BY <1>1, <1>2, PutKeeps DEF Put, Stores

\* ... of linux-next.img ...
LEMMA PutNext ==
  ASSUME TypeOK, disk \in survivors, NEW image \in Files, Put("next", image)
  PROVE  /\ disk' \in Stores /\ disk' \in survivors' /\ survivors' \subseteq Stores
         /\ disk'.next = image /\ disk'.linux = disk.linux /\ disk'.prev = disk.prev
         /\ disk'.twrp = disk.twrp /\ disk'.back = disk.back
         /\ \A st \in survivors' : st \in survivors \/ (st.linux = disk.linux /\ st.twrp = disk.twrp)
<1>1. "short" \in Files
  BY DEF Files
<1>2. disk \in Stores /\ survivors \subseteq Stores
  BY DEF TypeOK
<1>3. QED
  BY <1>1, <1>2, PutKeeps DEF Put, Stores

\* ... and of twrp.img.
LEMMA PutTwrp ==
  ASSUME TypeOK, disk \in survivors, NEW image \in Files, Put("twrp", image)
  PROVE  /\ disk' \in Stores /\ disk' \in survivors' /\ survivors' \subseteq Stores
         /\ disk'.twrp = image /\ disk'.linux = disk.linux /\ disk'.prev = disk.prev
         /\ disk'.next = disk.next /\ disk'.back = disk.back
         /\ \A st \in survivors' : st \in survivors \/ (st.linux = disk.linux)
<1>1. "short" \in Files
  BY DEF Files
<1>2. disk \in Stores /\ survivors \subseteq Stores
  BY DEF TypeOK
<1>3. QED
  BY <1>1, <1>2, PutKeeps DEF Put, Stores

\* linux-next.img moved over linux.img.
LEMMA MoveKeeps ==
  ASSUME TypeOK, MoveNext
  PROVE  /\ disk' \in Stores /\ survivors' = {disk'}
         /\ disk'.linux = disk.next /\ disk'.twrp = disk.twrp
<1>1. "none" \in Files /\ disk \in Stores
  BY DEF Files, TypeOK
<1>2. QED
  BY <1>1 DEF MoveNext, Stores

\* What dd puts in the partition is the image, or it is torn.
LEMMA DdWrites ==
  ASSUME NEW image \in Files, image # "none", DdEnds(image)
  PROVE  rec' \in Builds \cup {"twrp", "short", "torn"}
  BY DEF DdEnds, Files

-----------------------------------------------------------------------------
(* Types, tools and files.                                                 *)

\* The unit's own steps.
LEMMA UnitBase ==
  ASSUME BaseInv, UnitStep
  PROVE  BaseInv'
<1> USE DEF BaseInv, TypeOK, ToolsInv, FilesInv, Bootable, OnLinux
<1>1. CASE Boot
  BY <1>1 DEF Boot, SwapImage
<1>2. CASE BootDies
  BY <1>2 DEF BootDies, SwapImage
<1>3. CASE Healthy
  BY <1>3 DEF Healthy, SwapImage
<1>4. CASE PowerCut
  <2>1. disk' \in Stores /\ survivors' = {disk'}
    BY <1>4 DEF PowerCut
  <2>2. QED
    BY <1>4, <2>1 DEF PowerCut, Stopped, Updates, Swaps, Installs
<1>5. CASE FastbootTwrp
  BY <1>5 DEF FastbootTwrp, Free, SwapImage
<1>6. QED
  BY <1>1, <1>2, <1>3, <1>4, <1>5 DEF UnitStep

\* update-boot.py's.
LEMMA UpdateBase ==
  ASSUME BaseInv, UpdateStep
  PROVE  BaseInv'
<1> USE DEF BaseInv, ToolsInv, FilesInv, Bootable, OnLinux, SwapImage, Updates
<1>1. Builds \subseteq Files /\ "short" \in Files /\ disk \in Stores
  BY DEF Files, TypeOK
<1>2. ASSUME NEW b \in Builds, UpdateBegins(b)
      PROVE  BaseInv'
  BY <1>2 DEF UpdateBegins, Free, TypeOK
<1>3. CASE UpdateSends
  <2>1. want \in Files /\ want # "none"
    BY <1>1 DEF TypeOK
  <2>2. CASE Put("next", want) /\ update' = "flash"
    BY <1>3, <2>1, <2>2, PutNext DEF UpdateSends, TypeOK
  <2>3. CASE Put("next", "short") /\ update' = "idle"
    BY <1>1, <1>3, <2>3, PutNext DEF UpdateSends, TypeOK
  <2>4. QED
    BY <1>3, <2>2, <2>3 DEF UpdateSends
<1>4. CASE FlashKeepsPrev
  <2>1. CASE disk.linux = "none"
    BY <1>4, <2>1 DEF FlashKeepsPrev, TypeOK
  <2>2. CASE disk.linux # "none"
    <3>1. disk.linux \in Files
      BY <1>1 DEF Stores
    <3>2. QED
      BY <1>4, <2>2, <3>1, PutPrev DEF FlashKeepsPrev, TypeOK
  <2>3. QED
    BY <2>1, <2>2
<1>5. CASE FlashBegins
  BY <1>5 DEF FlashBegins, DdBegins, TypeOK
<1>6. CASE FlashWrites
  <2>1. disk.next \in Files /\ disk.next # "none"
    BY <1>1, <1>6 DEF FlashWrites, TypeOK
  <2>2. rec' \in Builds \cup {"twrp", "short", "torn"}
    BY <1>6, <2>1, DdWrites DEF FlashWrites
  <2>3. QED
    BY <1>6, <2>2 DEF FlashWrites, Sync, TypeOK
<1>7. CASE FlashChecks
  BY <1>7 DEF FlashChecks, ReadBack, DdBegins, TypeOK
<1>8. CASE FlashRestores
  <2>1. disk.prev \in Files /\ disk.prev # "none"
    BY <1>1, <1>8 DEF FlashRestores, Stores
  <2>2. rec' \in Builds \cup {"twrp", "short", "torn"}
    BY <1>8, <2>1, DdWrites DEF FlashRestores
  <2>3. QED
    BY <1>8, <2>2 DEF FlashRestores, Sync, TypeOK
<1>9. CASE UpdateReboots
  BY <1>9 DEF UpdateReboots, Sync, TypeOK, Swaps
<1>10. CASE UpdateWaits
  BY <1>10 DEF UpdateWaits, TypeOK
<1>11. CASE UpdateKeeps
  <2>1. CASE OnLinux /\ disk.next # "none"
    <3>1. disk' \in Stores /\ survivors' = {disk'} /\ disk'.linux = disk.next /\ disk'.twrp = disk.twrp
      BY <1>11, <2>1, MoveKeeps DEF UpdateKeeps
    <3>2. installer = "idle"
      BY <2>1
    <3>3. QED
      BY <1>11, <2>1, <3>1, <3>2 DEF UpdateKeeps, TypeOK
  <2>2. CASE ~(OnLinux /\ disk.next # "none")
    BY <1>11, <2>2 DEF UpdateKeeps, TypeOK
  <2>3. QED
    BY <2>1, <2>2
<1>12. QED
  BY <1>2, <1>3, <1>4, <1>5, <1>6, <1>7, <1>8, <1>9, <1>10, <1>11 DEF UpdateStep

\* to-twrp's and back-to-linux.sh's.
LEMMA SwapBase ==
  ASSUME BaseInv, SwapStep
  PROVE  BaseInv'
<1> USE DEF BaseInv, ToolsInv, FilesInv, Bootable, OnLinux, SwapImage, Swaps
<1>1. disk \in Stores
  BY DEF TypeOK
<1>2. CASE SwapBegins
  BY <1>2 DEF SwapBegins, Free, HasImage, DdBegins, TypeOK
<1>3. CASE SwapWrites
  <2>1. SwapImage \in Files /\ SwapImage # "none"
    BY <1>1, <1>3 DEF SwapWrites, Stores
  <2>2. rec' \in Builds \cup {"twrp", "short", "torn"}
    <3> HIDE DEF SwapImage
    <3>1. QED
      BY <1>3, <2>1, DdWrites DEF SwapWrites
  <2>3. QED
    BY <1>3, <2>2 DEF SwapWrites, Sync, TypeOK
<1>4. CASE SwapReboots
  BY <1>4 DEF SwapReboots, Sync, TypeOK
<1>5. CASE SwapFails
  BY <1>5 DEF SwapFails, DdBegins, TypeOK
<1>6. CASE SwapRestores
  <2>1. disk.linux \in Files /\ disk.linux # "none"
    BY <1>1, <1>6 DEF SwapRestores, Stores
  <2>2. rec' \in Builds \cup {"twrp", "short", "torn"}
    BY <1>6, <2>1, DdWrites DEF SwapRestores
  <2>3. QED
    BY <1>6, <2>2 DEF SwapRestores, Sync, TypeOK
<1>7. QED
  BY <1>2, <1>3, <1>4, <1>5, <1>6 DEF SwapStep

\* install-dot.py's.
LEMMA InstallBase ==
  ASSUME BaseInv, InstallStep
  PROVE  BaseInv'
<1> USE DEF BaseInv, ToolsInv, FilesInv, Bootable, OnLinux, SwapImage, Installs
<1>1. Builds \subseteq Files /\ "short" \in Files /\ "twrp" \in Files /\ disk \in Stores
  BY DEF Files, TypeOK
<1>2. CASE InstallBegins
  BY <1>1, <1>2, PutLinux DEF InstallBegins, Free, TypeOK
<1>3. ASSUME NEW b \in Builds, InstallPushesLinux(b)
      PROVE  BaseInv'
  BY <1>1, <1>3, PutLinux DEF InstallPushesLinux, TypeOK
<1>4. CASE InstallFlashes
  BY <1>4 DEF InstallFlashes, DdBegins, TypeOK
<1>5. CASE InstallWrites
  <2>1. disk.linux \in Files /\ disk.linux # "none"
    BY <1>1, <1>5 DEF InstallWrites, TypeOK
  <2>2. rec' \in Builds \cup {"twrp", "short", "torn"}
    BY <1>5, <2>1, DdWrites DEF InstallWrites
  <2>3. QED
    BY <1>5, <2>2 DEF InstallWrites, Sync, TypeOK
<1>6. CASE InstallChecks
  <2>1. CASE ReadBack(disk.linux)
    BY <1>1, <1>6, <2>1, PutTwrp DEF InstallChecks, ReadBack, TypeOK
  <2>2. CASE ~ReadBack(disk.linux)
    BY <1>6, <2>2 DEF InstallChecks, TypeOK
  <2>3. QED
    BY <2>1, <2>2
<1>7. CASE InstallPushesTwrp
  <2>1. /\ disk' = [disk EXCEPT !.twrp = "twrp", !.back = TRUE]
        /\ survivors' = survivors \cup {disk', [disk' EXCEPT !.twrp = "short"]}
    BY <1>7 DEF InstallPushesTwrp
  <2>2. disk' \in Stores /\ disk'.linux = disk.linux /\ disk'.next = disk.next /\ disk'.prev = disk.prev
    BY <1>1, <2>1 DEF Stores
  <2>3. [disk' EXCEPT !.twrp = "short"] \in Stores
    BY <1>1, <2>2 DEF Stores
  <2>4. QED
    BY <1>7, <2>1, <2>2, <2>3 DEF InstallPushesTwrp, TypeOK
<1>8. CASE InstallReboots
  BY <1>8 DEF InstallReboots, Sync, TypeOK
<1>9. CASE InstallFails
  BY <1>9 DEF InstallFails, TypeOK
<1>10. QED
  BY <1>2, <1>3, <1>4, <1>5, <1>6, <1>7, <1>8, <1>9 DEF InstallStep

-----------------------------------------------------------------------------
(* The wait for a healthy boot, and what the store keeps.                  *)

\* A healthy boot with another id is a boot of the image that was flashed.
LEMMA WaitKept ==
  ASSUME BaseInv, WaitInv, ~Impatient, Next
  PROVE  WaitInv'
<1> USE DEF WaitInv, OnLinux
<1>1. /\ want \in Builds /\ env \in Builds \cup {"twrp", "off", "dead"} /\ mark \in BOOLEAN
      /\ sameBoot \in BOOLEAN /\ update \in Updates /\ disk \in Stores
  BY DEF BaseInv, TypeOK
<1>2. /\ update # "idle" => swap = "idle" /\ installer = "idle"
      /\ update \in {"send", "flash", "dd", "write", "check", "restore"} => OnLinux
      /\ update \in {"flash", "dd", "write", "check"} => disk.next = want
      /\ update = "reboot" => rec = want
  BY DEF BaseInv, ToolsInv, FilesInv
<1>3. CASE UnitStep
  <2>1. CASE Boot
    BY <1>1, <1>2, <2>1 DEF Boot, Updates
  <2>2. CASE BootDies
    BY <1>1, <2>2 DEF BootDies
  <2>3. CASE Healthy
    BY <1>1, <2>3 DEF Healthy
  <2>4. CASE PowerCut
    BY <1>1, <2>4 DEF PowerCut, Stopped
  <2>5. CASE FastbootTwrp
    BY <1>1, <2>5 DEF FastbootTwrp, Free
  <2>6. QED
    BY <1>3, <2>1, <2>2, <2>3, <2>4, <2>5 DEF UnitStep
<1>4. CASE UpdateStep
  <2>1. ASSUME NEW b \in Builds, UpdateBegins(b)
        PROVE  WaitInv'
    BY <2>1 DEF UpdateBegins
  <2>2. CASE UpdateSends
    BY <1>1, <2>2 DEF UpdateSends, Put
  <2>3. CASE FlashKeepsPrev
    BY <1>1, <1>2, <2>3 DEF FlashKeepsPrev, Put
  <2>4. CASE FlashBegins
    BY <1>1, <2>4 DEF FlashBegins
  <2>5. CASE FlashWrites
    BY <1>1, <1>2, <2>5 DEF FlashWrites, Sync
  <2>6. CASE FlashChecks
    BY <1>1, <1>2, <2>6 DEF FlashChecks, ReadBack
  <2>7. CASE FlashRestores
    BY <1>1, <2>7 DEF FlashRestores
  <2>8. CASE UpdateReboots
    BY <1>1, <1>2, <2>8 DEF UpdateReboots, Sync
  <2>9. CASE UpdateWaits
    BY <1>1, <2>9 DEF UpdateWaits, NewBootHealthy
  <2>10. CASE UpdateKeeps
    BY <1>1, <2>10 DEF UpdateKeeps
  <2>11. QED
    BY <1>4, <2>1, <2>2, <2>3, <2>4, <2>5, <2>6, <2>7, <2>8, <2>9, <2>10 DEF UpdateStep
<1>5. CASE SwapStep \/ InstallStep
  <2>1. update = "idle"
    BY <1>2, <1>5 DEF SwapStep, SwapBegins, SwapWrites, SwapReboots, SwapFails, SwapRestores,
                      InstallStep, InstallBegins, InstallPushesLinux, InstallFlashes, InstallWrites,
                      InstallChecks, InstallPushesTwrp, InstallReboots, InstallFails, Free
  <2>2. update' = "idle"
    BY <1>5, <2>1 DEF SwapStep, SwapBegins, SwapWrites, SwapReboots, SwapFails, SwapRestores,
                      InstallStep, InstallBegins, InstallPushesLinux, InstallFlashes, InstallWrites,
                      InstallChecks, InstallPushesTwrp, InstallReboots, InstallFails
  <2>3. QED
    BY <2>2
<1>6. QED
  BY <1>3, <1>4, <1>5 DEF Next

\* Whatever the power does, what a store may come back with is fit to go back to.
LEMMA KeptKept ==
  ASSUME BaseInv, WaitInv, KeptInv, ~Impatient, Next
  PROVE  KeptInv'
<1> USE DEF KeptInv, LinuxGood, TwrpGood
<1>1. /\ disk \in Stores /\ disk \in survivors /\ survivors \subseteq Stores
      /\ installer \in Installs /\ cut \in BOOLEAN
      /\ want \in Builds /\ env \in Builds \cup {"twrp", "off", "dead"}
      /\ proven \subseteq Builds /\ installed \subseteq Builds
  BY DEF BaseInv, TypeOK
<1>2. update # "idle" => swap = "idle" /\ installer = "idle"
  BY DEF BaseInv, ToolsInv
<1>3. Builds \subseteq Files /\ {"short", "twrp"} \subseteq Files
  BY DEF Files
<1>4. TypeOK
  BY DEF BaseInv
<1>5. CASE UnitStep
  <2>1. CASE Boot
    BY <1>1, <2>1 DEF Boot
  <2>2. CASE BootDies
    BY <1>1, <2>2 DEF BootDies
  <2>3. CASE Healthy
    BY <1>1, <2>3 DEF Healthy
  <2>4. CASE PowerCut
    BY <1>1, <2>4 DEF PowerCut, Stopped
  <2>5. CASE FastbootTwrp
    BY <1>1, <2>5 DEF FastbootTwrp
  <2>6. QED
    BY <1>5, <2>1, <2>2, <2>3, <2>4, <2>5 DEF UnitStep
<1>6. CASE UpdateStep
  <2>1. ASSUME NEW b \in Builds, UpdateBegins(b)
        PROVE  KeptInv'
    BY <1>1, <2>1 DEF UpdateBegins
  <2>2. CASE UpdateSends
    <3>1. /\ disk' \in survivors' /\ UNCHANGED <<installer, cut, proven, installed>>
          /\ \A st \in survivors' : st \in survivors \/ (st.linux = disk.linux /\ st.twrp = disk.twrp)
      BY <1>1, <1>3, <1>4, <2>2, PutNext DEF UpdateSends
    <3>2. installer = "idle"
      BY <1>2, <2>2 DEF UpdateSends
    <3>3. QED
      BY <1>1, <3>1, <3>2
  <2>3. CASE FlashKeepsPrev
    <3>1. disk.linux \in Files
      BY <1>1 DEF Stores
    <3>2. UNCHANGED <<installer, cut, proven, installed>>
      BY <2>3 DEF FlashKeepsPrev
    <3>3. \A st \in survivors' : st \in survivors \/ (st.linux = disk.linux /\ st.twrp = disk.twrp)
      BY <1>4, <1>1, <2>3, <3>1, PutPrev DEF FlashKeepsPrev
    <3>4. installer = "idle"
      BY <1>2, <2>3 DEF FlashKeepsPrev
    <3>5. QED
      BY <1>1, <3>2, <3>3, <3>4
  <2>4. CASE FlashBegins \/ FlashChecks \/ UpdateWaits
    BY <1>1, <2>4 DEF FlashBegins, FlashChecks, UpdateWaits
  <2>5. CASE FlashWrites \/ FlashRestores
    BY <1>1, <2>5 DEF FlashWrites, FlashRestores, Sync
  <2>6. CASE UpdateReboots
    BY <1>1, <2>6 DEF UpdateReboots, Sync
  <2>7. CASE UpdateKeeps
    <3>1. installer = "idle" /\ UNCHANGED <<installer, cut, proven, installed>>
      BY <1>2, <2>7 DEF UpdateKeeps
    <3>2. CASE OnLinux /\ disk.next # "none"
      <4>1. survivors' = {disk'} /\ disk'.linux = disk.next /\ disk'.twrp = disk.twrp
        BY <1>4, <2>7, <3>2, MoveKeeps DEF UpdateKeeps
      <4>2. disk.next \in proven
        BY <2>7 DEF UpdateKeeps, WaitInv
      <4>3. QED
        BY <1>1, <3>1, <4>1, <4>2
    <3>3. CASE ~(OnLinux /\ disk.next # "none")
      BY <1>1, <2>7, <3>1, <3>3 DEF UpdateKeeps
    <3>4. QED
      BY <3>2, <3>3
  <2>8. QED
    BY <1>6, <2>1, <2>2, <2>3, <2>4, <2>5, <2>6, <2>7 DEF UpdateStep
<1>7. CASE SwapStep
  <2>1. UNCHANGED <<disk, installer, cut, proven, installed>>
    BY <1>7 DEF SwapStep, SwapBegins, SwapWrites, SwapReboots, SwapFails, SwapRestores
  <2>2. survivors' = survivors \/ survivors' = {disk}
    BY <1>7 DEF SwapStep, SwapBegins, SwapWrites, SwapReboots, SwapFails, SwapRestores, Sync
  <2>3. QED
    BY <1>1, <2>1, <2>2
<1>8. CASE InstallStep
  <2>1. disk.linux \in installed \/ installer \notin {"flash", "write", "check", "twrp", "arm"}
    BY DEF BaseInv, FilesInv
  <2>2. CASE InstallBegins
    <3>1. \A st \in survivors' : st \in survivors \/ st.twrp = disk.twrp
      BY <1>3, <1>4, <1>1, <2>2, PutLinux DEF InstallBegins
    <3>2. QED
      BY <1>1, <2>2, <3>1 DEF InstallBegins
  <2>3. ASSUME NEW b \in Builds, InstallPushesLinux(b)
        PROVE  KeptInv'
    <3>1. \A st \in survivors' : st \in survivors \/ st.twrp = disk.twrp
      BY <1>3, <1>4, <1>1, <2>3, PutLinux DEF InstallPushesLinux
    <3>2. QED
      BY <1>1, <2>3, <3>1 DEF InstallPushesLinux
  <2>4. CASE InstallFlashes
    BY <1>1, <2>4 DEF InstallFlashes
  <2>5. CASE InstallWrites
    BY <1>1, <2>5 DEF InstallWrites, Sync
  <2>6. CASE InstallChecks
    BY <1>1, <2>1, <2>6 DEF InstallChecks
  <2>7. CASE InstallPushesTwrp
    <3>1. disk'.twrp = "twrp"
      BY <1>1, <2>7 DEF InstallPushesTwrp, Stores
    <3>2. QED
      BY <2>7, <3>1 DEF InstallPushesTwrp
  <2>8. CASE InstallReboots
    BY <1>1, <2>1, <2>8 DEF InstallReboots, Sync
  <2>9. CASE InstallFails
    BY <2>9 DEF InstallFails
  <2>10. QED
    BY <1>8, <2>2, <2>3, <2>4, <2>5, <2>6, <2>7, <2>8, <2>9 DEF InstallStep
<1>9. QED
  BY <1>5, <1>6, <1>7, <1>8 DEF Next

-----------------------------------------------------------------------------
(* The specification.                                                      *)

\* The invariant holds of a unit before its first install.
LEMMA InvInit == Init => Inv
<1> SUFFICES ASSUME Init PROVE Inv
  OBVIOUS
<1>1. disk \in Stores /\ disk \in survivors /\ survivors \subseteq Stores
  BY DEF Init, Stores, Files
<1>2. BaseInv
  BY <1>1 DEF Init, BaseInv, TypeOK, ToolsInv, FilesInv, Updates, Swaps, Installs
<1>3. WaitInv /\ KeptInv
  BY DEF Init, WaitInv, KeptInv, LinuxGood, TwrpGood
<1>4. QED
  BY <1>2, <1>3 DEF Inv

\* Every step keeps it.
LEMMA InvKept == Inv /\ [Next]_vars => Inv'
<1> SUFFICES ASSUME Inv, [Next]_vars PROVE Inv'
  OBVIOUS
<1>1. CASE Next
  <2>1. BaseInv'
    BY <1>1, UnitBase, UpdateBase, SwapBase, InstallBase DEF Inv, Next
  <2>2. ~Impatient => WaitInv' /\ KeptInv'
    BY <1>1, WaitKept, KeptKept DEF Inv
  <2>3. QED
    BY <2>1, <2>2 DEF Inv
<1>2. CASE UNCHANGED vars
  BY <1>2 DEF vars, Inv, BaseInv, TypeOK, ToolsInv, FilesInv, WaitInv, KeptInv, LinuxGood, TwrpGood,
              OnLinux, SwapImage
<1>3. QED
  BY <1>1, <1>2

\* So it holds in every behaviour.
LEMMA Invariant == Spec => []Inv
  BY InvInit, InvKept, PTL DEF Spec

\* The partition and the store hold images, never an absent one, whichever of
\* the tools run at once.
THEOREM ImageTypes == Spec => []TypeOK
<1>1. Inv => TypeOK
  BY DEF Inv, BaseInv
<1>2. QED
  BY <1>1, Invariant, PTL

\* Outside a cut installer run linux.img is, on every store a power cut may
\* leave, one that was installed or has booted healthy.
THEOREM LinuxImgSafe ==
  ASSUME ~Impatient
  PROVE  Spec => []LinuxImgKept
<1>1. Inv => LinuxImgKept
  BY DEF Inv, KeptInv, LinuxGood, LinuxImgKept
<1>2. QED
  BY <1>1, Invariant, PTL

\* update-boot.py's wait takes no other boot for a healthy one of the new image.
THEOREM ReplacedSafely ==
  ASSUME ~Impatient
  PROVE  Spec => ReplacedOnceHealthy
<1>1. Inv /\ [Next]_vars =>
        [UpdateKeeps /\ disk'.linux # disk.linux => disk'.linux \in proven]_vars
  <2> SUFFICES ASSUME Inv, UpdateKeeps, disk'.linux # disk.linux
               PROVE  disk'.linux \in proven
    OBVIOUS
  <2>1. MoveNext
    BY DEF UpdateKeeps
  <2>2. disk'.linux = disk.next
    BY <2>1, MoveKeeps DEF Inv, BaseInv
  <2>3. disk.next = want /\ want \in proven
    BY DEF Inv, WaitInv, UpdateKeeps
  <2>4. QED
    BY <2>2, <2>3
<1>2. QED
  BY <1>1, Invariant, PTL DEF Spec, ReplacedOnceHealthy

\* What a tool reboots the unit into was read back as whole, and is the system
\* the tool is for.
THEOREM RebootsSafe ==
  ASSUME ~Impatient
  PROVE  Spec => RebootsIntoImage
<1> DEFINE Reboots ==
      /\ UpdateReboots \/ InstallReboots => rec \in Builds
      /\ SwapReboots /\ ~cut => IF OnLinux THEN rec = "twrp" ELSE rec \in Builds
<1>1. Inv /\ [Next]_vars => [Reboots]_vars
  <2> SUFFICES ASSUME Inv PROVE Reboots
    OBVIOUS
  <2> USE DEF Inv, BaseInv, TypeOK, FilesInv
  <2>1. UpdateReboots => rec \in Builds
    BY DEF UpdateReboots
  <2>2. InstallReboots => rec \in Builds
    BY DEF InstallReboots
  <2>3. ASSUME SwapReboots, ~cut
        PROVE  IF OnLinux THEN rec = "twrp" ELSE rec \in Builds
    <3>1. installer = "idle" /\ rec = SwapImage /\ rec # "none"
      BY <2>3 DEF SwapReboots, ReadBack, ToolsInv
    <3>2. LinuxGood(disk) /\ TwrpGood(disk)
      BY <2>3, <3>1 DEF KeptInv
    <3>3. QED
      BY <3>1, <3>2 DEF SwapImage, LinuxGood, TwrpGood
  <2>4. QED
    BY <2>1, <2>2, <2>3
<1>2. QED
  BY <1>1, Invariant, PTL DEF Spec, RebootsIntoImage
=============================================================================
