------------------------------ MODULE DotBoot ------------------------------
(***************************************************************************)
(* A unit's boots: the initramfs (tools/linux/init) counting tries in MISC *)
(* and asking slotctl for a slot, the slot's boot.sh watching the daemon   *)
(* and committing, the daemon's updater running `slotctl install`, a user  *)
(* at a root shell, and power cuts between any two steps.                  *)
(*                                                                         *)
(* Durability.  disk is the store as programs see it; survivors holds the  *)
(* stores a power cut may leave.  A write adds to survivors, a sync leaves *)
(* only disk in it.  The MISC block is written through a block device that *)
(* is flushed when dd closes it, so count needs no such set.               *)
(***************************************************************************)
EXTENDS SlotCtl

CONSTANTS
  TRIES_MAX,        \* boots in a row that may fail before rescue
  Commands,         \* the slotctl commands a user at a shell may run
  UpdateOnTrial,    \* TRUE: the daemon may install while its slot is on trial
  PowerCuts         \* TRUE: the power may fail

ASSUME TriesMaxAssumption == TRIES_MAX \in Nat
ASSUME CommandsAssumption ==
  Commands \subseteq {"next", "install", "commit", "switch", "rollback", "rescue"}
ASSUME FlagsAssumption    == UpdateOnTrial \in BOOLEAN /\ PowerCuts \in BOOLEAN

VARIABLES
  phase,       \* how far this boot has come
  booted,      \* the slot chosen, then /run/techo5/slot
  count,       \* TECHO5-TRIES in MISC
  disk,        \* the store as it is read now
  survivors,   \* the stores a power cut may leave
  health,      \* boot.sh's watch over the daemon
  install,     \* the slotctl install that is running, if any
  shell,       \* "sync": a user's command has written and not synced yet
  trialBoots,  \* history: boots of a slot on trial since it was put there
  strikes      \* history: slot boots since one was healthy or a retry

vars == <<phase, booted, count, disk, survivors, health, install, shell,
          trialBoots, strikes>>

Phases   == {"off", "store", "adopt", "next", "switch", "up", "rescue"}
Healths  == {"watch", "commit", "reset", "done", "failed", "unwatched"}
Installs == {"none", "remove", "unpack", "arm", "sync", "reboot"}

NoInstall == [at |-> "none", slot |-> "a", keep |-> FALSE]

TypeOK ==
  /\ phase \in Phases
  /\ booted \in Slots \cup {NoSlot}
  /\ count \in 0 .. TRIES_MAX
  /\ disk \in Stores
  /\ survivors \subseteq Stores
  /\ health \in Healths
  /\ install \in [at : Installs, slot : Slots, keep : BOOLEAN]
  /\ shell \in {"idle", "sync"}
  /\ trialBoots \in [Slots -> Nat]
  /\ strikes \in Nat

-----------------------------------------------------------------------------
(* A provisioned unit: slot a installed and marked good by the installer   *)
(* (tools/install-dot.py); or a store from before slot states.             *)

Provisioned ==
  [ marker |-> TRUE, active |-> "a",
    mark   |-> [s \in Slots |-> IF s = "a" THEN "good" ELSE "none"],
    left   |-> [s \in Slots |-> 0],
    tree   |-> [s \in Slots |-> IF s = "a" THEN "whole" ELSE "empty"],
    rescue |-> FALSE, proven |-> {"a"}, vouched |-> {} ]

BeforeStates ==
  { [Provisioned EXCEPT !.marker = FALSE, !.mark["a"] = "none", !.active = s] :
      s \in {"a", NoSlot} }

Init ==
  /\ phase = "off"
  /\ booted = NoSlot
  /\ count = 0
  /\ disk \in {Provisioned} \cup BeforeStates
  /\ survivors = {disk}
  /\ health = "watch"
  /\ install = NoInstall
  /\ shell = "idle"
  /\ trialBoots = [s \in Slots |-> 0]
  /\ strikes = 0

-----------------------------------------------------------------------------
(* What a process does to the store.                                       *)

\* Writes that leave the disk at the store new; a power cut before the next
\* sync may also leave any of the stores in passed.
Write(new, passed) ==
  /\ disk' = new
  /\ survivors' = survivors \cup passed \cup {new}

\* Mutant: the sync is left out.
NoSync == UNCHANGED survivors

Sync == survivors' = {disk}

WriteSync(new) == disk' = new /\ survivors' = {new}

\* Every process of this boot is gone.
Halted ==
  /\ phase' = "off"
  /\ booted' = NoSlot
  /\ health' = "watch"
  /\ install' = NoInstall
  /\ shell' = "idle"

\* reboot: init runs shutdown.sh, which syncs and unmounts.
Rebooted ==
  /\ Halted
  /\ Sync
  /\ UNCHANGED disk

EnterRescue ==
  /\ phase' = "rescue"
  /\ booted' = NoSlot

-----------------------------------------------------------------------------
(* The initramfs.                                                          *)

\* Mutant: one boot too many.
TooManyTries_OffByOne == count > TRIES_MAX

TooManyTries == count >= TRIES_MAX

\* Mutant: the count is written back as it was read.
CountedTry_Same == count

CountedTry == count + 1

\* init counts a try, or at TRIES_MAX leaves the slots alone.
CountTry ==
  /\ phase = "off"
  /\ \/ TooManyTries /\ EnterRescue /\ UNCHANGED count
     \/ ~TooManyTries /\ phase' = "store" /\ count' = CountedTry /\ UNCHANGED booted
  /\ UNCHANGED <<disk, survivors, health, install, shell, trialBoots, strikes>>

\* boot_slot: the store does not mount.
StoreFails ==
  /\ phase = "store"
  /\ EnterRescue
  /\ UNCHANGED <<count, disk, survivors, health, install, shell, trialBoots,
                 strikes>>

\* boot_slot: the rescue marker is there; it is removed and this boot stays.
RescueMarker ==
  /\ phase = "store"
  /\ disk.rescue
  /\ WriteSync(RescueStore(disk, FALSE))
  /\ EnterRescue
  /\ UNCHANGED <<count, health, install, shell, trialBoots, strikes>>

\* boot_slot: a store with its marker is as it is.
StoreReady ==
  /\ phase = "store"
  /\ ~disk.rescue
  /\ disk.marker
  /\ phase' = "next"
  /\ UNCHANGED <<booted, count, disk, survivors, health, install, shell,
                 trialBoots, strikes>>

\* boot_slot: a store from before slot states is adopted ...
Adopt ==
  /\ phase = "store"
  /\ ~disk.rescue
  /\ ~disk.marker
  /\ Write(AdoptStore(disk), {AdoptMarked(disk)})
  /\ phase' = "adopt"
  /\ UNCHANGED <<booted, count, health, install, shell, trialBoots, strikes>>

\* ... and synced.
AdoptSync ==
  /\ phase = "adopt"
  /\ Sync
  /\ phase' = "next"
  /\ UNCHANGED <<booted, count, disk, health, install, shell, trialBoots, strikes>>

\* boot_slot: slotctl next chooses a slot, taking a try off one on trial ...
TakeNext ==
  /\ phase = "next"
  /\ Write(NextStore(disk), {NextMarked(disk)})
  /\ phase' = "switch"
  /\ booted' = NextSlot(disk)
  /\ UNCHANGED <<count, health, install, shell, trialBoots, strikes>>

\* ... and syncs; there is none, it has no executable /sbin/init, or it does
\* not bind ...
NoRoot ==
  /\ phase = "switch"
  /\ Sync
  /\ EnterRescue
  /\ UNCHANGED <<count, disk, health, install, shell, trialBoots, strikes>>

\* ... or the initramfs switches into it.  A root a power cut took files from
\* may have lost boot.sh, which inittab starts and nothing else does: then there
\* is no watch, and no daemon either, which waits for boot.sh (techo5-run).
SwitchRoot ==
  /\ phase = "switch"
  /\ booted # NoSlot
  /\ disk.tree[booted] # "empty"
  /\ Sync
  /\ phase' = "up"
  /\ health' = "watch" \/ (health' = "unwatched" /\ disk.tree[booted] = "part")
  /\ trialBoots' = IF OnTrial(disk, booted)
                   THEN [trialBoots EXCEPT ![booted] = @ + 1] ELSE trialBoots
  /\ strikes' = strikes + 1
  /\ UNCHANGED <<booted, count, disk, install, shell>>

\* In rescue, techo5-retry: the count is cleared and the unit reboots.
Retry ==
  /\ phase = "rescue"
  /\ count' = 0
  /\ strikes' = 0
  /\ Rebooted
  /\ UNCHANGED trialBoots

-----------------------------------------------------------------------------
(* boot.sh's watch: a minute, then up to five looks at the daemon.         *)

\* The daemon stays up for 30 s.  What is in the slot booted is now proven,
\* and whole, whatever data a power cut took from it, in every store the next
\* one may leave: none of them has other contents.
Healthy ==
  LET Prove(st) == [st EXCEPT !.proven = @ \cup {booted}, !.vouched = @ \ {booted},
                              !.tree[booted] = "whole"]
  IN  /\ phase = "up"
      /\ health = "watch"
      /\ health' = "commit"
      /\ disk' = Prove(disk)
      /\ survivors' = {Prove(st) : st \in survivors}
      /\ trialBoots' = [trialBoots EXCEPT ![booted] = 0]
      /\ strikes' = 0
      /\ UNCHANGED <<phase, booted, count, install, shell>>

\* slotctl commit: a slot on trial becomes good; one marked bad is left so.
Commit ==
  /\ phase = "up"
  /\ health = "commit"
  /\ health' = "reset"
  /\ IF OnTrial(disk, booted) THEN WriteSync(CommitStore(disk, booted))
                               ELSE UNCHANGED <<disk, survivors>>
  /\ UNCHANGED <<phase, booted, count, install, shell, trialBoots, strikes>>

\* The count in MISC goes back to zero, whatever commit said.
ResetCount ==
  /\ phase = "up"
  /\ health = "reset"
  /\ health' = "done"
  /\ count' = 0
  /\ UNCHANGED <<phase, booted, disk, survivors, install, shell, trialBoots,
                 strikes>>

\* The daemon never stays up: a slot on trial reboots, another one stays.
Unhealthy ==
  /\ phase = "up"
  /\ health = "watch"
  /\ IF OnTrial(disk, booted)
     THEN Rebooted
     ELSE /\ health' = "failed"
          /\ UNCHANGED <<phase, booted, disk, survivors, install, shell>>
  /\ UNCHANGED <<count, trialBoots, strikes>>

-----------------------------------------------------------------------------
(* slotctl install, run by the daemon's updater, which then reboots, or by *)
(* a user, in rescue too, where no slot is booted; one at a time.          *)

\* A user's shell, idle, on a store that slotctl takes (check).
AtShell(cmd) ==
  /\ cmd \in Commands
  /\ phase \in {"up", "rescue"}
  /\ shell = "idle"
  /\ disk.marker

\* Mutant: the check against /run/techo5/slot is left out.
NotRunning_Unchecked(t) == TRUE

NotRunning(t) == t # booted

\* The slot to install into is chosen, never the running one; rm -rf of its
\* tree begins.
InstallBegin(keep) ==
  LET t == InstallTarget(disk)
  IN  /\ \/ phase = "up" /\ health # "unwatched" /\ (UpdateOnTrial \/ Good(disk, booted))
         \/ AtShell("install")
      /\ install.at = "none"
      /\ NotRunning(t)
      /\ Write(Gutted(disk, t), {})
      /\ install' = [at |-> "remove", slot |-> t, keep |-> keep]
      /\ UNCHANGED <<phase, booted, count, health, shell, trialBoots, strikes>>

\* The rest of the tree and the state are gone; tar has begun.
InstallRemove ==
  LET t == install.slot
      gone == StateGone(TreeGone(disk, t), t)
  IN  /\ install.at = "remove"
      /\ Write(Unpacking(gone, t), {TreeGone(disk, t), gone})
      /\ install' = [install EXCEPT !.at = "unpack"]
      /\ UNCHANGED <<phase, booted, count, health, shell, trialBoots, strikes>>

\* tar fails, or the tree lacks a file every root needs: it is removed.
InstallFail ==
  /\ install.at = "unpack"
  /\ WriteSync(TreeGone(disk, install.slot))
  /\ install' = NoInstall
  /\ UNCHANGED <<phase, booted, count, health, shell, trialBoots, strikes>>

InstallUnpack ==
  LET new == Unpacked(disk, install.slot)
  IN  /\ install.at = "unpack"
      /\ Write(new, LostData(new, install.slot))
      /\ install' = [install EXCEPT !.at = "arm"]
      /\ UNCHANGED <<phase, booted, count, health, shell, trialBoots, strikes>>

\* The slot goes on trial and, unless --keep-active, is the next to boot.
InstallArm ==
  LET t     == install.slot
      trial == SetTrial(disk, t, TRIES)
      new   == IF install.keep THEN trial ELSE SetActive(trial, t)
  IN  /\ install.at = "arm"
      /\ Write(new, LostData(trial, t) \cup LostData(new, t))
      /\ install' = [install EXCEPT !.at = "sync"]
      /\ trialBoots' = [trialBoots EXCEPT ![t] = 0]
      /\ UNCHANGED <<phase, booted, count, health, shell, strikes>>

\* A user's install, or one that keeps the active slot, is over; the updater
\* goes on.
InstallSync ==
  /\ install.at = "sync"
  /\ Sync
  /\ \/ install' = NoInstall /\ (install.keep \/ "install" \in Commands)
     \/ install' = [install EXCEPT !.at = "reboot"] /\ ~install.keep /\ phase = "up"
  /\ UNCHANGED <<phase, booted, count, disk, health, shell, trialBoots, strikes>>

\* The updater reboots into what it installed.
UpdateReboot ==
  /\ install.at = "reboot"
  /\ Rebooted
  /\ UNCHANGED <<count, trialBoots, strikes>>

-----------------------------------------------------------------------------
(* A user at a root shell, over SSH or on the console, in a slot or in     *)
(* rescue (where nothing is booted, so commit and rollback have nothing to *)
(* do).  A command that neither writes nor syncs (next on a good slot, a   *)
(* commit of a slot not on trial) is no step.                              *)

\* A try is taken, or a slot fallen back to, without a boot.
NextByHand ==
  /\ AtShell("next")
  /\ NextSyncs(disk)
  /\ Write(NextStore(disk), {NextMarked(disk)})
  /\ shell' = "sync"
  /\ UNCHANGED <<phase, booted, count, health, install, trialBoots, strikes>>

\* The slot on trial becomes good on the user's word.
CommitByHand ==
  /\ AtShell("commit")
  /\ phase = "up"
  /\ OnTrial(disk, booted)
  /\ Write(VouchedStore(disk, booted), {})
  /\ shell' = "sync"
  /\ UNCHANGED <<phase, booted, count, health, install, trialBoots, strikes>>

Switch(s) ==
  /\ AtShell("switch")
  /\ disk.tree[s] # "empty"
  /\ Write(SwitchStore(disk, s), {SwitchMarked(disk, s)} \cup SwitchLost(disk, s))
  /\ shell' = "sync"
  /\ trialBoots' = IF SwitchMarked(disk, s) = disk THEN trialBoots
                   ELSE [trialBoots EXCEPT ![s] = 0]
  /\ UNCHANGED <<phase, booted, count, health, install, strikes>>

Rollback ==
  /\ AtShell("rollback")
  /\ phase = "up"
  /\ Good(disk, Other(booted))
  /\ Write(RollbackStore(disk, booted), {RollbackMarked(disk, booted)})
  /\ shell' = "sync"
  /\ UNCHANGED <<phase, booted, count, health, install, trialBoots, strikes>>

ShellSync ==
  /\ shell = "sync"
  /\ Sync
  /\ shell' = "idle"
  /\ UNCHANGED <<phase, booted, count, disk, health, install, trialBoots, strikes>>

Rescue(on) ==
  /\ AtShell("rescue")
  /\ WriteSync(RescueStore(disk, on))
  /\ UNCHANGED <<phase, booted, count, health, install, shell, trialBoots, strikes>>

Reboot ==
  /\ phase = "up"
  /\ Rebooted
  /\ UNCHANGED <<count, trialBoots, strikes>>

\* The power fails, or the kernel does: any store in survivors may be left.
PowerCut ==
  /\ PowerCuts
  /\ phase # "off"
  /\ Halted
  /\ \E st \in survivors : disk' = st /\ survivors' = {st}
  /\ UNCHANGED <<count, trialBoots, strikes>>

-----------------------------------------------------------------------------
InitramfsStep ==
  \/ CountTry \/ StoreFails \/ RescueMarker \/ StoreReady \/ Adopt \/ AdoptSync
  \/ TakeNext \/ NoRoot \/ SwitchRoot

WatchStep == Healthy \/ Commit \/ ResetCount \/ Unhealthy

InstallStep ==
  \/ InstallRemove \/ InstallFail \/ InstallUnpack \/ InstallArm
  \/ InstallSync \/ UpdateReboot

UserStep ==
  \/ NextByHand \/ CommitByHand
  \/ \E s \in Slots : Switch(s)
  \/ Rollback \/ ShellSync \/ Reboot \/ Retry
  \/ \E on \in BOOLEAN : Rescue(on)

Next ==
  \/ InitramfsStep
  \/ WatchStep
  \/ \E keep \in BOOLEAN : InstallBegin(keep)
  \/ InstallStep
  \/ UserStep
  \/ PowerCut

\* The unit's own programs go on running, the watch where boot.sh started one;
\* users, updates and the power supply owe nothing.
Fairness ==
  /\ WF_vars(InitramfsStep)
  /\ WF_vars(WatchStep)
  /\ WF_vars(InstallStep)

Spec == Init /\ [][Next]_vars /\ Fairness

-----------------------------------------------------------------------------
(* Safety.                                                                 *)

\* A slot is marked good only if what is in it came up healthy, or if a user
\* committed these very contents by hand: no power cut, in whatever step of an
\* update or a command, leaves a slot good that holds an image nobody answered
\* for (cmd_install removes the state before it unpacks, and but for the user
\* cmd_commit is reached only from boot.sh's watch).
GoodIsProven ==
  \A st \in survivors : \A s \in Slots :
    Good(st, s) => s \in st.proven \cup st.vouched \/ st.tree[s] = "empty"

\* A slot on trial is booted at most TRIES times before it is healthy once,
\* wherever the power fails (cmd_next syncs the try it takes, and init syncs
\* once more before it switches into the slot).
TrialBounded == \A s \in Slots : trialBoots[s] <= TRIES

\* No more than TRIES_MAX boots into slots in a row without a healthy one:
\* the next goes to rescue (init's count, written before anything can fail).
StrikesBounded == strikes <= TRIES_MAX

\* The root a slot runs from is the one it booted from, on every store a
\* power cut may leave: install never writes to it, whatever the user made
\* active meanwhile (cmd_install's check against /run/techo5/slot).
RunningRootKept ==
  phase = "up" =>
    /\ install.at # "none" => install.slot # booted
    /\ \A st \in survivors :
         /\ st.tree[booted] = disk.tree[booted]
         /\ booted \in st.proven <=> booted \in disk.proven

\* Without a user's commands, and with updates only from a committed slot, a
\* power cut at any step leaves a store with a good, whole, proven slot that
\* is booted next or is what the trial of the other one falls back to (but
\* for a store whose adoption was cut short, which names no slot's state).
Lifeline(st) ==
  \E s \in Slots :
    /\ Good(st, s)
    /\ st.tree[s] = "whole"
    /\ s \in st.proven
    /\ st.active \in {s, NoSlot} \/ ~Good(st, Other(s))

NeverStranded ==
  \A st \in survivors :
    (\E s \in Slots : st.mark[s] # "none") => Lifeline(st)

-----------------------------------------------------------------------------
(* The promise BoundedBoot makes of a unit's boots, kept by this one: the  *)
(* abstract attempts are the count MISC holds, and runs the boots on trial *)
(* that were made, whatever the store still knows of them.                 *)

Bounded == INSTANCE BoundedBoot WITH
  Roots <- Slots, Nothing <- NoSlot, MaxStrikes <- TRIES_MAX, MaxTrials <- TRIES,
  mode <- CASE phase = "off" -> "off" [] phase = "up" -> "running"
            [] phase = "rescue" -> "rescue" [] OTHER -> "starting",
  root <- IF phase = "up" THEN booted ELSE NoSlot,
  attempts <- count,
  runs <- trialBoots

\* Every step of the unit is a step BoundedBoot allows, or changes nothing it
\* can see: no order of tries, commits, installs, commands and power cuts
\* boots an image on trial once too often, or a slot past the count.
KeepsBoundedBoot == Bounded!Spec

-----------------------------------------------------------------------------
(* Liveness.                                                               *)

\* A unit does not boot for ever: whatever its slots do and however often
\* the power fails, it comes to rescue, to a healthy daemon, to a committed
\* slot that stays up without one, or into a root that lost its boot.sh to a
\* power cut, where nobody watches and nobody reboots.
BootLoopEnds ==
  []<>(phase = "rescue" \/ health \in {"commit", "reset", "done", "failed", "unwatched"})

-----------------------------------------------------------------------------
(* What init says of an old store.                                         *)

\* "A store from before slot states (one install, no marker) is one good slot:
\* say so once, so slotctl can take over the choosing" (init): a unit that no
\* user and no update on trial interferes with always has a slot to boot.
AdoptionLasts == phase = "switch" => booted # NoSlot
=============================================================================
