--------------------------- MODULE DotBootProofs ---------------------------
(***************************************************************************)
(* Theorems about DotBoot, for every number of trial boots, every limit on *)
(* boots in a row, every set of commands and with or without power cuts;   *)
(* the last is that it implements BoundedBoot.                             *)
(***************************************************************************)
EXTENDS DotBoot, TLAPS

-----------------------------------------------------------------------------
(* Each operation on a store leaves a store.                               *)

\* A mark, an active slot, the rescue marker or the store's own marker may be
\* set in any store.
LEMMA MarkStores ==
  ASSUME NEW st \in Stores, NEW s \in Slots, NEW m \in Marks,
         NEW n \in 0 .. TRIES
  PROVE  /\ SetMark(st, s, m) \in Stores
         /\ SetTrial(st, s, n) \in Stores
         /\ SetActive(st, s) \in Stores
  <1>1. ASSUME NEW k \in Marks, NEW l \in 0 .. TRIES
        PROVE  [st EXCEPT !.mark[s] = k, !.left[s] = l, !.vouched = @ \ {s}] \in Stores
    <2>1. [st.mark EXCEPT ![s] = k] \in [Slots -> Marks]
      BY DEF Stores
    <2>2. [st.left EXCEPT ![s] = l] \in [Slots -> 0 .. TRIES]
      BY DEF Stores
    <2> QED
      BY <2>1, <2>2 DEF Stores
  <1>2. "trial" \in Marks /\ 0 \in 0 .. TRIES
    BY TriesAssumption DEF Marks
  <1>3. SetActive(st, s) \in Stores
    BY DEF Stores, SetActive
  <1> QED
    BY <1>1, <1>2, <1>3 DEF SetMark, SetTrial

\* So may the contents of a slot, in whatever step of their removal and unpacking.
LEMMA TreeStores ==
  ASSUME NEW st \in Stores, NEW t \in Slots
  PROVE  /\ Gutted(st, t) \in Stores
         /\ TreeGone(st, t) \in Stores
         /\ StateGone(st, t) \in Stores
         /\ Unpacking(st, t) \in Stores
         /\ Unpacked(st, t) \in Stores
  <1>1. Gutted(st, t) \in Stores
    BY DEF Stores, Gutted, Trees
  <1>2. TreeGone(st, t) \in Stores
    BY DEF Stores, TreeGone, Trees
  <1>3. StateGone(st, t) \in Stores
    <2>1. "none" \in Marks /\ 0 \in 0 .. TRIES
      BY TriesAssumption DEF Marks
    <2> QED
      BY <2>1, MarkStores DEF StateGone
  <1>4. Unpacking(st, t) \in Stores /\ Unpacked(st, t) \in Stores
    BY DEF Stores, Unpacking, Unpacked, Trees
  <1> QED
    BY <1>1, <1>2, <1>3, <1>4

\* What unsynced data may be lost of a store is a store.
LEMMA LostDataStores ==
  ASSUME NEW st \in Stores, NEW t \in Slots
  PROVE  LostData(st, t) \subseteq Stores
  BY TreeStores DEF LostData

\* slotctl next prints a slot or none and writes stores, the one between its
\* two writes included.
LEMMA NextStores ==
  ASSUME NEW st \in Stores
  PROVE  /\ NextSlot(st) \in Slots \cup {NoSlot}
         /\ NextMarked(st) \in Stores
         /\ NextStore(st) \in Stores
  <1>1. NextSlot(st) \in Slots \cup {NoSlot}
    BY DEF NextSlot, ActiveBoots, FallbackSlot, Other, Slots, Stores
  <1>2. NextMarked(st) \in Stores
    <2>1. CASE st.active = NoSlot \/ ~OnTrial(st, st.active)
      BY <2>1 DEF NextMarked
    <2>2. CASE ~(st.active = NoSlot \/ ~OnTrial(st, st.active))
      <3>1. st.active \in Slots
        BY <2>2 DEF Stores
      <3>2. st.left[st.active] \in 0 .. TRIES
        BY <3>1 DEF Stores
      <3>3. st.left[st.active] > 0 => st.left[st.active] - 1 \in 0 .. TRIES
        BY <3>2, TriesAssumption
      <3>4. "bad" \in Marks /\ 0 \in 0 .. TRIES
        BY TriesAssumption DEF Marks
      <3> QED
        BY <2>2, <3>1, <3>3, <3>4, MarkStores DEF NextMarked
    <2> QED
      BY <2>1, <2>2
  <1>3. NextStore(st) \in Stores
    <2>1. CASE ~ActiveBoots(st) /\ NextSlot(st) # NoSlot
      <3>1. NextSlot(st) \in Slots
        BY <2>1, <1>1
      <3>2. "bad" \in Marks /\ 0 \in 0 .. TRIES
        BY TriesAssumption DEF Marks
      <3> QED
        BY <2>1, <3>1, <3>2, <1>2, MarkStores DEF NextStore
    <2>2. CASE ~(~ActiveBoots(st) /\ NextSlot(st) # NoSlot)
      BY <2>2, <1>2 DEF NextStore
    <2> QED
      BY <2>1, <2>2
  <1> QED
    BY <1>1, <1>2, <1>3

\* So do switch, rollback, commit and the initramfs's adoption.
LEMMA CommandStores ==
  ASSUME NEW st \in Stores, NEW s \in Slots, NEW on \in BOOLEAN
  PROVE  /\ CommitStore(st, s) \in Stores
         /\ VouchedStore(st, s) \in Stores
         /\ SwitchMarked(st, s) \in Stores
         /\ SwitchStore(st, s) \in Stores
         /\ SwitchLost(st, s) \subseteq Stores
         /\ RollbackMarked(st, s) \in Stores
         /\ RollbackStore(st, s) \in Stores
         /\ RescueStore(st, on) \in Stores
         /\ AdoptMarked(st) \in Stores
         /\ AdoptStore(st) \in Stores
  <1>1. TRIES \in 0 .. TRIES /\ 0 \in 0 .. TRIES
        /\ "good" \in Marks /\ "bad" \in Marks
    BY TriesAssumption DEF Marks
  <1>2. CommitStore(st, s) \in Stores /\ RollbackMarked(st, s) \in Stores
    BY <1>1, MarkStores DEF CommitStore, RollbackMarked
  <1>8. VouchedStore(st, s) \in Stores
    <2>1. SetMark(st, s, "good") \in Stores
      BY <1>1, MarkStores
    <2> QED
      BY <2>1 DEF VouchedStore, Stores
  <1>3. SwitchMarked(st, s) \in Stores
    BY <1>1, MarkStores DEF SwitchMarked
  <1>4. SwitchStore(st, s) \in Stores /\ SwitchLost(st, s) \subseteq Stores
    BY <1>1, <1>3, MarkStores DEF SwitchStore, SwitchLost
  <1>5. RollbackStore(st, s) \in Stores
    <2>1. Other(s) \in Slots
      BY DEF Other, Slots
    <2> QED
      BY <2>1, <1>1, <1>2, MarkStores DEF RollbackStore
  <1>6. RescueStore(st, on) \in Stores /\ AdoptMarked(st) \in Stores
    BY DEF Stores, RescueStore, AdoptMarked
  <1>7. AdoptStore(st) \in Stores
    <2>1. Adoptee(st) \in Slots
      BY DEF Adoptee, Slots, Stores
    <2> QED
      BY <2>1, <1>1, <1>6, MarkStores DEF AdoptStore
  <1> QED
    BY <1>2, <1>3, <1>4, <1>5, <1>6, <1>7, <1>8

-----------------------------------------------------------------------------
(* Type correctness.                                                       *)

\* A provisioned unit, or one from before slot states, is well typed.
LEMMA InitTypeOK == Init => TypeOK
  <1> SUFFICES ASSUME Init PROVE TypeOK
    OBVIOUS
  <1>1. Provisioned \in Stores
    BY TriesAssumption DEF Provisioned, Stores, Marks, Trees, Slots
  <1>2. BeforeStates \subseteq Stores
    <2> SUFFICES ASSUME NEW s \in {"a", NoSlot}
                 PROVE  [Provisioned EXCEPT !.marker = FALSE, !.mark["a"] = "none",
                                            !.active = s] \in Stores
      BY DEF BeforeStates
    <2>1. [Provisioned.mark EXCEPT !["a"] = "none"] \in [Slots -> Marks]
      BY <1>1 DEF Stores, Marks
    <2> QED
      BY <1>1, <2>1 DEF Stores, Slots
  <1>3. NoInstall \in [at : Installs, slot : Slots, keep : BOOLEAN]
    BY DEF NoInstall, Installs, Slots
  <1> QED
    BY <1>1, <1>2, <1>3, TriesMaxAssumption
    DEF Init, TypeOK, Phases, Healths

\* Whatever stops the unit leaves what is not persistent well typed.
LEMMA HaltedType ==
  ASSUME Halted
  PROVE  /\ phase' \in Phases
         /\ booted' \in Slots \cup {NoSlot}
         /\ health' \in Healths
         /\ install' \in [at : Installs, slot : Slots, keep : BOOLEAN]
         /\ shell' \in {"idle", "sync"}
  BY DEF Halted, Phases, Healths, NoInstall, Installs, Slots

\* The initramfs keeps the types.
LEMMA InitramfsTypeOK == TypeOK /\ InitramfsStep => TypeOK'
  <1> SUFFICES ASSUME TypeOK, InitramfsStep PROVE TypeOK'
    OBVIOUS
  <1> USE DEF TypeOK
  <1>1. CASE CountTry
    BY <1>1, TriesMaxAssumption
    DEF CountTry, EnterRescue, TooManyTries, CountedTry, Phases
  <1>2. CASE StoreFails
    BY <1>2 DEF StoreFails, EnterRescue, Phases
  <1>3. CASE RescueMarker
    BY <1>3, CommandStores DEF RescueMarker, EnterRescue, WriteSync, Phases, Slots
  <1>4. CASE StoreReady
    BY <1>4 DEF StoreReady, Phases
  <1>5. CASE Adopt
    BY <1>5, CommandStores DEF Adopt, Write, Phases, Slots
  <1>9. CASE AdoptSync
    BY <1>9 DEF AdoptSync, Sync, Phases
  <1>6. CASE TakeNext
    BY <1>6, NextStores DEF TakeNext, Write, Phases
  <1>7. CASE NoRoot
    BY <1>7 DEF NoRoot, EnterRescue, Sync, Phases
  <1>8. CASE SwitchRoot
    BY <1>8 DEF SwitchRoot, Sync, Phases, Healths
  <1> QED
    BY <1>1, <1>2, <1>3, <1>4, <1>5, <1>6, <1>7, <1>8, <1>9 DEF InitramfsStep

\* boot.sh's watch keeps the types, of the slot that is up.
LEMMA WatchTypeOK == TypeOK /\ WatchStep /\ booted \in Slots => TypeOK'
  <1> SUFFICES ASSUME TypeOK, WatchStep, booted \in Slots PROVE TypeOK'
    OBVIOUS
  <1> USE DEF TypeOK
  <1>1. CASE Healthy
    <2> DEFINE Prove(st) == [st EXCEPT !.proven = @ \cup {booted}, !.vouched = @ \ {booted},
                                       !.tree[booted] = "whole"]
    <2>1. ASSUME NEW st \in Stores PROVE Prove(st) \in Stores
      <3>1. [st.tree EXCEPT ![booted] = "whole"] \in [Slots -> Trees]
        BY DEF Stores, Trees
      <3> QED
        BY <3>1 DEF Stores
    <2>2. disk' \in Stores /\ survivors' \subseteq Stores
      BY <1>1, <2>1 DEF Healthy
    <2> QED
      BY <1>1, <2>2 DEF Healthy, Healths
  <1>2. CASE Commit
    BY <1>2, CommandStores DEF Commit, WriteSync, Healths
  <1>3. CASE ResetCount
    BY <1>3, TriesMaxAssumption DEF ResetCount, Healths
  <1>4. CASE Unhealthy
    BY <1>4, HaltedType DEF Unhealthy, Rebooted, Sync, Healths
  <1> QED
    BY <1>1, <1>2, <1>3, <1>4 DEF WatchStep

\* slotctl install keeps the types, in each of its steps.
LEMMA InstallTypeOK ==
  ASSUME TypeOK, InstallStep \/ \E keep \in BOOLEAN : InstallBegin(keep)
  PROVE  TypeOK'
  <1> USE DEF TypeOK
  <1>1. /\ install.slot \in Slots /\ install.keep \in BOOLEAN
        /\ \A at \in Installs :
              [install EXCEPT !.at = at] \in [at : Installs, slot : Slots, keep : BOOLEAN]
    OBVIOUS
  <1>2. /\ {"none", "remove", "unpack", "arm", "sync", "reboot"} \subseteq Installs
        /\ NoInstall \in [at : Installs, slot : Slots, keep : BOOLEAN]
    BY DEF Installs, NoInstall, Slots
  <1>3. ASSUME NEW keep \in BOOLEAN, InstallBegin(keep) PROVE TypeOK'
    <2>1. InstallTarget(disk) \in Slots
      BY DEF InstallTarget, Other, Slots
    <2> QED
      BY <1>2, <1>3, <2>1, TreeStores DEF InstallBegin, Write
  <1>4. CASE InstallRemove
    <2>1. /\ TreeGone(disk, install.slot) \in Stores
          /\ StateGone(TreeGone(disk, install.slot), install.slot) \in Stores
          /\ Unpacking(StateGone(TreeGone(disk, install.slot), install.slot),
                       install.slot) \in Stores
      BY <1>1, TreeStores
    <2> QED
      BY <1>1, <1>2, <1>4, <2>1 DEF InstallRemove, Write
  <1>5. CASE InstallFail
    BY <1>1, <1>2, <1>5, TreeStores DEF InstallFail, WriteSync
  <1>6. CASE InstallUnpack
    <2>1. /\ Unpacked(disk, install.slot) \in Stores
          /\ LostData(Unpacked(disk, install.slot), install.slot) \subseteq Stores
      BY <1>1, TreeStores, LostDataStores
    <2> QED
      BY <1>1, <1>2, <1>6, <2>1 DEF InstallUnpack, Write
  <1>7. CASE InstallArm
    <2> DEFINE t     == install.slot
               trial == SetTrial(disk, t, TRIES)
               new   == IF install.keep THEN trial ELSE SetActive(trial, t)
    <2>1. TRIES \in 0 .. TRIES /\ "good" \in Marks
      BY TriesAssumption DEF Marks
    <2>2. trial \in Stores
      BY <1>1, <2>1, MarkStores
    <2>3. new \in Stores
      BY <1>1, <2>1, <2>2, MarkStores
    <2>4. LostData(trial, t) \cup LostData(new, t) \subseteq Stores
      BY <1>1, <2>2, <2>3, LostDataStores
    <2>5. disk' \in Stores /\ survivors' \subseteq Stores
      <3> HIDE DEF trial, new
      <3>1. disk' = new /\ survivors' = survivors \cup
                              (LostData(trial, t) \cup LostData(new, t)) \cup {new}
        BY <1>7 DEF InstallArm, Write, trial, new
      <3> QED
        BY <2>3, <2>4, <3>1
    <2> QED
      BY <1>1, <1>2, <1>7, <2>5 DEF InstallArm
  <1>8. CASE InstallSync
    BY <1>1, <1>2, <1>8 DEF InstallSync, Sync
  <1>9. CASE UpdateReboot
    BY <1>9, HaltedType DEF UpdateReboot, Rebooted, Sync
  <1> QED
    BY <1>3, <1>4, <1>5, <1>6, <1>7, <1>8, <1>9 DEF InstallStep

\* A user's commands keep the types.
LEMMA UserTypeOK ==
  ASSUME TypeOK, UserStep, phase = "up" => booted \in Slots
  PROVE  TypeOK'
  <1> USE DEF TypeOK
  <1>1. ASSUME NEW s \in Slots, Switch(s) PROVE TypeOK'
    BY <1>1, CommandStores DEF Switch, Write
  <1>2. CASE Rollback
    BY <1>2, CommandStores DEF Rollback, Write
  <1>3. CASE ShellSync
    BY <1>3 DEF ShellSync, Sync
  <1>4. CASE Reboot
    BY <1>4, HaltedType DEF Reboot, Rebooted, Sync
  <1>5. CASE Retry
    BY <1>5, HaltedType, TriesMaxAssumption DEF Retry, Rebooted, Sync
  <1>6. ASSUME NEW on \in BOOLEAN, Rescue(on) PROVE TypeOK'
    BY <1>6, CommandStores DEF Rescue, WriteSync, Slots
  <1>7. CASE NextByHand
    BY <1>7, NextStores DEF NextByHand, Write
  <1>8. CASE CommitByHand
    BY <1>8, CommandStores DEF CommitByHand, Write
  <1> QED
    BY <1>1, <1>2, <1>3, <1>4, <1>5, <1>6, <1>7, <1>8 DEF UserStep

\* A power cut leaves a store, and a unit that is off.
LEMMA PowerCutTypeOK == TypeOK /\ PowerCut => TypeOK'
  BY HaltedType DEF TypeOK, PowerCut

-----------------------------------------------------------------------------
(* The inductive invariant behind GoodIsProven and RunningRootKept.        *)

\* The disk is one of the stores that may be left; an unadopted store has
\* only the slot its installer left, which is proven.
StoresSafe ==
  /\ disk \in survivors
  /\ GoodIsProven
  /\ \A st \in survivors : ~st.marker => Adoptee(st) \in st.proven

\* slotctl runs on adopted stores only, and an install only in a slot or rescue.
PhaseSafe ==
  /\ phase = "up" => booted \in Slots
  /\ phase \in {"adopt", "next", "switch", "up"} => disk.marker
  /\ install.at # "none" => phase \in {"up", "rescue"} /\ disk.marker

\* The new contents of a slot never go under the mark of the old ones.
InstallUnmarked ==
  install.at \in {"unpack", "arm"} => ~Good(disk, install.slot)

CommitProven ==
  phase = "up" /\ health = "commit" => booted \in disk.proven

SafetyInv ==
  /\ TypeOK
  /\ StoresSafe
  /\ PhaseSafe
  /\ InstallUnmarked
  /\ CommitProven
  /\ RunningRootKept

\* What GoodIsProven asks of one store, which slotctl finds adopted.
WellMarked(st) ==
  /\ st \in Stores
  /\ st.marker
  /\ \A s \in Slots : Good(st, s) => s \in st.proven \cup st.vouched \/ st.tree[s] = "empty"

\* Root r is the same in the two stores.
SameRoot(x, y, r) ==
  /\ y.tree[r] = x.tree[r]
  /\ r \in y.proven <=> r \in x.proven

\* Only the mark good can spoil a well marked store, and a mark leaves the root
\* a slot runs from alone.
LEMMA MarksKeep ==
  ASSUME NEW st, WellMarked(st), NEW s \in Slots,
         NEW m \in Marks \ {"good"}, NEW n \in 0 .. TRIES, NEW r \in Slots
  PROVE  /\ WellMarked(SetMark(st, s, m)) /\ SameRoot(st, SetMark(st, s, m), r)
         /\ WellMarked(SetTrial(st, s, n)) /\ SameRoot(st, SetTrial(st, s, n), r)
         /\ WellMarked(SetActive(st, s)) /\ SameRoot(st, SetActive(st, s), r)
  <1> USE DEF WellMarked
  <1>1. /\ SetMark(st, s, m) \in Stores
        /\ SetTrial(st, s, n) \in Stores
        /\ SetActive(st, s) \in Stores
    BY MarkStores
  <1>2. WellMarked(SetMark(st, s, m)) /\ SameRoot(st, SetMark(st, s, m), r)
    BY <1>1 DEF SetMark, SameRoot, Good, Stores
  <1>3. WellMarked(SetTrial(st, s, n)) /\ SameRoot(st, SetTrial(st, s, n), r)
    BY <1>1 DEF SetTrial, SameRoot, Good, Stores
  <1>4. WellMarked(SetActive(st, s)) /\ SameRoot(st, SetActive(st, s), r)
    BY <1>1 DEF SetActive, SameRoot, Good, Stores
  <1> QED
    BY <1>2, <1>3, <1>4

\* Removing a slot's tree and then its state keeps the store well marked, and
\* the other slot's root.
LEMMA RemovalKeeps ==
  ASSUME NEW st, WellMarked(st), NEW t \in Slots
  PROVE  /\ WellMarked(Gutted(st, t))
         /\ WellMarked(TreeGone(st, t))
         /\ WellMarked(StateGone(st, t)) /\ ~Good(StateGone(st, t), t)
         /\ \A r \in Slots \ {t} : /\ SameRoot(st, Gutted(st, t), r)
                                  /\ SameRoot(st, TreeGone(st, t), r)
                                  /\ SameRoot(st, StateGone(st, t), r)
  <1> USE DEF WellMarked
  <1>1. /\ Gutted(st, t) \in Stores
        /\ TreeGone(st, t) \in Stores
        /\ StateGone(st, t) \in Stores
    BY TreeStores
  <1>2. WellMarked(Gutted(st, t))
    BY <1>1 DEF Gutted, Good, Stores
  <1>3. WellMarked(TreeGone(st, t))
    BY <1>1 DEF TreeGone, Good, Stores
  <1>4. WellMarked(StateGone(st, t)) /\ ~Good(StateGone(st, t), t)
    BY <1>1 DEF StateGone, SetMark, Good, Stores
  <1>5. ASSUME NEW r \in Slots \ {t}
        PROVE  /\ SameRoot(st, Gutted(st, t), r)
               /\ SameRoot(st, TreeGone(st, t), r)
               /\ SameRoot(st, StateGone(st, t), r)
    BY DEF Gutted, TreeGone, StateGone, SetMark, SameRoot, Stores
  <1> QED
    BY <1>2, <1>3, <1>4, <1>5

\* So does unpacking into a slot that is not marked good.
LEMMA UnpackKeeps ==
  ASSUME NEW st, WellMarked(st), NEW t \in Slots, ~Good(st, t)
  PROVE  /\ WellMarked(Unpacking(st, t)) /\ ~Good(Unpacking(st, t), t)
         /\ WellMarked(Unpacked(st, t)) /\ ~Good(Unpacked(st, t), t)
         /\ \A r \in Slots \ {t} : /\ SameRoot(st, Unpacking(st, t), r)
                                  /\ SameRoot(st, Unpacked(st, t), r)
  <1> USE DEF WellMarked
  <1>1. Unpacking(st, t) \in Stores /\ Unpacked(st, t) \in Stores
    BY TreeStores
  <1>2. WellMarked(Unpacking(st, t)) /\ ~Good(Unpacking(st, t), t)
    BY <1>1 DEF Unpacking, Good, Stores
  <1>3. WellMarked(Unpacked(st, t)) /\ ~Good(Unpacked(st, t), t)
    BY <1>1 DEF Unpacked, Good, Stores
  <1>4. ASSUME NEW r \in Slots \ {t}
        PROVE  /\ SameRoot(st, Unpacking(st, t), r)
               /\ SameRoot(st, Unpacked(st, t), r)
    BY DEF Unpacking, Unpacked, SameRoot, Stores
  <1> QED
    BY <1>2, <1>3, <1>4

\* So does the loss of that slot's data, or of its state.
LEMMA LostDataKeeps ==
  ASSUME NEW st, WellMarked(st), NEW t \in Slots, ~Good(st, t)
  PROVE  \A x \in LostData(st, t) :
           WellMarked(x) /\ \A r \in Slots \ {t} : SameRoot(st, x, r)
  <1>1. WellMarked(StateGone(st, t)) /\ ~Good(StateGone(st, t), t)
    BY RemovalKeeps
  <1>2. /\ WellMarked(Unpacking(st, t))
        /\ WellMarked(Unpacking(StateGone(st, t), t))
    BY <1>1, UnpackKeeps
  <1>3. ASSUME NEW r \in Slots \ {t}
        PROVE  /\ SameRoot(st, StateGone(st, t), r)
               /\ SameRoot(st, Unpacking(st, t), r)
               /\ SameRoot(StateGone(st, t), Unpacking(StateGone(st, t), t), r)
               /\ SameRoot(st, st, r)
    BY <1>1, RemovalKeeps, UnpackKeeps DEF SameRoot
  <1>4. ASSUME NEW r \in Slots \ {t}
        PROVE  SameRoot(st, Unpacking(StateGone(st, t), t), r)
    BY <1>3 DEF SameRoot
  <1> QED
    BY <1>1, <1>2, <1>3, <1>4 DEF LostData

\* slotctl next marks no slot good, and leaves every root as it is.
LEMMA NextKeeps ==
  ASSUME NEW st, WellMarked(st)
  PROVE  WellMarked(NextMarked(st)) /\ WellMarked(NextStore(st))
  <1>1. st \in Stores
    BY DEF WellMarked
  <1>2. WellMarked(NextMarked(st))
    <2>1. CASE st.active = NoSlot \/ ~OnTrial(st, st.active)
      BY <2>1 DEF NextMarked
    <2>2. CASE ~(st.active = NoSlot \/ ~OnTrial(st, st.active))
      <3>1. st.active \in Slots
        BY <1>1, <2>2 DEF Stores
      <3>2. st.left[st.active] \in 0 .. TRIES
        BY <1>1, <3>1 DEF Stores
      <3>3. st.left[st.active] > 0 => st.left[st.active] - 1 \in 0 .. TRIES
        BY <3>2, TriesAssumption
      <3>4. "bad" \in Marks \ {"good"} /\ 0 \in 0 .. TRIES
        BY TriesAssumption DEF Marks
      <3> QED
        BY <2>2, <3>1, <3>3, <3>4, MarksKeep DEF NextMarked
    <2> QED
      BY <2>1, <2>2
  <1>3. WellMarked(NextStore(st))
    <2>1. NextSlot(st) # NoSlot => NextSlot(st) \in Slots
      BY <1>1, NextStores
    <2>2. "bad" \in Marks \ {"good"} /\ 0 \in 0 .. TRIES
      BY TriesAssumption DEF Marks
    <2> QED
      BY <1>2, <2>1, <2>2, MarksKeep DEF NextStore
  <1> QED
    BY <1>2, <1>3

LEMMA NextKeepsRoots ==
  ASSUME NEW st \in Stores, NEW r \in Slots
  PROVE  /\ SameRoot(st, NextMarked(st), r) /\ SameRoot(st, NextStore(st), r)
         /\ Good(NextStore(st), r) => Good(st, r)
  <1>1. /\ SameRoot(st, NextMarked(st), r)
        /\ Good(NextMarked(st), r) => Good(st, r)
    BY DEF NextMarked, SetTrial, SetMark, SameRoot, Good, Stores
  <1>2. NextMarked(st) \in Stores
    BY NextStores
  <1>3. \A s : /\ SetActive(NextMarked(st), s).tree = NextMarked(st).tree
               /\ SetActive(NextMarked(st), s).proven = NextMarked(st).proven
               /\ SetActive(NextMarked(st), s).mark = NextMarked(st).mark
    BY <1>2 DEF SetActive, Stores
  <1> QED
    BY <1>1, <1>3 DEF NextStore, SameRoot, Good

\* A user's commit vouches for the slot it marks good.
LEMMA VouchedKeeps ==
  ASSUME NEW st, WellMarked(st), NEW s \in Slots, NEW r \in Slots
  PROVE  /\ WellMarked(VouchedStore(st, s)) /\ SameRoot(st, VouchedStore(st, s), r)
         /\ Good(VouchedStore(st, s), r) => Good(st, r) \/ r = s
  <1>1. VouchedStore(st, s) \in Stores
    BY CommandStores DEF WellMarked
  <1>2. CASE ~OnTrial(st, s)
    BY <1>2 DEF VouchedStore, SameRoot
  <1>3. CASE OnTrial(st, s)
    <2>1. /\ VouchedStore(st, s).mark = [st.mark EXCEPT ![s] = "good"]
          /\ VouchedStore(st, s).vouched = (st.vouched \ {s}) \cup ({s} \ st.proven)
          /\ VouchedStore(st, s).proven = st.proven
          /\ VouchedStore(st, s).tree = st.tree
          /\ VouchedStore(st, s).marker = st.marker
      BY <1>3 DEF VouchedStore, SetMark, WellMarked, Stores
    <2> QED
      BY <1>1, <2>1 DEF WellMarked, SameRoot, Good, Stores
  <1> QED
    BY <1>2, <1>3

\* The slot an unadopted store is adopted with is proven.
LEMMA AdoptKeeps ==
  ASSUME NEW st \in Stores, ~st.marker, Adoptee(st) \in st.proven,
         \A s \in Slots : Good(st, s) => s \in st.proven \cup st.vouched \/ st.tree[s] = "empty"
  PROVE  WellMarked(AdoptMarked(st)) /\ WellMarked(AdoptStore(st))
  <1>1. AdoptMarked(st) \in Stores /\ AdoptStore(st) \in Stores
    BY CommandStores DEF Slots
  <1>2. WellMarked(AdoptMarked(st))
    BY <1>1 DEF WellMarked, AdoptMarked, Good, Stores
  <1>3. Adoptee(st) \in Slots
    BY DEF Adoptee, Slots, Stores
  <1>4. WellMarked(AdoptStore(st))
    <2>1. CASE st.mark[Adoptee(st)] # "none"
      BY <1>2, <2>1 DEF AdoptStore
    <2>2. CASE st.mark[Adoptee(st)] = "none"
      BY <1>1, <1>2, <1>3, <2>2
      DEF AdoptStore, AdoptMarked, SetMark, WellMarked, Good, Stores
    <2> QED
      BY <2>1, <2>2
  <1> QED
    BY <1>2, <1>4

\* A step within a boot that turns the disk into a well marked store with a
\* root untouched, the booted one if there is one, and may leave only such
\* stores, keeps the store safe.
LEMMA WriteSafe ==
  ASSUME SafetyInv, NEW r \in Slots, phase = "up" => r = booted,
         phase' = phase, booted' = booted,
         disk' \in survivors', WellMarked(disk'), SameRoot(disk, disk', r),
         \A x \in survivors' :
           x \in survivors \/ (WellMarked(x) /\ SameRoot(disk, x, r)),
         install'.at # "none" => install'.slot # r
  PROVE  StoresSafe' /\ RunningRootKept'
  <1> USE DEF SafetyInv
  <1>1. StoresSafe'
    BY DEF StoresSafe, GoodIsProven, WellMarked
  <1>2. CASE phase = "up"
    <2>1. \A x \in survivors : SameRoot(disk, x, r)
      BY <1>2 DEF RunningRootKept, SameRoot
    <2>2. \A x \in survivors' : SameRoot(disk', x, r)
      BY <2>1 DEF SameRoot
    <2>3. RunningRootKept'
      BY <1>2, <2>2 DEF RunningRootKept, SameRoot
    <2> QED
      BY <1>1, <2>3
  <1>3. CASE phase # "up"
    BY <1>1, <1>3 DEF RunningRootKept
  <1> QED
    BY <1>2, <1>3

\* A safe unit's adopted store, as it is read, is well marked.
LEMMA DiskWellMarked == SafetyInv /\ disk.marker => WellMarked(disk)
  BY DEF SafetyInv, StoresSafe, GoodIsProven, WellMarked, TypeOK

\* The unit starts safe.
LEMMA InitSafe == Init => SafetyInv
  <1> SUFFICES ASSUME Init PROVE SafetyInv
    OBVIOUS
  <1>1. TypeOK
    BY InitTypeOK
  <1>2. disk = Provisioned \/ \E s \in {"a", NoSlot} :
          disk = [Provisioned EXCEPT !.marker = FALSE, !.mark["a"] = "none", !.active = s]
    BY DEF Init, BeforeStates
  <1>7. /\ Provisioned \in Stores
        /\ Provisioned.proven = {"a"} /\ Provisioned.mark["b"] = "none"
        /\ Provisioned.active = "a"
    BY TriesAssumption DEF Provisioned, Stores, Marks, Trees, Slots
  <1>8. /\ disk.proven = {"a"} /\ disk.mark["b"] = "none"
        /\ disk.active \in {"a", NoSlot}
    <2>1. CASE disk = Provisioned
      BY <1>7, <2>1
    <2>2. ASSUME NEW s \in {"a", NoSlot},
                 disk = [Provisioned EXCEPT !.marker = FALSE, !.mark["a"] = "none",
                                            !.active = s]
          PROVE  /\ disk.proven = {"a"} /\ disk.mark["b"] = "none"
                 /\ disk.active = s
      <3>1. "a" # "b" /\ "b" \in Slots
        BY DEF Slots
      <3> QED
        BY <1>7, <2>2, <3>1 DEF Stores
    <2> QED
      BY <1>2, <2>1, <2>2
  <1>4. \A s \in Slots : Good(disk, s) => s \in disk.proven
    BY <1>8 DEF Good, Slots
  <1>5. ~disk.marker => Adoptee(disk) \in disk.proven
    BY <1>8 DEF Adoptee
  <1>6. StoresSafe
    BY <1>4, <1>5 DEF Init, StoresSafe, GoodIsProven
  <1>3. PhaseSafe /\ InstallUnmarked /\ CommitProven /\ RunningRootKept
    BY DEF Init, PhaseSafe, InstallUnmarked, CommitProven, RunningRootKept, NoInstall
  <1> QED
    BY <1>1, <1>3, <1>6 DEF SafetyInv

\* A stopped unit: what it leaves is one of the stores that were safe.
LEMMA StopSafe ==
  ASSUME SafetyInv, TypeOK', Halted, disk' \in survivors, survivors' = {disk'}
  PROVE  SafetyInv'
  <1>1. StoresSafe'
    BY DEF SafetyInv, StoresSafe, GoodIsProven
  <1>2. PhaseSafe' /\ InstallUnmarked' /\ CommitProven' /\ RunningRootKept'
    BY DEF Halted, NoInstall, PhaseSafe, InstallUnmarked, CommitProven, RunningRootKept
  <1> QED
    BY <1>1, <1>2 DEF SafetyInv

\* A reboot, which syncs, is safe.
LEMMA RebootedSafe == SafetyInv /\ TypeOK' /\ Rebooted => SafetyInv'
  BY StopSafe DEF Rebooted, Sync, SafetyInv, StoresSafe

\* No step of the initramfs marks an unproven slot good or touches a tree.
LEMMA InitramfsSafe == SafetyInv /\ InitramfsStep => SafetyInv'
  <1> SUFFICES ASSUME SafetyInv, InitramfsStep PROVE SafetyInv'
    OBVIOUS
  <1>1. TypeOK'
    BY InitramfsTypeOK DEF SafetyInv
  <1>2. CASE CountTry
    BY <1>1, <1>2 DEF CountTry, EnterRescue, SafetyInv, StoresSafe, PhaseSafe,
       InstallUnmarked, CommitProven, RunningRootKept, GoodIsProven
  <1>3. CASE StoreFails
    BY <1>1, <1>3 DEF StoreFails, EnterRescue, SafetyInv, StoresSafe, PhaseSafe,
       InstallUnmarked, CommitProven, RunningRootKept, GoodIsProven
  <1>4. CASE RescueMarker
    <2>1. StoresSafe'
      BY <1>4 DEF RescueMarker, WriteSync, RescueStore, SafetyInv, TypeOK, Stores,
         StoresSafe, GoodIsProven, Good, Adoptee
    <2> QED
      BY <1>1, <1>4, <2>1 DEF RescueMarker, EnterRescue, SafetyInv, PhaseSafe,
         InstallUnmarked, CommitProven, RunningRootKept
  <1>5. CASE StoreReady
    BY <1>1, <1>5 DEF StoreReady, SafetyInv, StoresSafe, PhaseSafe,
       InstallUnmarked, CommitProven, RunningRootKept, GoodIsProven
  <1>6. CASE SwitchRoot
    BY <1>1, <1>6 DEF SwitchRoot, Sync, SafetyInv, TypeOK, StoresSafe, PhaseSafe,
       InstallUnmarked, CommitProven, RunningRootKept, GoodIsProven
  <1>7. CASE NoRoot
    BY <1>1, <1>7 DEF NoRoot, EnterRescue, Sync, SafetyInv, StoresSafe, PhaseSafe,
       InstallUnmarked, CommitProven, RunningRootKept, GoodIsProven
  <1>8. CASE Adopt
    <2>1. WellMarked(AdoptMarked(disk)) /\ WellMarked(AdoptStore(disk))
      BY <1>8, AdoptKeeps DEF Adopt, SafetyInv, StoresSafe, GoodIsProven, TypeOK
    <2>2. StoresSafe' /\ disk'.marker
      BY <1>8, <2>1 DEF Adopt, Write, SafetyInv, StoresSafe, GoodIsProven, WellMarked
    <2> QED
      BY <1>1, <1>8, <2>2 DEF Adopt, SafetyInv, PhaseSafe, InstallUnmarked,
         CommitProven, RunningRootKept
  <1>10. CASE AdoptSync
    BY <1>1, <1>10 DEF AdoptSync, Sync, SafetyInv, StoresSafe, PhaseSafe,
       InstallUnmarked, CommitProven, RunningRootKept, GoodIsProven
  <1>9. CASE TakeNext
    <2>1. WellMarked(NextMarked(disk)) /\ WellMarked(NextStore(disk))
      BY <1>9, NextKeeps, DiskWellMarked DEF TakeNext, SafetyInv, PhaseSafe
    <2>2. StoresSafe' /\ disk'.marker
      BY <1>9, <2>1 DEF TakeNext, Write, SafetyInv, StoresSafe, GoodIsProven, WellMarked
    <2> QED
      BY <1>1, <1>9, <2>2 DEF TakeNext, SafetyInv, PhaseSafe, InstallUnmarked,
         CommitProven, RunningRootKept
  <1> QED
    BY <1>2, <1>3, <1>4, <1>5, <1>6, <1>7, <1>8, <1>9, <1>10 DEF InitramfsStep

\* boot.sh commits only the slot it has just seen healthy.
LEMMA WatchSafe == SafetyInv /\ WatchStep => SafetyInv'
  <1> SUFFICES ASSUME SafetyInv, WatchStep PROVE SafetyInv'
    OBVIOUS
  <1>1. phase = "up" /\ booted \in Slots /\ disk.marker
    BY DEF WatchStep, Healthy, Commit, ResetCount, Unhealthy, SafetyInv, PhaseSafe
  <1>2. TypeOK'
    BY <1>1, WatchTypeOK DEF SafetyInv
  <1>3. CASE Healthy
    <2> DEFINE Prove(st) == [st EXCEPT !.proven = @ \cup {booted}, !.vouched = @ \ {booted},
                                       !.tree[booted] = "whole"]
    <2>1. disk' = Prove(disk) /\ survivors' = {Prove(st) : st \in survivors}
      BY <1>3 DEF Healthy
    <2>2. ASSUME NEW st \in survivors
          PROVE  /\ \A s \in Slots : Good(Prove(st), s) =>
                       s \in Prove(st).proven \cup Prove(st).vouched \/ Prove(st).tree[s] = "empty"
                 /\ ~Prove(st).marker => Adoptee(Prove(st)) \in Prove(st).proven
                 /\ Prove(st).tree[booted] = "whole"
                 /\ booted \in Prove(st).proven
                 /\ Prove(st).mark = st.mark /\ Prove(st).marker = st.marker
      BY <1>1 DEF SafetyInv, TypeOK, Stores, StoresSafe, GoodIsProven, Good, Adoptee
    <2>4. disk \in survivors
      BY DEF SafetyInv, StoresSafe
    <2>3. StoresSafe'
      <3> HIDE DEF Prove
      <3>1. disk' \in survivors'
        BY <2>1, <2>4
      <3>2. \A x \in survivors' : \E st \in survivors : x = Prove(st)
        BY <2>1
      <3>3. GoodIsProven'
        BY <2>2, <3>2 DEF GoodIsProven
      <3>4. \A x \in survivors' : ~x.marker => Adoptee(x) \in x.proven
        BY <2>2, <3>2
      <3> QED
        BY <3>1, <3>3, <3>4 DEF StoresSafe
    <2>5. RunningRootKept'
      <3>1. /\ install' = install /\ booted' = booted
            /\ install.at # "none" => install.slot # booted
        BY <1>1, <1>3 DEF Healthy, SafetyInv, RunningRootKept
      <3> QED
        BY <2>1, <2>2, <2>4, <3>1 DEF RunningRootKept
    <2>6. InstallUnmarked' /\ CommitProven' /\ PhaseSafe'
      BY <1>1, <1>3, <2>1, <2>2, <2>4
      DEF Healthy, SafetyInv, InstallUnmarked, CommitProven, PhaseSafe, Good
    <2> QED
      BY <1>2, <2>3, <2>5, <2>6 DEF SafetyInv
  <1>4. CASE Commit
    <2>1. CASE OnTrial(disk, booted)
      <3> DEFINE new == SetMark(disk, booted, "good")
      <3>1. booted \in disk.proven /\ WellMarked(disk)
        BY <1>1, <1>4, DiskWellMarked DEF Commit, SafetyInv, CommitProven
      <3>2. /\ WellMarked(new) /\ SameRoot(disk, new, booted)
            /\ \A s \in Slots \ {booted} : Good(new, s) <=> Good(disk, s)
        <4>1. new \in Stores
          BY <1>1, <3>1, MarkStores, TriesAssumption DEF WellMarked, Marks
        <4> QED
          BY <1>1, <3>1, <4>1 DEF WellMarked, SameRoot, SetMark, Good, Stores
      <3>3. WriteSync(new) /\ install' = install /\ phase' = phase
            /\ booted' = booted /\ health' = "reset"
        BY <1>4, <2>1 DEF Commit, CommitStore
      <3>4. install.at # "none" => install.slot # booted
        BY <1>1 DEF SafetyInv, RunningRootKept
      <3>5. StoresSafe' /\ RunningRootKept' /\ disk'.marker
        <4> HIDE DEF new
        <4>1. disk' = new /\ survivors' = {new}
          BY <3>3 DEF WriteSync
        <4> QED
          BY <1>1, <3>2, <3>3, <3>4, <4>1, WriteSafe DEF WellMarked
      <3>6. InstallUnmarked'
        BY <3>2, <3>3, <3>4 DEF SafetyInv, InstallUnmarked, WriteSync, TypeOK
      <3> QED
        BY <1>1, <1>2, <3>3, <3>5, <3>6 DEF SafetyInv, CommitProven, PhaseSafe
    <2>2. CASE ~OnTrial(disk, booted)
      BY <1>2, <1>4, <2>2 DEF Commit, SafetyInv, StoresSafe, PhaseSafe,
         InstallUnmarked, CommitProven, RunningRootKept, GoodIsProven
    <2> QED
      BY <2>1, <2>2
  <1>5. CASE ResetCount
    BY <1>2, <1>5 DEF ResetCount, SafetyInv, StoresSafe, PhaseSafe,
       InstallUnmarked, CommitProven, RunningRootKept, GoodIsProven
  <1>6. CASE Unhealthy
    <2>1. CASE OnTrial(disk, booted)
      BY <1>2, <1>6, <2>1, RebootedSafe DEF Unhealthy
    <2>2. CASE ~OnTrial(disk, booted)
      BY <1>2, <1>6, <2>2 DEF Unhealthy, SafetyInv, StoresSafe, PhaseSafe,
         InstallUnmarked, CommitProven, RunningRootKept, GoodIsProven
    <2> QED
      BY <2>1, <2>2
  <1> QED
    BY <1>3, <1>4, <1>5, <1>6 DEF WatchStep

\* An install in any state the invariant allows works beside the running root.
LEMMA InstallSafe ==
  ASSUME SafetyInv, InstallStep \/ \E keep \in BOOLEAN : InstallBegin(keep)
  PROVE  SafetyInv'
  <1>1. TypeOK'
    BY InstallTypeOK DEF SafetyInv
  <1>2. /\ phase \in {"up", "rescue"} /\ (phase = "up" => booted \in Slots)
        /\ disk.marker /\ WellMarked(disk)
    BY DiskWellMarked
    DEF InstallStep, InstallBegin, InstallRemove, InstallFail, InstallUnpack,
        InstallArm, InstallSync, UpdateReboot, AtShell, SafetyInv, PhaseSafe
  \* The root that stays as it is: the one booted, or in rescue the other one.
  <1>4. \A t \in Slots : (phase = "up" => t # booted) =>
            \E r \in Slots : r # t /\ (phase = "up" => r = booted)
    <2>1. \A t \in Slots : \E r \in Slots : r # t
      BY DEF Slots
    <2> QED
      BY <1>2, <2>1
  <1>12. install.slot \in Slots
    BY DEF SafetyInv, TypeOK
  <1>3. PICK r \in Slots : /\ phase = "up" => r = booted
                           /\ install.at # "none" => install.slot # r
    <2>1. CASE phase = "up"
      BY <1>2, <2>1 DEF SafetyInv, RunningRootKept
    <2>2. CASE phase # "up"
      BY <1>4, <1>12, <2>2
    <2> QED
      BY <2>1, <2>2
  <1>5. ASSUME NEW keep \in BOOLEAN, InstallBegin(keep) PROVE SafetyInv'
    <2> DEFINE t == InstallTarget(disk)
    <2>1. t \in Slots /\ t # booted
      BY <1>5 DEF InstallBegin, NotRunning, InstallTarget, Other, Slots
    <2>6. PICK q \in Slots : q # t /\ (phase = "up" => q = booted)
      BY <1>4, <2>1
    <2>2. WellMarked(Gutted(disk, t)) /\ SameRoot(disk, Gutted(disk, t), q)
      BY <1>2, <2>1, <2>6, RemovalKeeps
    <2>3. /\ disk' = Gutted(disk, t)
          /\ survivors' = survivors \cup {Gutted(disk, t)}
          /\ install' = [at |-> "remove", slot |-> t, keep |-> keep]
          /\ phase' = phase /\ booted' = booted /\ health' = health
      BY <1>5 DEF InstallBegin, Write
    <2>4. StoresSafe' /\ RunningRootKept'
      BY <2>2, <2>3, <2>6, WriteSafe
    <2>5. disk'.marker /\ (q \in disk'.proven <=> q \in disk.proven)
      BY <2>2, <2>3 DEF WellMarked, SameRoot
    <2> QED
      BY <1>1, <1>2, <2>3, <2>4, <2>5, <2>6
      DEF SafetyInv, PhaseSafe, InstallUnmarked, CommitProven
  <1>6. CASE InstallRemove
    <2> DEFINE t    == install.slot
               tree == TreeGone(disk, t)
               gone == StateGone(tree, t)
               new  == Unpacking(gone, t)
    <2>1. t \in Slots /\ t # r
      BY <1>3, <1>12, <1>6 DEF InstallRemove
    <2>2. WellMarked(tree) /\ SameRoot(disk, tree, r)
      BY <1>2, <2>1, RemovalKeeps
    <2>3. WellMarked(gone) /\ ~Good(gone, t) /\ SameRoot(tree, gone, r)
      BY <1>2, <2>1, <2>2, RemovalKeeps
    <2>4. WellMarked(new) /\ ~Good(new, t) /\ SameRoot(gone, new, r)
      BY <1>2, <2>1, <2>3, UnpackKeeps
    <2>5. SameRoot(disk, gone, r) /\ SameRoot(disk, new, r)
      BY <2>2, <2>3, <2>4 DEF SameRoot
    <2>6. /\ disk' = new
          /\ survivors' = survivors \cup {tree, gone} \cup {new}
          /\ install' = [install EXCEPT !.at = "unpack"]
          /\ phase' = phase /\ booted' = booted /\ health' = health
      BY <1>6 DEF InstallRemove, Write
    <2>7. install'.slot = t
      BY <2>6 DEF SafetyInv, TypeOK
    <2> HIDE DEF tree, gone, new
    <2>8. StoresSafe' /\ RunningRootKept'
      BY <1>3, <2>1, <2>2, <2>3, <2>4, <2>5, <2>6, <2>7, WriteSafe
    <2>9. disk'.marker /\ (r \in disk'.proven <=> r \in disk.proven)
      BY <2>4, <2>5, <2>6 DEF WellMarked, SameRoot
    <2> QED
      BY <1>1, <1>2, <1>3, <2>4, <2>6, <2>7, <2>8, <2>9
      DEF SafetyInv, PhaseSafe, InstallUnmarked, CommitProven
  <1>7. CASE InstallFail
    <2> DEFINE new == TreeGone(disk, install.slot)
    <2>1. WellMarked(new) /\ SameRoot(disk, new, r)
      BY <1>2, <1>3, <1>12, <1>7, RemovalKeeps DEF InstallFail
    <2>2. /\ disk' = new /\ survivors' = {new} /\ install' = NoInstall
          /\ phase' = phase /\ booted' = booted /\ health' = health
      BY <1>7 DEF InstallFail, WriteSync
    <2> HIDE DEF new
    <2>3. install'.at = "none"
      BY <2>2 DEF NoInstall
    <2>4. StoresSafe' /\ RunningRootKept'
      BY <1>3, <2>1, <2>2, <2>3, WriteSafe
    <2>5. disk'.marker /\ (r \in disk'.proven <=> r \in disk.proven)
      BY <2>1, <2>2 DEF WellMarked, SameRoot
    <2> QED
      BY <1>1, <1>2, <1>3, <2>2, <2>3, <2>4, <2>5
      DEF SafetyInv, PhaseSafe, InstallUnmarked, CommitProven
  <1>8. CASE InstallUnpack
    <2> DEFINE t   == install.slot
               new == Unpacked(disk, t)
    <2>1. t \in Slots /\ t # r /\ ~Good(disk, t)
      BY <1>3, <1>12, <1>8 DEF InstallUnpack, SafetyInv, InstallUnmarked
    <2>2. WellMarked(new) /\ ~Good(new, t) /\ SameRoot(disk, new, r)
      BY <1>2, <2>1, UnpackKeeps
    <2>3. \A x \in LostData(new, t) : WellMarked(x) /\ SameRoot(new, x, r)
      BY <1>2, <2>1, <2>2, LostDataKeeps
    <2>4. /\ disk' = new
          /\ survivors' = survivors \cup LostData(new, t) \cup {new}
          /\ install' = [install EXCEPT !.at = "arm"]
          /\ phase' = phase /\ booted' = booted /\ health' = health
      BY <1>8 DEF InstallUnpack, Write
    <2>5. install'.slot = t
      BY <2>4 DEF SafetyInv, TypeOK
    <2> HIDE DEF new
    <2>6. \A x \in survivors' :
            x \in survivors \/ (WellMarked(x) /\ SameRoot(disk, x, r))
      BY <2>2, <2>3, <2>4 DEF SameRoot
    <2>7. StoresSafe' /\ RunningRootKept'
      BY <1>3, <2>1, <2>2, <2>4, <2>5, <2>6, WriteSafe
    <2>8. disk'.marker /\ (r \in disk'.proven <=> r \in disk.proven)
      BY <2>2, <2>4 DEF WellMarked, SameRoot
    <2> QED
      BY <1>1, <1>2, <1>3, <2>2, <2>4, <2>5, <2>7, <2>8
      DEF SafetyInv, PhaseSafe, InstallUnmarked, CommitProven
  <1>9. CASE InstallArm
    <2> DEFINE t     == install.slot
               trial == SetTrial(disk, t, TRIES)
               new   == IF install.keep THEN trial ELSE SetActive(trial, t)
    <2>1. t \in Slots /\ t # r /\ TRIES \in 0 .. TRIES
      BY <1>3, <1>12, <1>9, TriesAssumption DEF InstallArm
    <2>2. "none" \in Marks \ {"good"}
      BY DEF Marks
    <2>3. /\ WellMarked(trial) /\ SameRoot(disk, trial, r)
          /\ ~Good(trial, t)
      <3>1. ~Good(trial, t)
        BY <1>2, <2>1 DEF SetTrial, Good, WellMarked, Stores
      <3> QED
        BY <1>2, <2>1, <2>2, <3>1, MarksKeep
    <2>4. WellMarked(new) /\ SameRoot(trial, new, r) /\ ~Good(new, t)
      <3>1. ~Good(SetActive(trial, t), t)
        BY <2>3 DEF SetActive, Good, WellMarked, Stores
      <3>2. SameRoot(trial, trial, r)
        BY DEF SameRoot
      <3> HIDE DEF trial
      <3> QED
        BY <1>2, <2>1, <2>2, <2>3, <3>1, <3>2, MarksKeep
    <2>5. /\ disk' = new
          /\ survivors' = survivors \cup (LostData(trial, t) \cup LostData(new, t))
                                   \cup {new}
          /\ install' = [install EXCEPT !.at = "sync"]
          /\ phase' = phase /\ booted' = booted /\ health' = health
      BY <1>9 DEF InstallArm, Write
    <2>6. install'.slot = t /\ install'.at = "sync"
      BY <2>5 DEF SafetyInv, TypeOK
    <2> HIDE DEF trial, new
    <2>7. \A x \in LostData(trial, t) : WellMarked(x) /\ SameRoot(trial, x, r)
      BY <1>2, <2>1, <2>3, LostDataKeeps
    <2>8. \A x \in LostData(new, t) : WellMarked(x) /\ SameRoot(new, x, r)
      BY <1>2, <2>1, <2>4, LostDataKeeps
    <2>9. /\ SameRoot(disk, new, r)
          /\ \A x \in survivors' :
               x \in survivors \/ (WellMarked(x) /\ SameRoot(disk, x, r))
      BY <2>3, <2>4, <2>5, <2>7, <2>8 DEF SameRoot
    <2>10. StoresSafe' /\ RunningRootKept'
      BY <1>3, <2>1, <2>4, <2>5, <2>6, <2>9, WriteSafe
    <2>11. disk'.marker /\ (r \in disk'.proven <=> r \in disk.proven)
      BY <2>4, <2>5, <2>9 DEF WellMarked, SameRoot
    <2> QED
      BY <1>1, <1>2, <1>3, <2>5, <2>6, <2>10, <2>11
      DEF SafetyInv, PhaseSafe, InstallUnmarked, CommitProven
  <1>10. CASE InstallSync
    <2>1. /\ disk' = disk /\ survivors' = {disk}
          /\ phase' = phase /\ booted' = booted /\ health' = health
          /\ install'.at \in {"none", "reboot"}
          /\ install'.at # "none" => install'.slot = install.slot
      BY <1>10 DEF InstallSync, Sync, NoInstall, SafetyInv, TypeOK
    <2>2. install.at = "sync"
      BY <1>10 DEF InstallSync
    <2>4. SameRoot(disk, disk, r)
      BY DEF SameRoot
    <2>3. StoresSafe' /\ RunningRootKept'
      BY <1>2, <1>3, <2>1, <2>2, <2>4, WriteSafe
    <2> QED
      BY <1>1, <1>2, <1>3, <2>1, <2>3
      DEF SafetyInv, PhaseSafe, InstallUnmarked, CommitProven
  <1>11. CASE UpdateReboot
    BY <1>1, <1>11, RebootedSafe DEF UpdateReboot
  <1> QED
    BY <1>5, <1>6, <1>7, <1>8, <1>9, <1>10, <1>11 DEF InstallStep

\* slotctl switch, and what may be lost of its writes, keeps marks and roots.
LEMMA SwitchKeeps ==
  ASSUME NEW st, WellMarked(st), NEW s \in Slots, NEW r \in Slots
  PROVE  /\ WellMarked(SwitchMarked(st, s)) /\ SameRoot(st, SwitchMarked(st, s), r)
         /\ WellMarked(SwitchStore(st, s)) /\ SameRoot(st, SwitchStore(st, s), r)
         /\ \A x \in SwitchLost(st, s) : WellMarked(x) /\ SameRoot(st, x, r)
         /\ \A t \in Slots : Good(SwitchStore(st, s), t) => Good(st, t)
  <1>1. "none" \in Marks \ {"good"} /\ 0 \in 0 .. TRIES /\ TRIES \in 0 .. TRIES
    BY TriesAssumption DEF Marks
  <1>2. WellMarked(SwitchMarked(st, s)) /\ SameRoot(st, SwitchMarked(st, s), r)
    BY <1>1, MarksKeep DEF SwitchMarked, SameRoot
  <1>3. WellMarked(SwitchStore(st, s)) /\ SameRoot(st, SwitchStore(st, s), r)
    <2>1. SameRoot(SwitchMarked(st, s), SwitchStore(st, s), r)
      BY <1>1, <1>2, MarksKeep DEF SwitchStore
    <2> QED
      BY <1>1, <1>2, <2>1, MarksKeep DEF SwitchStore, SameRoot
  <1>4. \A x \in SwitchLost(st, s) : WellMarked(x) /\ SameRoot(st, x, r)
    BY <1>1, MarksKeep DEF SwitchLost
  <1>5. \A t \in Slots : Good(SwitchStore(st, s), t) => Good(st, t)
    BY DEF SwitchStore, SwitchMarked, SetActive, SetTrial, Good, OnTrial, WellMarked,
           Stores
  <1> QED
    BY <1>2, <1>3, <1>4, <1>5

\* So does slotctl rollback.
LEMMA RollbackKeeps ==
  ASSUME NEW st, WellMarked(st), NEW s \in Slots, NEW r \in Slots
  PROVE  /\ WellMarked(RollbackMarked(st, s)) /\ SameRoot(st, RollbackMarked(st, s), r)
         /\ WellMarked(RollbackStore(st, s)) /\ SameRoot(st, RollbackStore(st, s), r)
         /\ \A t \in Slots : Good(RollbackStore(st, s), t) => Good(st, t)
  <1>1. "bad" \in Marks \ {"good"} /\ 0 \in 0 .. TRIES /\ Other(s) \in Slots
    BY TriesAssumption DEF Marks, Other, Slots
  <1>2. WellMarked(RollbackMarked(st, s)) /\ SameRoot(st, RollbackMarked(st, s), r)
    BY <1>1, MarksKeep DEF RollbackMarked
  <1>3. WellMarked(RollbackStore(st, s)) /\ SameRoot(st, RollbackStore(st, s), r)
    <2>1. SameRoot(RollbackMarked(st, s), RollbackStore(st, s), r)
      BY <1>1, <1>2, MarksKeep DEF RollbackStore
    <2> QED
      BY <1>1, <1>2, <2>1, MarksKeep DEF RollbackStore, SameRoot
  <1>4. \A t \in Slots : Good(RollbackStore(st, s), t) => Good(st, t)
    BY DEF RollbackStore, RollbackMarked, SetActive, SetMark, Good, WellMarked, Stores
  <1> QED
    BY <1>2, <1>3, <1>4

\* So does the rescue marker.
LEMMA RescueKeeps ==
  ASSUME NEW st, WellMarked(st), NEW on \in BOOLEAN, NEW r \in Slots
  PROVE  /\ WellMarked(RescueStore(st, on)) /\ SameRoot(st, RescueStore(st, on), r)
         /\ \A t \in Slots : Good(RescueStore(st, on), t) <=> Good(st, t)
  BY DEF RescueStore, SameRoot, Good, WellMarked, Stores

\* A user's command marks no slot good but the running one, and touches no tree.
LEMMA CommandSafe ==
  ASSUME SafetyInv, TypeOK', disk.marker, phase \in {"up", "rescue"},
         UNCHANGED <<phase, booted, health, install>>,
         disk' \in survivors', WellMarked(disk'),
         \A t \in Slots : Good(disk', t) => Good(disk, t) \/ (phase = "up" /\ t = booted),
         \A r \in Slots : SameRoot(disk, disk', r),
         \A x \in survivors' : x \in survivors \/
             (WellMarked(x) /\ \A r \in Slots : SameRoot(disk, x, r))
  PROVE  SafetyInv'
  <1>1. StoresSafe'
    BY DEF SafetyInv, StoresSafe, GoodIsProven, WellMarked
  <1>2. RunningRootKept'
    <2>1. CASE phase = "up"
      <3>1. booted \in Slots /\ (install.at # "none" => install.slot # booted)
        BY <2>1 DEF SafetyInv, PhaseSafe, RunningRootKept
      <3> QED
        BY <2>1, <3>1, WriteSafe
    <2>2. CASE phase # "up"
      BY <2>2 DEF RunningRootKept
    <2> QED
      BY <2>1, <2>2
  <1>3. PhaseSafe' /\ CommitProven'
    BY DEF SafetyInv, TypeOK, PhaseSafe, CommitProven, WellMarked, SameRoot
  <1>4. InstallUnmarked'
    BY DEF SafetyInv, TypeOK, InstallUnmarked, RunningRootKept
  <1> QED
    BY <1>1, <1>2, <1>3, <1>4 DEF SafetyInv

\* No command of a user's makes the unit unsafe.
LEMMA UserSafe == SafetyInv /\ UserStep => SafetyInv'
  <1> SUFFICES ASSUME SafetyInv, UserStep PROVE SafetyInv'
    OBVIOUS
  <1>1. TypeOK'
    BY UserTypeOK DEF SafetyInv, PhaseSafe
  <1>2. ASSUME NEW s \in Slots, Switch(s) PROVE SafetyInv'
    <2>1. disk.marker /\ phase \in {"up", "rescue"} /\ WellMarked(disk)
      BY <1>2, DiskWellMarked DEF Switch, AtShell
    <2>2. /\ disk' = SwitchStore(disk, s)
          /\ survivors' = survivors \cup ({SwitchMarked(disk, s)} \cup SwitchLost(disk, s))
                                   \cup {SwitchStore(disk, s)}
          /\ UNCHANGED <<phase, booted, health, install>>
      BY <1>2 DEF Switch, Write
    <2> QED
      BY <1>1, <2>1, <2>2, SwitchKeeps, CommandSafe
  <1>3. CASE Rollback
    <2>1. disk.marker /\ phase = "up" /\ WellMarked(disk) /\ booted \in Slots
      BY <1>3, DiskWellMarked DEF Rollback, AtShell, SafetyInv, PhaseSafe
    <2>2. /\ disk' = RollbackStore(disk, booted)
          /\ survivors' = survivors \cup {RollbackMarked(disk, booted)}
                                   \cup {RollbackStore(disk, booted)}
          /\ UNCHANGED <<phase, booted, health, install>>
      BY <1>3 DEF Rollback, Write
    <2> QED
      BY <1>1, <2>1, <2>2, RollbackKeeps, CommandSafe
  <1>4. ASSUME NEW on \in BOOLEAN, Rescue(on) PROVE SafetyInv'
    <2>1. disk.marker /\ phase \in {"up", "rescue"} /\ WellMarked(disk)
      BY <1>4, DiskWellMarked DEF Rescue, AtShell
    <2>2. /\ disk' = RescueStore(disk, on) /\ survivors' = {RescueStore(disk, on)}
          /\ UNCHANGED <<phase, booted, health, install>>
      BY <1>4 DEF Rescue, WriteSync
    <2>3. /\ WellMarked(disk')
          /\ \A t \in Slots : Good(disk', t) => Good(disk, t)
          /\ \A r \in Slots : SameRoot(disk, disk', r)
      BY <1>4, <2>1, <2>2, RescueKeeps DEF Slots
    <2> QED
      BY <1>1, <2>1, <2>2, <2>3, CommandSafe
  <1>5. CASE ShellSync
    BY <1>1, <1>5 DEF ShellSync, Sync, SafetyInv, StoresSafe, PhaseSafe,
       InstallUnmarked, CommitProven, RunningRootKept, GoodIsProven
  <1>6. CASE Reboot
    BY <1>1, <1>6, RebootedSafe DEF Reboot
  <1>7. CASE Retry
    BY <1>1, <1>7, RebootedSafe DEF Retry
  <1>8. CASE NextByHand
    <2>1. disk.marker /\ phase \in {"up", "rescue"} /\ WellMarked(disk) /\ disk \in Stores
      BY <1>8, DiskWellMarked DEF NextByHand, AtShell, SafetyInv, TypeOK
    <2>2. /\ disk' = NextStore(disk)
          /\ survivors' = survivors \cup {NextMarked(disk)} \cup {NextStore(disk)}
          /\ UNCHANGED <<phase, booted, health, install>>
      BY <1>8 DEF NextByHand, Write
    <2> QED
      BY <1>1, <2>1, <2>2, NextKeeps, NextKeepsRoots, CommandSafe
  <1>9. CASE CommitByHand
    <2>1. disk.marker /\ phase = "up" /\ WellMarked(disk) /\ booted \in Slots
      BY <1>9, DiskWellMarked DEF CommitByHand, AtShell, SafetyInv, PhaseSafe
    <2>2. /\ disk' = VouchedStore(disk, booted)
          /\ survivors' = survivors \cup {VouchedStore(disk, booted)}
          /\ UNCHANGED <<phase, booted, health, install>>
      BY <1>9 DEF CommitByHand, Write
    <2> QED
      BY <1>1, <2>1, <2>2, VouchedKeeps, CommandSafe
  <1> QED
    BY <1>2, <1>3, <1>4, <1>5, <1>6, <1>7, <1>8, <1>9 DEF UserStep

\* A power cut leaves one of the stores that were safe.
LEMMA PowerCutSafe == SafetyInv /\ PowerCut => SafetyInv'
  BY PowerCutTypeOK, StopSafe DEF PowerCut, SafetyInv

\* A step that changes nothing is safe.
LEMMA StutterSafe == SafetyInv /\ UNCHANGED vars => SafetyInv'
  BY DEF vars, SafetyInv, TypeOK, StoresSafe, GoodIsProven, PhaseSafe,
         InstallUnmarked, CommitProven, RunningRootKept

\* The invariant is inductive.
LEMMA StepSafe == SafetyInv /\ [Next]_vars => SafetyInv'
  <1>1. SafetyInv /\ (\E keep \in BOOLEAN : InstallBegin(keep)) => SafetyInv'
    BY InstallSafe
  <1>2. SafetyInv /\ InstallStep => SafetyInv'
    BY InstallSafe
  <1> QED
    BY <1>1, <1>2, InitramfsSafe, WatchSafe, UserSafe, PowerCutSafe, StutterSafe DEF Next

-----------------------------------------------------------------------------
(* The theorems.                                                           *)

\* Every state of a unit's life is one the modules describe.
THEOREM TypeCorrect == Spec => []TypeOK
  <1>1. SafetyInv => TypeOK
    BY DEF SafetyInv
  <1> QED
    BY <1>1, InitSafe, StepSafe, PTL DEF Spec

\* In whatever step of an update, of a user's command or of a boot the power
\* fails, no store it may leave calls a slot good whose image never came up
\* healthy, but one whose mark a user's own commit gave it.
THEOREM GoodSlotsProven == Spec => []GoodIsProven
  <1>1. SafetyInv => GoodIsProven
    BY DEF SafetyInv, StoresSafe
  <1> QED
    BY <1>1, InitSafe, StepSafe, PTL DEF Spec

\* No install, started at any point of a boot and beside any command, reaches
\* the root the unit runs from.
THEOREM RunningRootSafe == Spec => []RunningRootKept
  <1>1. SafetyInv => RunningRootKept
    BY DEF SafetyInv
  <1> QED
    BY <1>1, InitSafe, StepSafe, PTL DEF Spec

-----------------------------------------------------------------------------
(* The inductive invariant behind TrialBounded: in every store that may be *)
(* left, the boots made and the tries left never exceed TRIES.             *)

TriesFit(st, boots) ==
  \A s \in Slots : OnTrial(st, s) => st.left[s] + boots[s] <= TRIES

TrialInv ==
  /\ TypeOK
  /\ disk \in survivors
  /\ phase = "up" => booted \in Slots
  /\ TrialBounded
  /\ \A st \in survivors : TriesFit(st, trialBoots)
  \* The try of the boot being made is already off the store.
  /\ phase = "switch" /\ booted \in Slots /\ OnTrial(disk, booted) =>
       disk.left[booted] + trialBoots[booted] < TRIES

\* A store whose tries fit still does with another mark on a slot, or fewer tries.
LEMMA TrialMarks ==
  ASSUME NEW st \in Stores, NEW boots \in [Slots -> Nat], TriesFit(st, boots),
         NEW s \in Slots, NEW m \in Marks \ {"trial"}
  PROVE  /\ TriesFit(SetMark(st, s, m), boots)
         /\ TriesFit(SetActive(st, s), boots)
         /\ TriesFit(SetTrial(st, s, TRIES), [boots EXCEPT ![s] = 0])
  <1>1. TriesFit(SetMark(st, s, m), boots)
    BY DEF TriesFit, SetMark, OnTrial, Stores
  <1>2. TriesFit(SetActive(st, s), boots)
    BY DEF TriesFit, SetActive, OnTrial, Stores
  <1>3. TriesFit(SetTrial(st, s, TRIES), [boots EXCEPT ![s] = 0])
    BY TriesAssumption DEF TriesFit, SetTrial, OnTrial, Stores
  <1> QED
    BY <1>1, <1>2, <1>3

\* What a slot holds has no part in its tries.
LEMMA TrialTrees ==
  ASSUME NEW st \in Stores, NEW boots \in [Slots -> Nat], TriesFit(st, boots),
         NEW t \in Slots
  PROVE  /\ TriesFit(Gutted(st, t), boots)
         /\ TriesFit(TreeGone(st, t), boots)
         /\ TriesFit(StateGone(st, t), boots)
         /\ TriesFit(Unpacking(st, t), boots)
         /\ TriesFit(Unpacked(st, t), boots)
         /\ \A x \in LostData(st, t) : TriesFit(x, boots)
  <1>1. "none" \in Marks \ {"trial"}
    BY DEF Marks
  <1>2. TriesFit(StateGone(st, t), boots) /\ StateGone(st, t) \in Stores
    BY <1>1, TrialMarks, TreeStores DEF StateGone
  <1>3. /\ TriesFit(Gutted(st, t), boots)
        /\ TriesFit(TreeGone(st, t), boots)
        /\ TriesFit(Unpacked(st, t), boots)
    BY DEF TriesFit, Gutted, TreeGone, Unpacked, OnTrial, Stores
  <1>4. ASSUME NEW x \in Stores, TriesFit(x, boots)
        PROVE  TriesFit(Unpacking(x, t), boots)
    BY <1>4 DEF TriesFit, Unpacking, OnTrial, Stores
  <1> QED
    BY <1>2, <1>3, <1>4 DEF LostData

\* next takes a try before the boot it is for, or leaves the trial.
LEMMA TrialNext ==
  ASSUME NEW st \in Stores, NEW boots \in [Slots -> Nat], TriesFit(st, boots)
  PROVE  /\ TriesFit(NextMarked(st), boots)
         /\ TriesFit(NextStore(st), boots)
         /\ NextSlot(st) \in Slots /\ OnTrial(NextStore(st), NextSlot(st)) =>
              NextStore(st).left[NextSlot(st)] + boots[NextSlot(st)] < TRIES
  <1>1. st.active \in Slots \/ st.active = NoSlot
    BY DEF Stores
  <1>2. NoSlot \notin Slots
    BY DEF NoSlot, Slots
  <1>3. CASE st.active = NoSlot \/ ~OnTrial(st, st.active)
    <2>1. NextMarked(st) = st
      BY <1>3 DEF NextMarked
    <2>2. NextSlot(st) \in Slots => Good(st, NextSlot(st))
      BY <1>1, <1>2, <1>3 DEF NextSlot, ActiveBoots
    <2>3. NextStore(st) = st \/ (NextSlot(st) \in Slots
                                /\ NextStore(st) = SetActive(st, NextSlot(st)))
      BY <2>1, NextStores DEF NextStore
    <2>4. "none" \in Marks \ {"trial"}
      BY DEF Marks
    <2>5. TriesFit(NextStore(st), boots)
      BY <2>3, <2>4, TrialMarks
    <2>6. NextStore(st).mark = st.mark
      BY <2>3 DEF SetActive, Stores
    <2> QED
      BY <2>1, <2>2, <2>5, <2>6 DEF Good, OnTrial
  <1>4. CASE st.active \in Slots /\ OnTrial(st, st.active) /\ st.left[st.active] > 0
    <2> DEFINE s == st.active
               new == SetTrial(st, s, st.left[s] - 1)
    <2>1. s # NoSlot /\ NextSlot(st) = s /\ ActiveBoots(st)
      BY <1>2, <1>4 DEF NextSlot, ActiveBoots
    <2>2. NextMarked(st) = new /\ NextStore(st) = new
      BY <1>4, <2>1 DEF NextMarked, NextStore
    <2>3. st.left[s] \in Nat /\ boots[s] \in Nat /\ st.left[s] + boots[s] <= TRIES
      BY <1>4, TriesAssumption DEF Stores, TriesFit
    <2>4. TriesFit(new, boots)
      BY <1>4, <2>3, TriesAssumption DEF TriesFit, SetTrial, OnTrial, Stores
    <2>5. new.left[s] = st.left[s] - 1
      BY <1>4 DEF SetTrial, Stores
    <2>6. new.left[s] + boots[s] < TRIES
      BY <2>3, <2>5, TriesAssumption
    <2> QED
      BY <2>1, <2>2, <2>4, <2>6
  <1>5. CASE st.active \in Slots /\ OnTrial(st, st.active) /\ ~(st.left[st.active] > 0)
    <2> DEFINE s == st.active
               bad == SetMark(st, s, "bad")
    <2>1. s # NoSlot /\ ~ActiveBoots(st)
      BY <1>2, <1>5 DEF ActiveBoots, Good, OnTrial
    <2>2. NextMarked(st) = bad
      BY <1>5, <2>1 DEF NextMarked
    <2>3. "bad" \in Marks /\ "bad" # "trial" /\ 0 \in 0 .. TRIES
      BY TriesAssumption DEF Marks
    <2>4. bad \in Stores /\ TriesFit(bad, boots)
      BY <1>5, <2>3, MarkStores, TrialMarks
    <2>5. NextSlot(st) \in Slots => Good(st, NextSlot(st)) /\ NextSlot(st) # s
      BY <1>2, <1>5, <2>1 DEF NextSlot, Good, OnTrial
    <2>6. NextStore(st) = bad \/ (NextSlot(st) \in Slots
                                 /\ NextStore(st) = SetActive(bad, NextSlot(st)))
      BY <2>2, NextStores DEF NextStore
    <2>7. TriesFit(NextStore(st), boots) /\ NextStore(st).mark = bad.mark
      <3> HIDE DEF bad
      <3>1. ASSUME NEW t \in Slots
            PROVE  TriesFit(SetActive(bad, t), boots)
        BY <2>4 DEF TriesFit, SetActive, OnTrial, Stores
      <3>2. ASSUME NEW t \in Slots
            PROVE  SetActive(bad, t).mark = bad.mark
        BY <2>4 DEF SetActive, Stores
      <3> QED
        BY <2>4, <2>6, <3>1, <3>2
    <2>8. \A t \in Slots \ {s} : bad.mark[t] = st.mark[t]
      BY <1>5 DEF SetMark, Stores
    <2>9. NextSlot(st) \in Slots => ~OnTrial(NextStore(st), NextSlot(st))
      BY <2>5, <2>7, <2>8 DEF Good, OnTrial
    <2> QED
      BY <2>2, <2>4, <2>7, <2>9
  <1> QED
    BY <1>1, <1>3, <1>4, <1>5

\* A step that takes the boots of one slot back to none, or leaves them.
LEMMA TriesFitLess ==
  ASSUME NEW st \in Stores, NEW boots \in [Slots -> Nat], TriesFit(st, boots),
         NEW s \in Slots
  PROVE  TriesFit(st, [boots EXCEPT ![s] = 0])
  BY TriesAssumption DEF TriesFit, Stores

\* A step that makes no boot and writes only stores that fit.
LEMMA TrialWrite ==
  ASSUME TrialInv, TypeOK', phase' = "up" => booted' \in Slots, phase' # "switch",
         disk' \in survivors',
         trialBoots' = trialBoots
           \/ \E s \in Slots : trialBoots' = [trialBoots EXCEPT ![s] = 0],
         \A x \in survivors' : x \in survivors \/ TriesFit(x, trialBoots')
  PROVE  TrialInv'
  <1>1. \A x \in survivors : TriesFit(x, trialBoots')
    BY TriesFitLess DEF TrialInv, TypeOK
  <1>2. TrialBounded'
    BY TriesAssumption DEF TrialInv, TrialBounded, TypeOK
  <1> QED
    BY <1>1, <1>2 DEF TrialInv

\* No slot starts on trial.
LEMMA TrialInit == Init => TrialInv
  <1> SUFFICES ASSUME Init PROVE TrialInv
    OBVIOUS
  <1>1. TypeOK
    BY InitTypeOK
  <1>2. disk = Provisioned \/ \E s \in {"a", NoSlot} :
          disk = [Provisioned EXCEPT !.marker = FALSE, !.mark["a"] = "none", !.active = s]
    BY DEF Init, BeforeStates
  <1>3. /\ Provisioned \in Stores
        /\ \A s \in Slots : Provisioned.mark[s] # "trial"
    BY TriesAssumption DEF Provisioned, Stores, Marks, Trees, Slots
  <1>4. \A s \in Slots : ~OnTrial(disk, s)
    <2>1. CASE disk = Provisioned
      BY <1>3, <2>1 DEF OnTrial
    <2>2. ASSUME NEW s \in {"a", NoSlot},
                 disk = [Provisioned EXCEPT !.marker = FALSE, !.mark["a"] = "none", !.active = s]
          PROVE  disk.mark = [Provisioned.mark EXCEPT !["a"] = "none"]
      BY <1>3, <2>2 DEF Stores
    <2>3. CASE disk.mark = [Provisioned.mark EXCEPT !["a"] = "none"]
      BY <1>3, <2>3 DEF OnTrial, Stores
    <2> QED
      BY <1>2, <2>1, <2>2, <2>3
  <1> QED
    BY <1>1, <1>4, TriesAssumption DEF Init, TrialInv, TrialBounded, TriesFit

\* A unit that stops has made no boot.
LEMMA TrialHalt ==
  ASSUME TrialInv, TypeOK', Halted, disk' \in survivors, survivors' = {disk'},
         trialBoots' = trialBoots
  PROVE  TrialInv'
  BY TrialWrite DEF Halted

\* Nor has one that reboots.
LEMMA TrialReboot ==
  TrialInv /\ TypeOK' /\ Rebooted /\ UNCHANGED trialBoots => TrialInv'
  BY TrialHalt DEF Rebooted, Sync, TrialInv

\* The initramfs boots a slot on trial only with a try taken and synced.
LEMMA InitramfsTrial == TrialInv /\ InitramfsStep => TrialInv'
  <1> SUFFICES ASSUME TrialInv, InitramfsStep PROVE TrialInv'
    OBVIOUS
  <1>1. TypeOK'
    BY InitramfsTypeOK DEF TrialInv
  <1>2. CASE CountTry
    BY <1>1, <1>2, TrialWrite DEF CountTry, EnterRescue, TrialInv
  <1>3. CASE StoreFails
    BY <1>1, <1>3, TrialWrite DEF StoreFails, EnterRescue, TrialInv
  <1>4. CASE RescueMarker
    <2>1. TriesFit(RescueStore(disk, FALSE), trialBoots)
      BY DEF TrialInv, TriesFit, RescueStore, OnTrial, TypeOK, Stores
    <2> QED
      BY <1>1, <1>4, <2>1, TrialWrite DEF RescueMarker, WriteSync, EnterRescue
  <1>5. CASE StoreReady
    BY <1>1, <1>5, TrialWrite DEF StoreReady, TrialInv
  <1>6. CASE Adopt
    <2>1. /\ TriesFit(AdoptMarked(disk), trialBoots) /\ AdoptMarked(disk) \in Stores
          /\ Adoptee(disk) \in Slots /\ "good" \in Marks \ {"trial"}
      <3>1. disk \in Stores /\ TriesFit(disk, trialBoots)
        BY DEF TrialInv, TypeOK
      <3>2. TriesFit(AdoptMarked(disk), trialBoots)
        BY <3>1 DEF TriesFit, AdoptMarked, OnTrial, Stores
      <3>3. "a" \in Slots /\ AdoptMarked(disk) \in Stores
        BY <3>1, CommandStores DEF Slots
      <3>4. Adoptee(disk) \in Slots
        BY <3>1, <3>3 DEF Adoptee, Stores
      <3> QED
        BY <3>2, <3>3, <3>4 DEF Marks
    <2>2. TriesFit(AdoptStore(disk), trialBoots)
      BY <2>1, TrialMarks DEF AdoptStore, TrialInv, TypeOK
    <2> QED
      BY <1>1, <1>6, <2>1, <2>2, TrialWrite DEF Adopt, Write
  <1>10. CASE AdoptSync
    BY <1>1, <1>10, TrialWrite DEF AdoptSync, Sync, TrialInv
  <1>7. CASE TakeNext
    <2>1. /\ TriesFit(NextMarked(disk), trialBoots)
          /\ TriesFit(NextStore(disk), trialBoots)
          /\ NextSlot(disk) \in Slots /\ OnTrial(NextStore(disk), NextSlot(disk)) =>
               NextStore(disk).left[NextSlot(disk)] + trialBoots[NextSlot(disk)] < TRIES
      BY TrialNext DEF TrialInv, TypeOK
    <2> QED
      BY <1>1, <1>7, <2>1 DEF TakeNext, Write, TrialInv, TrialBounded
  <1>8. CASE NoRoot
    BY <1>1, <1>8, TrialWrite DEF NoRoot, EnterRescue, Sync, TrialInv
  <1>9. CASE SwitchRoot
    <2>1. /\ booted \in Slots /\ disk' = disk /\ survivors' = {disk}
          /\ phase' = "up" /\ booted' = booted /\ TriesFit(disk, trialBoots)
      BY <1>9 DEF SwitchRoot, Sync, TrialInv, TypeOK
    <2>2. CASE OnTrial(disk, booted)
      <3>1. /\ disk.left[booted] + trialBoots[booted] < TRIES
            /\ disk.left[booted] \in Nat /\ trialBoots[booted] \in Nat
        BY <1>9, <2>1, <2>2, TriesAssumption DEF SwitchRoot, TrialInv, TypeOK, Stores
      <3>2. trialBoots' = [trialBoots EXCEPT ![booted] = trialBoots[booted] + 1]
        BY <1>9, <2>2 DEF SwitchRoot
      <3>3. TrialBounded'
        BY <2>1, <3>1, <3>2, TriesAssumption DEF TrialInv, TrialBounded, TypeOK
      <3>4. TriesFit(disk, trialBoots')
        BY <2>1, <3>1, <3>2, TriesAssumption DEF TriesFit, TrialInv, TypeOK, Stores
      <3> QED
        BY <1>1, <2>1, <3>3, <3>4 DEF TrialInv
    <2>3. CASE ~OnTrial(disk, booted)
      BY <1>1, <1>9, <2>1, <2>3, TrialWrite DEF SwitchRoot
    <2> QED
      BY <2>2, <2>3
  <1> QED
    BY <1>2, <1>3, <1>4, <1>5, <1>6, <1>7, <1>8, <1>9, <1>10 DEF InitramfsStep

\* Commit ends a trial, and a failed one reboots; neither makes a boot.
LEMMA WatchTrial == TrialInv /\ WatchStep => TrialInv'
  <1> SUFFICES ASSUME TrialInv, WatchStep PROVE TrialInv'
    OBVIOUS
  <1>1. phase = "up" /\ booted \in Slots
    BY DEF WatchStep, Healthy, Commit, ResetCount, Unhealthy, TrialInv
  <1>2. TypeOK'
    BY <1>1, WatchTypeOK DEF TrialInv
  <1>3. CASE Healthy
    <2> DEFINE Prove(st) == [st EXCEPT !.proven = @ \cup {booted}, !.vouched = @ \ {booted},
                                       !.tree[booted] = "whole"]
    <2>1. /\ disk' = Prove(disk) /\ survivors' = {Prove(st) : st \in survivors}
          /\ trialBoots' = [trialBoots EXCEPT ![booted] = 0]
          /\ phase' = phase /\ booted' = booted
      BY <1>3 DEF Healthy
    <2>2. ASSUME NEW st \in survivors PROVE TriesFit(Prove(st), trialBoots')
      <3>1. TriesFit(st, trialBoots')
        BY <1>1, <2>1, TriesFitLess DEF TrialInv, TypeOK
      <3>2. Prove(st).mark = st.mark /\ Prove(st).left = st.left
        BY DEF TrialInv, TypeOK, Stores
      <3> QED
        BY <3>1, <3>2 DEF TriesFit, OnTrial
    <2>3. disk \in survivors
      BY DEF TrialInv
    <2> HIDE DEF Prove
    <2>4. disk' \in survivors' /\ \A x \in survivors' : TriesFit(x, trialBoots')
      BY <2>1, <2>2, <2>3
    <2> QED
      BY <1>1, <1>2, <2>1, <2>4, TrialWrite
  <1>4. CASE Commit
    <2>1. "good" \in Marks \ {"trial"} /\ disk \in Stores
      BY DEF Marks, TrialInv, TypeOK
    <2>2. TriesFit(CommitStore(disk, booted), trialBoots)
      BY <1>1, <2>1, TrialMarks DEF CommitStore, TrialInv, TypeOK
    <2> QED
      BY <1>1, <1>2, <1>4, <2>2, TrialWrite DEF Commit, WriteSync, TrialInv
  <1>5. CASE ResetCount
    BY <1>1, <1>2, <1>5, TrialWrite DEF ResetCount, TrialInv
  <1>6. CASE Unhealthy
    <2>1. CASE OnTrial(disk, booted)
      BY <1>2, <1>6, <2>1, TrialReboot DEF Unhealthy
    <2>2. CASE ~OnTrial(disk, booted)
      BY <1>1, <1>2, <1>6, <2>2, TrialWrite DEF Unhealthy, TrialInv
    <2> QED
      BY <2>1, <2>2
  <1> QED
    BY <1>3, <1>4, <1>5, <1>6 DEF WatchStep

\* An install works on stores that fit; the slot it puts on trial starts anew.
LEMMA InstallTrial ==
  ASSUME SafetyInv, TrialInv, InstallStep \/ \E keep \in BOOLEAN : InstallBegin(keep)
  PROVE  TrialInv'
  <1>1. TypeOK'
    BY InstallTypeOK DEF TrialInv
  <1>2. /\ phase \in {"up", "rescue"} /\ (phase = "up" => booted \in Slots)
        /\ install.slot \in Slots
        /\ disk \in Stores /\ trialBoots \in [Slots -> Nat]
        /\ disk \in survivors /\ TriesFit(disk, trialBoots)
    BY DEF InstallStep, InstallBegin, InstallRemove, InstallFail, InstallUnpack,
       InstallArm, InstallSync, UpdateReboot, AtShell, SafetyInv, PhaseSafe, TypeOK, TrialInv
  <1>3. ASSUME NEW keep \in BOOLEAN, InstallBegin(keep) PROVE TrialInv'
    <2>1. InstallTarget(disk) \in Slots
      BY DEF InstallTarget, Other, Slots
    <2>2. TriesFit(Gutted(disk, InstallTarget(disk)), trialBoots)
      BY <1>2, <2>1, TrialTrees
    <2> QED
      BY <1>1, <1>2, <1>3, <2>2, TrialWrite DEF InstallBegin, Write
  <1>4. CASE InstallRemove
    <2> DEFINE t    == install.slot
               tree == TreeGone(disk, t)
               gone == StateGone(tree, t)
               new  == Unpacking(gone, t)
    <2>1. tree \in Stores /\ TriesFit(tree, trialBoots)
      BY <1>2, TreeStores, TrialTrees
    <2>2. gone \in Stores /\ TriesFit(gone, trialBoots)
      BY <1>2, <2>1, TreeStores, TrialTrees
    <2>3. TriesFit(new, trialBoots)
      BY <1>2, <2>2, TrialTrees
    <2>4. /\ disk' = new /\ survivors' = survivors \cup {tree, gone} \cup {new}
          /\ UNCHANGED <<phase, booted, trialBoots>>
      BY <1>4 DEF InstallRemove, Write
    <2> HIDE DEF tree, gone, new
    <2> QED
      BY <1>1, <1>2, <2>1, <2>2, <2>3, <2>4, TrialWrite
  <1>5. CASE InstallFail
    <2>1. TriesFit(TreeGone(disk, install.slot), trialBoots)
      BY <1>2, TrialTrees
    <2> QED
      BY <1>1, <1>2, <1>5, <2>1, TrialWrite DEF InstallFail, WriteSync
  <1>6. CASE InstallUnpack
    <2> DEFINE new == Unpacked(disk, install.slot)
    <2>1. new \in Stores /\ TriesFit(new, trialBoots)
      BY <1>2, TreeStores, TrialTrees
    <2>2. \A x \in LostData(new, install.slot) : TriesFit(x, trialBoots)
      BY <1>2, <2>1, TrialTrees
    <2>3. /\ disk' = new
          /\ survivors' = survivors \cup LostData(new, install.slot) \cup {new}
          /\ UNCHANGED <<phase, booted, trialBoots>>
      BY <1>6 DEF InstallUnpack, Write
    <2> HIDE DEF new
    <2> QED
      BY <1>1, <1>2, <2>1, <2>2, <2>3, TrialWrite
  <1>7. CASE InstallArm
    <2> DEFINE t     == install.slot
               trial == SetTrial(disk, t, TRIES)
               new   == IF install.keep THEN trial ELSE SetActive(trial, t)
               boots == [trialBoots EXCEPT ![t] = 0]
    <2>1. TRIES \in 0 .. TRIES /\ "bad" \in Marks \ {"trial"} /\ boots \in [Slots -> Nat]
      BY <1>2, TriesAssumption DEF Marks
    <2>2. trial \in Stores /\ TriesFit(trial, boots)
      BY <1>2, <2>1, MarkStores, TrialMarks
    <2>3. new \in Stores /\ TriesFit(new, boots)
      <3> HIDE DEF trial, boots
      <3> QED
        BY <1>2, <2>1, <2>2, MarkStores, TrialMarks
    <2>4. /\ disk' = new /\ trialBoots' = boots
          /\ survivors' = survivors \cup (LostData(trial, t) \cup LostData(new, t))
                                   \cup {new}
          /\ UNCHANGED <<phase, booted>>
      BY <1>7 DEF InstallArm, Write
    <2>5. boots = [trialBoots EXCEPT ![install.slot] = 0]
      OBVIOUS
    <2> HIDE DEF trial, new, boots
    <2>6. \A x \in LostData(trial, t) \cup LostData(new, t) : TriesFit(x, boots)
      BY <1>2, <2>1, <2>2, <2>3, TrialTrees
    <2> QED
      BY <1>1, <1>2, <2>3, <2>4, <2>5, <2>6, TrialWrite
  <1>8. CASE InstallSync
    BY <1>1, <1>2, <1>8, TrialWrite DEF InstallSync, Sync
  <1>9. CASE UpdateReboot
    BY <1>1, <1>9, TrialReboot DEF UpdateReboot
  <1> QED
    BY <1>3, <1>4, <1>5, <1>6, <1>7, <1>8, <1>9 DEF InstallStep

\* A user's switch puts a slot on trial anew or leaves the tries it has.
LEMMA UserTrial == TrialInv /\ UserStep => TrialInv'
  <1> SUFFICES ASSUME TrialInv, UserStep PROVE TrialInv'
    OBVIOUS
  <1>1. TypeOK'
    BY UserTypeOK DEF TrialInv
  <1>2. /\ disk \in Stores /\ trialBoots \in [Slots -> Nat]
        /\ disk \in survivors /\ TriesFit(disk, trialBoots)
        /\ {"none", "bad"} \subseteq Marks \ {"trial"}
    BY DEF TrialInv, TypeOK, Marks
  <1>3. ASSUME NEW s \in Slots, Switch(s) PROVE TrialInv'
    <2> DEFINE marked == SwitchMarked(disk, s)
    <2>1. /\ disk' = SetActive(marked, s) /\ phase \in {"up", "rescue"}
          /\ survivors' = survivors \cup ({marked} \cup SwitchLost(disk, s))
                                   \cup {SetActive(marked, s)}
          /\ UNCHANGED <<phase, booted>>
          /\ trialBoots' = IF marked = disk THEN trialBoots
                           ELSE [trialBoots EXCEPT ![s] = 0]
      BY <1>3 DEF Switch, Write, SwitchStore, AtShell
    <2>2. marked \in Stores /\ TriesFit(marked, trialBoots')
      BY <1>2, <2>1, CommandStores, TrialMarks DEF SwitchMarked
    <2>3. trialBoots' \in [Slots -> Nat] /\ TriesFit(disk, trialBoots')
      BY <1>2, <2>1, TriesFitLess
    <2> HIDE DEF marked
    <2>4. TriesFit(SetActive(marked, s), trialBoots')
      BY <1>2, <2>2, <2>3, TrialMarks
    <2>5. \A x \in SwitchLost(disk, s) : TriesFit(x, trialBoots')
      BY <1>2, <2>3, TrialMarks DEF SwitchLost
    <2>6. phase' = "up" => booted' \in Slots
      BY <2>1 DEF TrialInv
    <2> QED
      BY <1>1, <2>1, <2>2, <2>4, <2>5, <2>6, TrialWrite
  <1>4. CASE Rollback
    <2> DEFINE marked == SetMark(disk, booted, "bad")
    <2>1. booted \in Slots /\ Other(booted) \in Slots /\ phase = "up"
      BY <1>4 DEF Rollback, TrialInv, Other, Slots
    <2>2. marked \in Stores /\ TriesFit(marked, trialBoots)
      <3>1. 0 \in 0 .. TRIES
        BY TriesAssumption
      <3> QED
        BY <1>2, <2>1, <3>1, MarkStores, TrialMarks
    <2>3. /\ disk' = SetActive(marked, Other(booted))
          /\ survivors' = survivors \cup {marked} \cup {SetActive(marked, Other(booted))}
          /\ UNCHANGED <<phase, booted, trialBoots>>
      BY <1>4 DEF Rollback, Write, RollbackStore, RollbackMarked
    <2> HIDE DEF marked
    <2>4. TriesFit(SetActive(marked, Other(booted)), trialBoots)
      BY <1>2, <2>1, <2>2, TrialMarks
    <2> QED
      BY <1>1, <2>1, <2>2, <2>3, <2>4, TrialWrite
  <1>5. ASSUME NEW on \in BOOLEAN, Rescue(on) PROVE TrialInv'
    <2>1. TriesFit(RescueStore(disk, on), trialBoots)
      BY <1>2 DEF TriesFit, RescueStore, OnTrial, Stores
    <2> QED
      BY <1>1, <1>5, <2>1, TrialWrite DEF Rescue, WriteSync, AtShell, TrialInv
  <1>6. CASE ShellSync
    BY <1>1, <1>6 DEF ShellSync, Sync, TrialInv, TrialBounded
  <1>7. CASE Reboot
    BY <1>1, <1>7, TrialReboot DEF Reboot
  <1>8. CASE Retry
    BY <1>1, <1>8, TrialReboot DEF Retry
  <1>9. CASE NextByHand
    <2>1. TriesFit(NextMarked(disk), trialBoots) /\ TriesFit(NextStore(disk), trialBoots)
      BY <1>2, TrialNext
    <2> QED
      BY <1>1, <1>9, <2>1, TrialWrite DEF NextByHand, Write, AtShell, TrialInv
  <1>10. CASE CommitByHand
    <2>1. booted \in Slots /\ phase = "up"
      BY <1>10 DEF CommitByHand, TrialInv
    <2>2. TriesFit(VouchedStore(disk, booted), trialBoots)
      BY <1>2, <2>1 DEF TriesFit, VouchedStore, SetMark, OnTrial, Stores
    <2> QED
      BY <1>1, <1>10, <2>1, <2>2, TrialWrite DEF CommitByHand, Write
  <1> QED
    BY <1>3, <1>4, <1>5, <1>6, <1>7, <1>8, <1>9, <1>10 DEF UserStep

\* No store a power cut leaves has a try back.
LEMMA PowerCutTrial == TrialInv /\ PowerCut => TrialInv'
  <1> SUFFICES ASSUME TrialInv, PowerCut PROVE TrialInv'
    OBVIOUS
  <1>1. TypeOK'
    BY PowerCutTypeOK DEF TrialInv
  <1>2. Halted /\ disk' \in survivors /\ survivors' = {disk'} /\ trialBoots' = trialBoots
    BY DEF PowerCut
  <1> QED
    BY <1>1, <1>2, TrialHalt

\* The invariant is inductive, beside SafetyInv.
LEMMA StepTrial == SafetyInv /\ TrialInv /\ [Next]_vars => TrialInv'
  <1>1. SafetyInv /\ TrialInv /\ (\E keep \in BOOLEAN : InstallBegin(keep)) => TrialInv'
    BY InstallTrial
  <1>2. SafetyInv /\ TrialInv /\ InstallStep => TrialInv'
    BY InstallTrial
  <1>3. TrialInv /\ UNCHANGED vars => TrialInv'
    BY DEF vars, TrialInv, TypeOK, TrialBounded
  <1> QED
    BY <1>1, <1>2, <1>3, InitramfsTrial, WatchTrial, UserTrial, PowerCutTrial DEF Next

\* However the power fails, and whatever installs and commands come between,
\* an image on trial that never comes up healthy is booted TRIES times at most.
THEOREM TrialsBounded == Spec => []TrialBounded
  <1>1. Init => SafetyInv /\ TrialInv
    BY InitSafe, TrialInit
  <1>2. SafetyInv /\ TrialInv /\ [Next]_vars => (SafetyInv /\ TrialInv)'
    BY StepSafe, StepTrial
  <1>3. SafetyInv /\ TrialInv => TrialBounded
    BY DEF TrialInv
  <1> QED
    BY <1>1, <1>2, <1>3, PTL DEF Spec

-----------------------------------------------------------------------------
(* The inductive invariant behind StrikesBounded: MISC counts every boot   *)
(* into a slot before it is made, and forgets only what was healthy.       *)

StrikeInv ==
  /\ TypeOK
  /\ strikes <= count
  /\ phase \in {"store", "adopt", "next", "switch"} => strikes < count
  /\ phase = "up" /\ health \in {"commit", "reset"} => strikes = 0

\* The unit starts with no boots behind it.
LEMMA StrikeInit == Init => StrikeInv
  BY InitTypeOK DEF Init, StrikeInv

\* The initramfs counts before it reads the store, and boots once a count.
LEMMA InitramfsStrikes == StrikeInv /\ InitramfsStep => StrikeInv'
  <1> SUFFICES ASSUME StrikeInv, InitramfsStep PROVE StrikeInv'
    OBVIOUS
  <1>1. TypeOK'
    BY InitramfsTypeOK DEF StrikeInv
  <1>2. count \in Nat /\ strikes \in Nat
    BY TriesMaxAssumption DEF StrikeInv, TypeOK
  <1>3. CASE CountTry
    BY <1>1, <1>2, <1>3 DEF CountTry, CountedTry, EnterRescue, StrikeInv
  <1>4. CASE SwitchRoot
    BY <1>1, <1>2, <1>4 DEF SwitchRoot, StrikeInv
  <1>5. CASE StoreReady \/ Adopt \/ AdoptSync \/ TakeNext
    BY <1>1, <1>5 DEF StoreReady, Adopt, AdoptSync, TakeNext, StrikeInv
  <1>6. CASE StoreFails \/ RescueMarker \/ NoRoot
    BY <1>1, <1>6 DEF StoreFails, RescueMarker, NoRoot, EnterRescue, StrikeInv
  <1> QED
    BY <1>3, <1>4, <1>5, <1>6 DEF InitramfsStep

\* The count is reset only once the boot was healthy, and the boot with it.
LEMMA WatchStrikes == SafetyInv /\ StrikeInv /\ WatchStep => StrikeInv'
  <1> SUFFICES ASSUME SafetyInv, StrikeInv, WatchStep PROVE StrikeInv'
    OBVIOUS
  <1>1. TypeOK'
    BY WatchSafe DEF SafetyInv
  <1>2. count \in Nat /\ strikes \in Nat
    BY TriesMaxAssumption DEF StrikeInv, TypeOK
  <1>3. CASE Healthy
    <2>1. phase' = "up" /\ strikes' = 0 /\ count' = count
      BY <1>3 DEF Healthy
    <2> QED
      BY <1>1, <1>2, <2>1 DEF StrikeInv
  <1>4. CASE Commit
    BY <1>1, <1>4 DEF Commit, StrikeInv
  <1>5. CASE ResetCount
    BY <1>1, <1>5 DEF ResetCount, StrikeInv
  <1>6. CASE Unhealthy
    BY <1>1, <1>6 DEF Unhealthy, Rebooted, Halted, StrikeInv
  <1> QED
    BY <1>3, <1>4, <1>5, <1>6 DEF WatchStep

\* Nothing else counts, and only techo5-retry forgets.
LEMMA OtherStrikes ==
  ASSUME SafetyInv, StrikeInv,
         InstallStep \/ (\E keep \in BOOLEAN : InstallBegin(keep)) \/ UserStep
           \/ PowerCut
  PROVE  StrikeInv'
  <1>1. TypeOK'
    BY InstallSafe, UserSafe, PowerCutSafe DEF SafetyInv
  <1>2. CASE Retry
    BY <1>1, <1>2 DEF Retry, Rebooted, Halted, StrikeInv
  <1>3. CASE UpdateReboot \/ Reboot \/ PowerCut
    BY <1>1, <1>3 DEF UpdateReboot, Reboot, PowerCut, Rebooted, Halted, StrikeInv
  <1>4. CASE UNCHANGED <<phase, count, health, strikes>>
    BY <1>1, <1>4 DEF StrikeInv
  <1>5. InstallStep => UpdateReboot \/ UNCHANGED <<phase, count, health, strikes>>
    BY DEF InstallStep, InstallRemove, InstallFail, InstallUnpack, InstallArm,
       InstallSync
  <1>6. UserStep => Retry \/ Reboot \/ UNCHANGED <<phase, count, health, strikes>>
    BY DEF UserStep, NextByHand, CommitByHand, Switch, Rollback, ShellSync, Rescue
  <1>7. (\E keep \in BOOLEAN : InstallBegin(keep)) =>
           UNCHANGED <<phase, count, health, strikes>>
    BY DEF InstallBegin
  <1> QED
    BY <1>2, <1>3, <1>4, <1>5, <1>6, <1>7

\* The invariant is inductive, beside SafetyInv.
LEMMA StepStrikes == SafetyInv /\ StrikeInv /\ [Next]_vars => StrikeInv'
  <1>1. StrikeInv /\ UNCHANGED vars => StrikeInv'
    BY DEF vars, StrikeInv, TypeOK
  <1>2. SafetyInv /\ StrikeInv /\ (InstallStep
          \/ (\E keep \in BOOLEAN : InstallBegin(keep)) \/ UserStep \/ PowerCut)
        => StrikeInv'
    BY OtherStrikes
  <1> QED
    BY <1>1, <1>2, InitramfsStrikes, WatchStrikes DEF Next

\* Whatever the slots hold and whenever the power fails, TRIES_MAX boots into
\* slots without a healthy one between them are followed by rescue.
THEOREM BootsBounded == Spec => []StrikesBounded
  <1>1. Init => SafetyInv /\ StrikeInv
    BY InitSafe, StrikeInit
  <1>2. SafetyInv /\ StrikeInv /\ [Next]_vars => (SafetyInv /\ StrikeInv)'
    BY StepSafe, StepStrikes
  <1>3. StrikeInv => StrikesBounded
    BY TriesMaxAssumption DEF StrikeInv, StrikesBounded, TypeOK
  <1> QED
    BY <1>1, <1>2, <1>3, PTL DEF Spec

-----------------------------------------------------------------------------
(* What the initramfs switches into: slotctl next's answer, kept.          *)

BootChosen ==
  phase = "switch" /\ booted \in Slots => Good(disk, booted) \/ OnTrial(disk, booted)

\* What slotctl next prints is good or on trial in what it writes.
LEMMA NextSlotMarked ==
  ASSUME NEW st \in Stores, NextSlot(st) \in Slots
  PROVE  Good(NextStore(st), NextSlot(st)) \/ OnTrial(NextStore(st), NextSlot(st))
  <1>1. NoSlot \notin Slots
    BY DEF NoSlot, Slots
  <1>2. CASE ActiveBoots(st)
    <2>1. NextSlot(st) = st.active /\ NextStore(st) = NextMarked(st)
      BY <1>2 DEF NextSlot, NextStore
    <2>2. CASE Good(st, st.active)
      BY <2>1, <2>2 DEF NextMarked, Good, OnTrial
    <2>3. CASE OnTrial(st, st.active) /\ st.left[st.active] > 0
      <3>1. NextMarked(st) = SetTrial(st, st.active, st.left[st.active] - 1)
        BY <1>1, <2>1, <2>3 DEF NextMarked
      <3>2. OnTrial(SetTrial(st, st.active, st.left[st.active] - 1), st.active)
        BY <2>1 DEF SetTrial, OnTrial, Stores
      <3> QED
        BY <2>1, <3>1, <3>2
    <2> QED
      BY <1>2, <2>2, <2>3 DEF ActiveBoots
  <1>3. CASE ~ActiveBoots(st)
    <2> DEFINE t == NextSlot(st)
    <2>1. t = FallbackSlot(st) /\ Good(st, t) /\ t # NoSlot
      BY <1>1, <1>3 DEF NextSlot
    <2>2. NextMarked(st) \in Stores
      BY NextStores
    <2>3. Good(NextMarked(st), t)
      <3>1. CASE st.active = NoSlot \/ ~OnTrial(st, st.active)
        BY <2>1, <3>1 DEF NextMarked
      <3>2. CASE st.active # NoSlot /\ OnTrial(st, st.active)
        <4>1. t # st.active
          BY <2>1, <3>2 DEF Good, OnTrial
        <4>2. NextMarked(st) = SetMark(st, st.active, "bad")
          BY <1>3, <3>2 DEF NextMarked, ActiveBoots
        <4> QED
          BY <2>1, <4>1, <4>2 DEF SetMark, Good, Stores
      <3> QED
        BY <3>1, <3>2
    <2>4. NextStore(st) = SetActive(NextMarked(st), t)
      BY <1>3, <2>1 DEF NextStore
    <2>5. Good(SetActive(NextMarked(st), t), t)
      BY <2>2, <2>3 DEF SetActive, Good, Stores
    <2> QED
      BY <2>4, <2>5
  <1> QED
    BY <1>2, <1>3

\* Between slotctl next and the switch nothing but the initramfs runs.
LEMMA StepChosen == SafetyInv /\ BootChosen /\ [Next]_vars => BootChosen'
  <1> SUFFICES ASSUME SafetyInv, BootChosen, [Next]_vars, (phase = "switch" /\ booted \in Slots)'
               PROVE  (Good(disk, booted) \/ OnTrial(disk, booted))'
    BY DEF BootChosen
  <1>1. CASE TakeNext
    BY <1>1, NextSlotMarked DEF TakeNext, Write, SafetyInv, TypeOK
  <1>2. CASE UNCHANGED <<phase, booted, disk>>
    BY <1>2 DEF BootChosen
  <1>3. InitramfsStep => TakeNext
    BY DEF InitramfsStep, CountTry, StoreFails, RescueMarker, StoreReady, Adopt, AdoptSync, NoRoot,
           SwitchRoot, EnterRescue
  <1>4. ~WatchStep /\ ~InstallStep /\ ~PowerCut /\ ~\E keep \in BOOLEAN : InstallBegin(keep)
    BY DEF WatchStep, Healthy, Commit, ResetCount, Unhealthy, Rebooted, Halted, InstallStep,
           InstallBegin, InstallRemove, InstallFail, InstallUnpack, InstallArm, InstallSync,
           UpdateReboot, PowerCut, AtShell, SafetyInv, PhaseSafe
  <1>5. UserStep => UNCHANGED <<phase, booted, disk>>
    BY DEF UserStep, NextByHand, CommitByHand, Switch, Rollback, ShellSync, Reboot, Retry, Rescue, AtShell, Rebooted, Halted
  <1> QED
    BY <1>1, <1>2, <1>3, <1>4, <1>5 DEF Next, vars

\* Whatever a user, the updater and power cuts did to the store before, the
\* initramfs switches only into a root that has come up healthy since it was
\* unpacked, into one a user's own commit marked good, or into one on trial with
\* a boot of its TRIES left.
THEOREM BootsProvenOrTrial ==
  Spec => [][SwitchRoot => \/ booted \in disk.proven \cup disk.vouched
                           \/ OnTrial(disk, booted) /\ trialBoots[booted] < TRIES]_vars
  <1>1. Init => SafetyInv /\ TrialInv /\ BootChosen
    BY InitSafe, TrialInit DEF Init, BootChosen
  <1>2. SafetyInv /\ TrialInv /\ BootChosen /\ [Next]_vars => (SafetyInv /\ TrialInv /\ BootChosen)'
    BY StepSafe, StepTrial, StepChosen
  <1>3. SafetyInv /\ TrialInv /\ BootChosen /\ TrialInv'
          => (SwitchRoot => \/ booted \in disk.proven \cup disk.vouched
                            \/ OnTrial(disk, booted) /\ trialBoots[booted] < TRIES)
    <2> SUFFICES ASSUME SafetyInv, BootChosen, TrialInv', SwitchRoot, OnTrial(disk, booted)
                 PROVE  trialBoots[booted] < TRIES
      <3>1. ASSUME SafetyInv, BootChosen, SwitchRoot
            PROVE  booted \in disk.proven \cup disk.vouched \/ OnTrial(disk, booted)
        <4>1. booted \in Slots
          BY <3>1 DEF SwitchRoot, SafetyInv, TypeOK
        <4>2. Good(disk, booted) \/ OnTrial(disk, booted)
          BY <3>1, <4>1 DEF SwitchRoot, BootChosen
        <4>3. Good(disk, booted) => booted \in disk.proven \cup disk.vouched
          BY <3>1, <4>1 DEF SwitchRoot, SafetyInv, StoresSafe, GoodIsProven
        <4> QED
          BY <4>2, <4>3
      <3> QED
        BY <3>1
    <2>1. booted \in Slots /\ trialBoots[booted] \in Nat
      BY DEF SwitchRoot, SafetyInv, TypeOK
    <2>2. trialBoots'[booted] = trialBoots[booted] + 1
      BY <2>1 DEF SwitchRoot, SafetyInv, TypeOK
    <2>3. trialBoots'[booted] <= TRIES
      BY <2>1 DEF TrialInv, TrialBounded
    <2> QED
      BY <2>1, <2>2, <2>3, TriesAssumption
  <1> QED
    BY <1>1, <1>2, <1>3, PTL DEF Spec

-----------------------------------------------------------------------------
(* A boot loop runs out: what is left of it falls with every step.         *)

\* The boot has come to an end: the goal of BootLoopEnds.
Settled == phase = "rescue" \/ health \in {"commit", "reset", "done", "failed", "unwatched"}

\* The phases a boot in phase p may still go through.
PhasesLeft(p) ==
  CASE p = "store" -> 5 [] p = "adopt" -> 4 [] p = "next" -> 3
    [] p = "switch" -> 2 [] p = "up" -> 1 [] OTHER -> 0

\* A boot goes through five phases between one count and the next.
Left == 6 * (TRIES_MAX - count) + PhasesLeft(phase)

\* The steps that bring a boot on, or end it.
BootStep == InitramfsStep \/ WatchStep \/ UpdateReboot \/ Reboot \/ PowerCut

LEMMA PhasesLeftValue ==
  /\ PhasesLeft("off") = 0
  /\ PhasesLeft("rescue") = 0
  /\ PhasesLeft("up") = 1
  /\ PhasesLeft("switch") = 2
  /\ PhasesLeft("next") = 3
  /\ PhasesLeft("adopt") = 4
  /\ PhasesLeft("store") = 5
  /\ \A p \in Phases : PhasesLeft(p) \in 0 .. 5
  BY DEF PhasesLeft, Phases

\* There are never more than five phases for each try left, and five.
LEMMA LeftBounded ==
  /\ TypeOK => Left \in 0 .. 6 * TRIES_MAX + 5
  /\ TypeOK' => Left' \in 0 .. 6 * TRIES_MAX + 5
  <1>1. \A n \in 0 .. TRIES_MAX, k \in 0 .. 5 :
          6 * (TRIES_MAX - n) + k \in 0 .. 6 * TRIES_MAX + 5
    BY TriesMaxAssumption
  <1> QED
    BY <1>1, PhasesLeftValue DEF Left, TypeOK

LEMMA LeftNatural ==
  /\ TypeOK => Left \in Nat
  /\ TypeOK' => Left' \in Nat
  BY LeftBounded, TriesMaxAssumption

\* A step that leaves count alone goes on to a later phase.
LEMMA LaterPhase ==
  ASSUME TypeOK, TypeOK', count' = count, PhasesLeft(phase') < PhasesLeft(phase)
  PROVE  Left' < Left
  <1>1. \A n \in 0 .. TRIES_MAX, k, l \in 0 .. 5 :
          l < k => 6 * (TRIES_MAX - n) + l < 6 * (TRIES_MAX - n) + k
    BY TriesMaxAssumption
  <1> QED
    BY <1>1, PhasesLeftValue DEF Left, TypeOK

LEMMA InitramfsRunsOut ==
  ASSUME TypeOK, TypeOK', InitramfsStep
  PROVE  /\ Left' <= Left
         /\ Settled' \/ Left' < Left
  <1>1. Left \in Nat /\ Left' \in Nat
    BY LeftNatural
  <1>2. CASE CountTry /\ TooManyTries
    <2>1. phase = "off" /\ phase' = "rescue" /\ count' = count
      BY <1>2 DEF CountTry, EnterRescue
    <2>2. Left' = Left
      BY <2>1, PhasesLeftValue DEF Left
    <2> QED
      BY <1>1, <2>1, <2>2 DEF Settled
  <1>3. CASE CountTry /\ ~TooManyTries
    <2>1. phase = "off" /\ phase' = "store" /\ count' = count + 1
      BY <1>3 DEF CountTry, CountedTry
    <2>2. \A n \in 0 .. TRIES_MAX : 6 * (TRIES_MAX - (n + 1)) + 5 < 6 * (TRIES_MAX - n) + 0
      BY TriesMaxAssumption
    <2>3. Left' = 6 * (TRIES_MAX - (count + 1)) + 5 /\ Left = 6 * (TRIES_MAX - count) + 0
      BY <2>1, PhasesLeftValue DEF Left
    <2>4. count \in 0 .. TRIES_MAX
      BY DEF TypeOK
    <2>5. Left' < Left
      BY <2>2, <2>3, <2>4
    <2> QED
      BY <1>1, <2>5
  <1>4. CASE ~CountTry
    <2>1. count' = count
      BY <1>4 DEF InitramfsStep, StoreFails, RescueMarker, StoreReady, Adopt, AdoptSync, TakeNext,
                  NoRoot, SwitchRoot
    <2>2. PhasesLeft(phase') < PhasesLeft(phase)
      <3>1. \/ phase = "store" /\ phase' \in {"rescue", "next", "adopt"}
            \/ phase = "adopt" /\ phase' = "next"
            \/ phase = "next" /\ phase' = "switch"
            \/ phase = "switch" /\ phase' \in {"rescue", "up"}
        BY <1>4 DEF InitramfsStep, StoreFails, RescueMarker, StoreReady, Adopt, AdoptSync,
                    TakeNext, NoRoot, SwitchRoot, EnterRescue
      <3> QED
        BY <3>1, PhasesLeftValue
    <2>3. Left' < Left
      BY <2>1, <2>2, LaterPhase
    <2> QED
      BY <1>1, <2>3
  <1> QED
    BY <1>2, <1>3, <1>4

\* The unit stops.
LEMMA HaltedRunsOut ==
  ASSUME TypeOK, TypeOK', phase \notin {"off", "rescue"}, Halted, count' = count
  PROVE  Left' < Left
  <1>1. PhasesLeft(phase') < PhasesLeft(phase)
    BY PhasesLeftValue DEF Halted, TypeOK, Phases
  <1> QED
    BY <1>1, LaterPhase

\* However its slots fail and however often the power does, every step of a boot
\* brings it to BootLoopEnds's goal or lowers the natural number Left, which no
\* other step raises: a loop is over after 6 * TRIES_MAX + 5 of them.
THEOREM BootLoopRunsOut ==
  Spec => /\ [](Left \in 0 .. 6 * TRIES_MAX + 5)
          /\ [][~Settled => /\ Left' <= Left
                            /\ BootStep => Settled' \/ Left' < Left]_vars
  <1> DEFINE RunsOut == ~Settled => /\ Left' <= Left
                                    /\ BootStep => Settled' \/ Left' < Left
  <1>1. ASSUME SafetyInv, SafetyInv', Next, ~Settled
        PROVE  /\ Left' <= Left
               /\ BootStep => Settled' \/ Left' < Left
    <2>1. TypeOK /\ TypeOK' /\ PhaseSafe
      BY <1>1 DEF SafetyInv
    <2>2. Left \in Nat /\ Left' \in Nat
      BY <2>1, LeftNatural
    <2>3. phase # "rescue" /\ health = "watch"
      BY <1>1, <2>1 DEF Settled, TypeOK, Healths
    <2>4. CASE InitramfsStep
      BY <2>1, <2>4, InitramfsRunsOut
    <2>5. CASE UpdateReboot \/ Reboot \/ PowerCut
      <3>1. Left' < Left
        BY <2>1, <2>3, <2>5, HaltedRunsOut DEF UpdateReboot, Reboot, PowerCut, Rebooted, PhaseSafe
      <3> QED
        BY <2>2, <3>1
    <2>6. CASE Unhealthy /\ Rebooted
      <3>1. Left' < Left
        BY <2>1, <2>6, HaltedRunsOut DEF Unhealthy, Rebooted
      <3> QED
        BY <2>2, <3>1
    <2>7. CASE UNCHANGED <<phase, count>> /\ (BootStep => Settled')
      <3>1. Left' = Left
        BY <2>7 DEF Left
      <3> QED
        BY <2>2, <2>7, <3>1
    <2>8. WatchStep => (Unhealthy /\ Rebooted) \/ (UNCHANGED <<phase, count>> /\ Settled')
      BY <2>3 DEF WatchStep, Healthy, Commit, ResetCount, Unhealthy, Settled
    <2>9. InstallStep \/ (\E keep \in BOOLEAN : InstallBegin(keep))
            => UpdateReboot \/ UNCHANGED <<phase, count>>
      BY DEF InstallStep, InstallBegin, InstallRemove, InstallFail, InstallUnpack, InstallArm,
             InstallSync
    <2>10. UserStep => Reboot \/ UNCHANGED <<phase, count>>
      BY <2>3 DEF UserStep, NextByHand, CommitByHand, Switch, Rollback, ShellSync, Rescue, Retry
    <2> QED
      BY <1>1, <2>4, <2>5, <2>6, <2>7, <2>8, <2>9, <2>10 DEF Next, BootStep
  <1>2. ASSUME SafetyInv, SafetyInv', [Next]_vars
        PROVE  [RunsOut]_vars
    BY <1>1, <1>2
  <1>3. SafetyInv => Left \in 0 .. 6 * TRIES_MAX + 5
    BY LeftBounded DEF SafetyInv
  <1> HIDE DEF RunsOut
  <1>4. SafetyInv /\ SafetyInv' /\ [Next]_vars => [RunsOut]_vars
    BY <1>2
  <1>5. Spec => [](Left \in 0 .. 6 * TRIES_MAX + 5) /\ [][RunsOut]_vars
    BY <1>3, <1>4, InitSafe, StepSafe, PTL DEF Spec
  <1> QED
    BY <1>5 DEF RunsOut

-----------------------------------------------------------------------------
(* DotBoot implements BoundedBoot, for every TRIES, TRIES_MAX, set of      *)
(* commands and choice of flags: each of its steps is one that BoundedBoot *)
(* allows, or changes nothing that BoundedBoot can see.                    *)


\* A slot that was healthy has no trial boots until the count is reset, so
\* that no boot is forgotten whose trial is not over.
HealthyInv ==
  /\ trialBoots \in [Slots -> Nat]
  /\ phase = "up" /\ health \in {"commit", "reset"} => trialBoots[booted] = 0

\* Only a slot that is being booted has its trial boots raised.
LEMMA HealthyStep == SafetyInv /\ HealthyInv /\ [Next]_vars => HealthyInv'
  <1> SUFFICES ASSUME SafetyInv, HealthyInv, [Next]_vars PROVE HealthyInv'
    OBVIOUS
  <1>1. trialBoots' \in [Slots -> Nat]
    BY StepSafe DEF SafetyInv, TypeOK
  <1>2. /\ phase = "up" => booted \in Slots
        /\ install.slot \in Slots
    BY DEF SafetyInv, PhaseSafe, TypeOK
  <1>3. CASE InitramfsStep
    BY <1>1, <1>3 DEF HealthyInv, InitramfsStep, CountTry, StoreFails, RescueMarker, StoreReady,
       Adopt, AdoptSync, TakeNext, NoRoot, SwitchRoot, EnterRescue
  <1>4. CASE Healthy
    BY <1>1, <1>2, <1>4 DEF HealthyInv, Healthy
  <1>5. CASE Commit \/ ResetCount
    BY <1>1, <1>5 DEF HealthyInv, Commit, ResetCount
  <1>6. CASE Unhealthy
    BY <1>1, <1>6 DEF HealthyInv, Unhealthy, Rebooted, Halted
  <1>7. CASE InstallArm
    BY <1>1, <1>2, <1>7 DEF HealthyInv, InstallArm
  <1>8. CASE InstallRemove \/ InstallFail \/ InstallUnpack \/ InstallSync
    BY <1>1, <1>8 DEF HealthyInv, InstallRemove, InstallFail, InstallUnpack, InstallSync
  <1>9. CASE UpdateReboot \/ Reboot \/ Retry \/ PowerCut
    BY <1>1, <1>9 DEF HealthyInv, UpdateReboot, Reboot, Retry, PowerCut, Rebooted, Halted
  <1>10. ASSUME NEW s \in Slots, Switch(s)
         PROVE  HealthyInv'
    BY <1>1, <1>2, <1>10 DEF HealthyInv, Switch
  <1>11. CASE NextByHand \/ CommitByHand \/ Rollback \/ ShellSync \/ \E on \in BOOLEAN : Rescue(on)
    BY <1>1, <1>11 DEF HealthyInv, NextByHand, CommitByHand, Rollback, ShellSync, Rescue
  <1>12. CASE \E keep \in BOOLEAN : InstallBegin(keep)
    BY <1>1, <1>12 DEF HealthyInv, InstallBegin
  <1>13. CASE UNCHANGED vars
    BY <1>1, <1>13 DEF HealthyInv, vars
  <1> QED
    BY <1>3, <1>4, <1>5, <1>6, <1>7, <1>8, <1>9, <1>10, <1>11, <1>12, <1>13
       DEF Next, WatchStep, InstallStep, UserStep

-----------------------------------------------------------------------------
(* The steps BoundedBoot sees.                                             *)

\* It sees nothing else than these.
LEMMA Unseen ==
  ASSUME UNCHANGED <<phase, booted, count, trialBoots>>
  PROVE  UNCHANGED Bounded!bbvars
  BY DEF Bounded!bbvars

\* Every process of a boot gone is its stop.
LEMMA HaltStops ==
  ASSUME Halted, UNCHANGED <<count, trialBoots>>
  PROVE  Bounded!Stop
  BY DEF Halted, Bounded!Stop

\* The initramfs attempts, runs a slot, or stays in rescue.
LEMMA InitramfsAllowed ==
  ASSUME SafetyInv, TrialInv, InitramfsStep
  PROVE  [Bounded!Next]_Bounded!bbvars
  <1>1. CASE CountTry
    <2>1. count \in Nat
      BY DEF SafetyInv, TypeOK
    <2>2. CASE TooManyTries
      BY <1>1, <2>2 DEF CountTry, EnterRescue, TooManyTries, Bounded!StayInRescue, Bounded!Next
    <2>3. CASE ~TooManyTries
      BY <1>1, <2>1, <2>3, TriesMaxAssumption
         DEF CountTry, CountedTry, TooManyTries, Bounded!Attempt, Bounded!Next
    <2> QED
      BY <2>2, <2>3
  <1>2. CASE StoreFails \/ RescueMarker \/ NoRoot
    BY <1>2 DEF StoreFails, RescueMarker, NoRoot, EnterRescue, Bounded!StayInRescue, Bounded!Next
  <1>3. CASE StoreReady \/ Adopt \/ AdoptSync \/ TakeNext
    BY <1>3 DEF StoreReady, Adopt, AdoptSync, TakeNext, Bounded!bbvars
  <1>4. CASE SwitchRoot
    <2>1. booted \in Slots
      BY <1>4 DEF SwitchRoot, SafetyInv, TypeOK
    <2>2. trialBoots \in [Slots -> Nat] /\ disk \in Stores
      BY DEF SafetyInv, TypeOK
    <2>3. OnTrial(disk, booted) => trialBoots[booted] < TRIES
      BY <1>4, <2>1, <2>2, TriesAssumption DEF SwitchRoot, TrialInv, Stores
    <2>4. Bounded!Run(booted)
      BY <1>4, <2>1, <2>3 DEF SwitchRoot, Bounded!Run
    <2> QED
      BY <2>1, <2>4 DEF Bounded!Next
  <1> QED
    BY <1>1, <1>2, <1>3, <1>4 DEF InitramfsStep

\* boot.sh's watch proves the root, then forgets the attempts.
LEMMA WatchAllowed ==
  ASSUME SafetyInv, HealthyInv, WatchStep
  PROVE  [Bounded!Next]_Bounded!bbvars
  <1>1. CASE Healthy
    BY <1>1 DEF Healthy, Bounded!Prove, Bounded!Next
  <1>2. CASE Commit
    BY <1>2, Unseen DEF Commit
  <1>3. CASE ResetCount
    BY <1>3 DEF ResetCount, HealthyInv, Bounded!ForgetAttempts, Bounded!Next
  <1>4. CASE Unhealthy
    BY <1>4, Unseen, HaltStops DEF Unhealthy, Rebooted, Bounded!Next
  <1> QED
    BY <1>1, <1>2, <1>3, <1>4 DEF WatchStep

\* An install, or a user's switch, offers a root a trial.
LEMMA OthersAllowed ==
  ASSUME SafetyInv,
         InstallStep \/ (\E keep \in BOOLEAN : InstallBegin(keep)) \/ UserStep \/ PowerCut
  PROVE  [Bounded!Next]_Bounded!bbvars
  <1>1. CASE InstallArm
    <2>1. phase \in {"up", "rescue"} /\ install.slot \in Slots
      BY <1>1 DEF InstallArm, SafetyInv, PhaseSafe, TypeOK
    <2>2. Bounded!Offer(install.slot)
      BY <1>1, <2>1 DEF InstallArm, Bounded!Offer
    <2> QED
      BY <2>1, <2>2 DEF Bounded!Next
  <1>2. CASE InstallRemove \/ InstallFail \/ InstallUnpack \/ InstallSync
    BY <1>2, Unseen DEF InstallRemove, InstallFail, InstallUnpack, InstallSync
  <1>3. CASE \E keep \in BOOLEAN : InstallBegin(keep)
    BY <1>3, Unseen DEF InstallBegin
  <1>4. CASE UpdateReboot \/ Reboot
    BY <1>4, HaltStops DEF UpdateReboot, Reboot, Rebooted, Bounded!Next
  <1>5. CASE PowerCut
    BY <1>5, HaltStops DEF PowerCut, Bounded!Next
  <1>6. CASE Retry
    BY <1>6 DEF Retry, Rebooted, Halted, Bounded!RetryAll, Bounded!Next
  <1>7. ASSUME NEW s \in Slots, Switch(s)
        PROVE  [Bounded!Next]_Bounded!bbvars
    <2>1. phase \in {"up", "rescue"} /\ UNCHANGED <<phase, booted, count>>
      BY <1>7 DEF Switch, AtShell
    <2>2. CASE UNCHANGED trialBoots
      BY <2>1, <2>2, Unseen
    <2>3. CASE trialBoots' = [trialBoots EXCEPT ![s] = 0]
      BY <2>1, <2>3 DEF Bounded!Offer, Bounded!Next
    <2> QED
      BY <1>7, <2>2, <2>3 DEF Switch
  <1>8. CASE NextByHand \/ CommitByHand \/ Rollback \/ ShellSync \/ \E on \in BOOLEAN : Rescue(on)
    BY <1>8, Unseen DEF NextByHand, CommitByHand, Rollback, ShellSync, Rescue
  <1> QED
    BY <1>1, <1>2, <1>3, <1>4, <1>5, <1>6, <1>7, <1>8 DEF InstallStep, UserStep

\* A unit makes at most TRIES_MAX attempts in a row without a healthy boot, and
\* runs an image on trial at most TRIES times, in whatever order tries, commits,
\* installs, commands and power cuts come: DotBoot implements BoundedBoot.
THEOREM BoundedBootKept == Spec => KeepsBoundedBoot
  <1>1. Init => SafetyInv /\ TrialInv /\ HealthyInv
    BY InitSafe, TrialInit DEF Init, HealthyInv
  <1>2. SafetyInv /\ TrialInv /\ HealthyInv /\ [Next]_vars => (SafetyInv /\ TrialInv /\ HealthyInv)'
    BY StepSafe, StepTrial, HealthyStep
  <1>3. Init => Bounded!Init
    BY DEF Init, Bounded!Init
  <1>4. SafetyInv /\ TrialInv /\ HealthyInv /\ [Next]_vars => [Bounded!Next]_Bounded!bbvars
    <2>1. UNCHANGED vars => UNCHANGED Bounded!bbvars
      BY Unseen DEF vars
    <2> QED
      BY <2>1, InitramfsAllowed, WatchAllowed, OthersAllowed DEF Next
  <1> QED
    BY <1>1, <1>2, <1>3, <1>4, PTL DEF Spec, KeepsBoundedBoot, Bounded!Spec
=============================================================================
