--------------------------- MODULE LifelineProofs ---------------------------
(***************************************************************************)
(* A unit that is left alone is never stranded: NeverStranded of DotBoot,  *)
(* for every TRIES and TRIES_MAX, of a unit no user gives commands to and  *)
(* that installs updates only from a committed slot.                       *)
(***************************************************************************)
EXTENDS DotBootProofs

-----------------------------------------------------------------------------
(* One store.                                                              *)

\* Slot s is good, whole and proven, and booted next, or fallen back to: more
\* than a lifeline in that a store that names no slot has no other good one.
Home(st, s) ==
  /\ st.marker
  /\ Good(st, s)
  /\ st.tree[s] = "whole"
  /\ s \in st.proven
  /\ st.active = s \/ ~Good(st, Other(s))

\* No slot has a state: the store waits to be adopted, or its adoption was cut
\* short.
Stateless(st) ==
  /\ \A s \in Slots : st.mark[s] = "none"
  /\ ~st.marker => st.tree[Adoptee(st)] = "whole"

Safe(st) == Stateless(st) \/ \E s \in Slots : Home(st, s)

\* The two slots.
LEMMA TwoSlots ==
  /\ \A s \in Slots : Other(s) \in Slots /\ Other(s) # s /\ Other(Other(s)) = s
  /\ \A s, t \in Slots : s # t => t = Other(s)
  /\ NoSlot \notin Slots
  BY DEF Slots, Other, NoSlot

\* A safe store strands nobody.
LEMMA SafeHasLifeline ==
  ASSUME NEW st, Safe(st), \E s \in Slots : st.mark[s] # "none"
  PROVE  Lifeline(st)
  BY DEF Safe, Stateless, Home, Lifeline

\* What an install does to the other slot leaves a slot the home it is.
LEMMA HomeKept ==
  ASSUME NEW st \in Stores, NEW s \in Slots, NEW t \in Slots, s # t, Home(st, s)
  PROVE  /\ Home(Gutted(st, t), s)
         /\ Home(TreeGone(st, t), s)
         /\ Home(StateGone(st, t), s)
         /\ Home(Unpacking(st, t), s)
         /\ Home(Unpacked(st, t), s)
         /\ \A n \in 0 .. TRIES : Home(SetTrial(st, t, n), s)
         /\ ~Good(st, t) => Home(SetActive(st, t), s)
  <1>1. t = Other(s) /\ s = Other(t)
    BY TwoSlots
  <1> QED
    BY <1>1 DEF Stores, Home, Good, Gutted, TreeGone, StateGone, SetMark, Unpacking, Unpacked,
                SetTrial, SetActive

\* So do the stores a power cut may leave of its writes.
LEMMA HomeLostData ==
  ASSUME NEW st \in Stores, NEW s \in Slots, NEW t \in Slots, s # t, Home(st, s)
  PROVE  \A x \in LostData(st, t) : Home(x, s)
  <1>1. StateGone(st, t) \in Stores
    BY TreeStores
  <1> QED
    BY <1>1, HomeKept DEF LostData

\* Of two slots that might be home, the active one is.
LEMMA GoodActiveIsHome ==
  ASSUME NEW st, NEW s \in Slots, Safe(st), Good(st, s), st.active = s
  PROVE  Home(st, s)
  BY TwoSlots DEF Safe, Stateless, Home, Good

\* slotctl next keeps a store safe between its two writes and after them.  The
\* slot it prints is then the active one, and good or on trial.
LEMMA NextSafe ==
  ASSUME NEW st \in Stores, st.marker, Safe(st)
  PROVE  /\ Safe(NextMarked(st)) /\ Safe(NextStore(st))
         /\ NextSlot(st) \in Slots =>
              /\ NextStore(st).active = NextSlot(st)
              /\ Good(NextStore(st), NextSlot(st)) \/ OnTrial(NextStore(st), NextSlot(st))
  <1>1. CASE Stateless(st)
    <2>1. \A s \in Slots : ~Good(st, s) /\ ~OnTrial(st, s)
      BY <1>1 DEF Stateless, Good, OnTrial
    <2>2. st.active # NoSlot => st.active \in Slots
      BY DEF Stores
    <2>3. FallbackSlot(st) \in Slots
      BY <2>2, TwoSlots DEF FallbackSlot, Slots
    <2>4. ~ActiveBoots(st) /\ NextSlot(st) = NoSlot
      BY <2>1, <2>2, <2>3 DEF NextSlot, ActiveBoots
    <2>5. NextMarked(st) = st /\ NextStore(st) = st
      BY <2>1, <2>2, <2>4 DEF NextMarked, NextStore
    <2> QED
      BY <2>4, <2>5, TwoSlots
  <1>2. ASSUME NEW s \in Slots, Home(st, s), st.active = s
        PROVE  NextMarked(st) = st /\ NextStore(st) = st /\ NextSlot(st) = s
    BY <1>2, TwoSlots DEF Home, Good, OnTrial, NextMarked, NextStore, NextSlot, ActiveBoots
  <1>3. ASSUME NEW s \in Slots, Home(st, s), st.active = NoSlot
        PROVE  /\ NextMarked(st) = st /\ NextStore(st) = SetActive(st, s)
               /\ NextSlot(st) = s
    <2>1. FallbackSlot(st) = s
      BY <1>3, TwoSlots DEF Home, Good, FallbackSlot, Slots, Other
    <2> QED
      BY <1>3, <2>1, TwoSlots DEF Home, NextMarked, NextStore, NextSlot, ActiveBoots
  <1>4. ASSUME NEW s \in Slots, Home(st, s), st.active = Other(s)
        PROVE  /\ Home(NextMarked(st), s) /\ Home(NextStore(st), s)
               /\ NextSlot(st) = Other(s) =>
                    /\ NextStore(st).active = Other(s)
                    /\ OnTrial(NextStore(st), Other(s))
               /\ NextSlot(st) = s => NextStore(st).active = s /\ Good(NextStore(st), s)
               /\ NextSlot(st) \in {s, Other(s)}
    <2> DEFINE t == Other(s)
    <2>1. t \in Slots /\ t # s /\ t # NoSlot /\ Other(t) = s /\ ~Good(st, t)
      BY <1>4, TwoSlots DEF Home
    <2>2. FallbackSlot(st) = s /\ Good(st, s)
      BY <1>4, <2>1 DEF FallbackSlot, Home
    <2>3. CASE OnTrial(st, t) /\ st.left[t] > 0
      <3>1. st.left[t] - 1 \in 0 .. TRIES
        BY <2>1, <2>3, TriesAssumption DEF Stores
      <3>2. ActiveBoots(st) /\ NextSlot(st) = t
        BY <1>4, <2>1, <2>3 DEF ActiveBoots, NextSlot
      <3>3. /\ NextMarked(st) = SetTrial(st, t, st.left[t] - 1)
            /\ NextStore(st) = SetTrial(st, t, st.left[t] - 1)
        BY <1>4, <2>1, <2>3, <3>2 DEF NextMarked, NextStore
      <3>4. /\ SetTrial(st, t, st.left[t] - 1).active = t
            /\ OnTrial(SetTrial(st, t, st.left[t] - 1), t)
        BY <1>4, <2>1 DEF SetTrial, OnTrial, Stores
      <3> QED
        BY <1>4, <2>1, <3>1, <3>2, <3>3, <3>4, HomeKept
    <2>4. CASE ~(OnTrial(st, t) /\ st.left[t] > 0)
      <3>1. ~ActiveBoots(st) /\ NextSlot(st) = s /\ s # NoSlot
        BY <1>4, <2>1, <2>2, <2>4, TwoSlots DEF ActiveBoots, NextSlot
      <3>2. Home(NextMarked(st), s)
        BY <1>4, <2>1, <2>4 DEF NextMarked, SetMark, Home, Good, Stores
      <3>3. NextStore(st) = SetActive(NextMarked(st), s)
        BY <3>1 DEF NextStore
      <3>4. NextMarked(st) \in Stores
        BY NextStores
      <3>5. Home(NextStore(st), s) /\ NextStore(st).active = s
        BY <3>2, <3>3, <3>4 DEF SetActive, Home, Good, Stores
      <3> QED
        BY <2>1, <3>1, <3>2, <3>5 DEF Home
    <2> QED
      BY <2>3, <2>4
  <1>5. ASSUME NEW s \in Slots, Home(st, s)
        PROVE  st.active \in {NoSlot, s, Other(s)}
    BY DEF Stores, Slots, Other
  <1>6. \A s \in Slots : Home(st, s) => Home(SetActive(st, s), s) /\ SetActive(st, s).active = s
    BY DEF Home, Good, SetActive, Stores
  <1>7. \A s \in Slots : Home(st, s) => Good(st, s) /\ Safe(st)
    BY DEF Home, Safe
  <1>8. \A s \in Slots : Home(SetActive(st, s), s) => Good(SetActive(st, s), s) /\ Safe(SetActive(st, s))
    BY DEF Home, Safe
  <1>9. ASSUME NEW s \in Slots, Home(st, s)
        PROVE  /\ Safe(NextMarked(st)) /\ Safe(NextStore(st))
               /\ NextSlot(st) \in Slots =>
                    /\ NextStore(st).active = NextSlot(st)
                    /\ Good(NextStore(st), NextSlot(st)) \/ OnTrial(NextStore(st), NextSlot(st))
    <2>1. CASE st.active = s
      BY <1>2, <1>7, <1>9, <2>1
    <2>2. CASE st.active = NoSlot
      BY <1>3, <1>6, <1>7, <1>8, <1>9, <2>2
    <2>3. CASE st.active = Other(s)
      BY <1>4, <1>9, <2>3 DEF Safe
    <2> QED
      BY <1>5, <1>9, <2>1, <2>2, <2>3
  <1> QED
    BY <1>1, <1>9 DEF Safe

\* Adopting the slot an old store has makes it home.
LEMMA AdoptSafe ==
  ASSUME NEW st \in Stores, ~st.marker, Safe(st), Adoptee(st) \in st.proven
  PROVE  Safe(AdoptMarked(st)) /\ Safe(AdoptStore(st))
  <1>1. Stateless(st)
    BY DEF Safe, Home
  <1>2. Adoptee(st) \in Slots /\ Other(Adoptee(st)) \in Slots /\ Other(Adoptee(st)) # Adoptee(st)
    BY TwoSlots DEF Adoptee, Slots, Stores
  <1>3. Stateless(AdoptMarked(st))
    BY <1>1 DEF Stateless, AdoptMarked, Stores
  <1>4. Home(AdoptStore(st), Adoptee(st))
    <2>1. AdoptStore(st) = SetMark(AdoptMarked(st), Adoptee(st), "good")
      BY <1>1, <1>2 DEF Stateless, AdoptStore
    <2>2. st.tree[Adoptee(st)] = "whole" /\ st.mark[Other(Adoptee(st))] = "none"
      BY <1>1, <1>2 DEF Stateless
    <2> QED
      BY <1>2, <2>1, <2>2 DEF Home, Good, SetMark, AdoptMarked, Stores
  <1> QED
    BY <1>2, <1>3, <1>4 DEF Safe

\* The rescue marker is nobody's home.
LEMMA RescueStoreSafe ==
  ASSUME NEW st \in Stores, NEW on \in BOOLEAN, Safe(st)
  PROVE  Safe(RescueStore(st, on))
  BY DEF Safe, Stateless, Home, Good, RescueStore, Adoptee, Stores

-----------------------------------------------------------------------------
(* The unit.                                                               *)

\* The slot that runs is home in every store a power cut may leave: it is
\* this boot's updates that fall back to it.
AtHome ==
  \A st \in survivors : Home(st, booted)

\* Or it is itself on trial, and nothing else writes to the store.
Trying ==
  /\ OnTrial(disk, booted)
  /\ survivors = {disk}
  /\ disk.active = booted
  /\ install.at = "none"
  /\ health = "commit" => disk.tree[booted] = "whole"

LifeInv ==
  /\ \A st \in survivors : Safe(st)
  /\ phase = "switch" /\ booted \in Slots =>
       /\ disk.active = booted
       /\ Good(disk, booted) \/ OnTrial(disk, booted)
  /\ phase = "up" => AtHome \/ Trying
  /\ install.at # "none" => phase = "up"

\* No step of a user's shell but a reboot is taken.
Alone == Commands = {} /\ UpdateOnTrial = FALSE

LEMMA NoCommands ==
  ASSUME Alone
  PROVE  /\ \A cmd : ~AtShell(cmd)
         /\ \A s \in Slots : ~Switch(s)
         /\ ~NextByHand /\ ~CommitByHand /\ ~Rollback
         /\ \A on \in BOOLEAN : ~Rescue(on)
  BY DEF Alone, NextByHand, CommitByHand, Switch, Rollback, Rescue, AtShell

LEMMA LifeInit == Init => LifeInv
  <1> SUFFICES ASSUME Init PROVE LifeInv
    OBVIOUS
  <1>1. survivors = {disk} /\ phase = "off" /\ install.at = "none"
    BY DEF Init, NoInstall
  <1>2. CASE disk = Provisioned
    <2>1. Home(disk, "a")
      BY <1>2 DEF Home, Good, Provisioned, Slots
    <2> QED
      BY <1>1, <2>1 DEF LifeInv, Safe, Slots
  <1>3. ASSUME NEW s \in {"a", NoSlot},
               disk = [Provisioned EXCEPT !.marker = FALSE, !.mark["a"] = "none", !.active = s]
        PROVE  LifeInv
    <2>1. Stateless(disk)
      BY <1>3 DEF Stateless, Adoptee, Provisioned, Slots, NoSlot
    <2> QED
      BY <1>1, <2>1 DEF LifeInv, Safe
  <1> QED
    BY <1>2, <1>3 DEF Init, BeforeStates

\* A boot that ends leaves a store of the survivors.
LEMMA LifeHalted ==
  ASSUME LifeInv, Halted, survivors' \subseteq survivors
  PROVE  LifeInv'
  BY DEF LifeInv, Halted, NoInstall

LEMMA LifeRebooted ==
  ASSUME SafetyInv, LifeInv, Rebooted
  PROVE  LifeInv'
  BY LifeHalted DEF Rebooted, Sync, SafetyInv, StoresSafe

\* A slot that is switched into is home, or on trial.
LEMMA LifeInitramfs ==
  ASSUME SafetyInv, LifeInv, InitramfsStep
  PROVE  LifeInv'
  <1>1. disk \in survivors /\ disk \in Stores /\ Safe(disk)
    BY DEF SafetyInv, StoresSafe, TypeOK, LifeInv
  <1>2. CASE CountTry \/ StoreFails \/ StoreReady
    BY <1>2 DEF LifeInv, CountTry, StoreFails, StoreReady, EnterRescue
  <1>3. CASE RescueMarker
    <2>1. Safe(RescueStore(disk, FALSE))
      BY <1>1, RescueStoreSafe
    <2> QED
      BY <1>3, <2>1 DEF LifeInv, RescueMarker, WriteSync, EnterRescue
  <1>4. CASE Adopt
    <2>1. Adoptee(disk) \in disk.proven
      BY <1>1, <1>4 DEF SafetyInv, StoresSafe, Adopt
    <2>2. Safe(AdoptMarked(disk)) /\ Safe(AdoptStore(disk))
      BY <1>1, <1>4, <2>1, AdoptSafe DEF Adopt
    <2> QED
      BY <1>4, <2>2 DEF LifeInv, Adopt, Write
  <1>5. CASE AdoptSync \/ NoRoot
    BY <1>1, <1>5 DEF LifeInv, AdoptSync, NoRoot, Sync, EnterRescue
  <1>6. CASE TakeNext
    <2>1. disk.marker
      BY <1>6 DEF TakeNext, SafetyInv, PhaseSafe
    <2>2. /\ Safe(NextMarked(disk)) /\ Safe(NextStore(disk))
          /\ NextSlot(disk) \in Slots =>
               /\ NextStore(disk).active = NextSlot(disk)
               /\ Good(NextStore(disk), NextSlot(disk))
                  \/ OnTrial(NextStore(disk), NextSlot(disk))
      BY <1>1, <2>1, NextSafe
    <2> QED
      BY <1>6, <2>2 DEF LifeInv, TakeNext, Write
  <1>7. CASE SwitchRoot
    <2>1. booted \in Slots
      BY <1>7 DEF SwitchRoot, SafetyInv, TypeOK
    <2>2. disk.active = booted /\ (Good(disk, booted) \/ OnTrial(disk, booted))
      BY <1>7, <2>1 DEF SwitchRoot, LifeInv
    <2>3. Good(disk, booted) => Home(disk, booted)
      BY <1>1, <2>1, <2>2, GoodActiveIsHome
    <2>4. install.at = "none"
      BY <1>7 DEF SwitchRoot, SafetyInv, PhaseSafe
    <2>5. /\ phase' = "up" /\ booted' = booted /\ disk' = disk /\ survivors' = {disk}
          /\ install' = install /\ health' \in {"watch", "unwatched"}
      BY <1>7 DEF SwitchRoot, Sync
    <2>6. (AtHome \/ Trying)'
      BY <2>2, <2>3, <2>4, <2>5 DEF AtHome, Trying
    <2> QED
      BY <1>1, <2>5, <2>6 DEF LifeInv
  <1> QED
    BY <1>2, <1>3, <1>4, <1>5, <1>6, <1>7 DEF InitramfsStep

\* What came up healthy is home, or about to be: a commit makes it so.
LEMMA LifeWatch ==
  ASSUME SafetyInv, LifeInv, WatchStep
  PROVE  LifeInv'
  <1>1. disk \in survivors /\ disk \in Stores /\ survivors \subseteq Stores
    BY DEF SafetyInv, StoresSafe, TypeOK
  <1>2. CASE Healthy
    <2> DEFINE Prove(st) == [st EXCEPT !.proven = @ \cup {booted}, !.vouched = @ \ {booted},
                                       !.tree[booted] = "whole"]
    <2>1. /\ phase = "up" /\ booted \in Slots /\ disk.marker
          /\ phase' = "up" /\ booted' = booted /\ install' = install
          /\ health = "watch" /\ health' = "commit"
          /\ disk' = Prove(disk) /\ survivors' = {Prove(st) : st \in survivors}
      BY <1>2 DEF Healthy, SafetyInv, PhaseSafe
    <2>2. ASSUME NEW st \in Stores, NEW s \in Slots, Home(st, s)
          PROVE  Home(Prove(st), s)
      BY <2>1, <2>2 DEF Home, Good, Stores
    <2>3. CASE AtHome
      <3>1. \A st \in survivors : Home(Prove(st), booted)
        BY <1>1, <2>1, <2>2, <2>3 DEF AtHome
      <3>2. AtHome'
        BY <2>1, <3>1 DEF AtHome
      <3> HIDE DEF Prove
      <3> QED
        BY <2>1, <3>1, <3>2 DEF LifeInv, Safe
    <2>4. CASE Trying
      <3>1. PICK s \in Slots : Home(disk, s)
        BY <1>1, <2>1, <2>4 DEF Trying, LifeInv, Safe, Stateless, OnTrial
      <3>2. Home(Prove(disk), s)
        BY <1>1, <2>2, <3>1
      <3>3. survivors' = {Prove(disk)}
        BY <2>1, <2>4 DEF Trying
      <3>4. /\ OnTrial(Prove(disk), booted) /\ Prove(disk).active = booted
            /\ Prove(disk).tree[booted] = "whole"
        BY <1>1, <2>1, <2>4 DEF Trying, OnTrial, Stores
      <3> HIDE DEF Prove
      <3>5. Trying'
        BY <2>1, <2>4, <3>3, <3>4 DEF Trying
      <3> QED
        BY <2>1, <3>2, <3>3, <3>5 DEF LifeInv, Safe
    <2> QED
      BY <2>1, <2>3, <2>4 DEF LifeInv
  <1>3. CASE Commit
    <2>1. /\ phase = "up" /\ booted \in Slots /\ disk.marker /\ booted \in disk.proven
          /\ phase' = "up" /\ booted' = booted
      BY <1>3 DEF Commit, SafetyInv, PhaseSafe, CommitProven
    <2>2. CASE AtHome
      <3>1. ~OnTrial(disk, booted)
        BY <1>1, <2>2 DEF AtHome, Home, Good, OnTrial
      <3>2. UNCHANGED <<disk, survivors>>
        BY <1>3, <3>1 DEF Commit
      <3> QED
        BY <2>1, <2>2, <3>2 DEF LifeInv, AtHome
    <2>3. CASE Trying
      <3>1. survivors' = {SetMark(disk, booted, "good")}
        BY <1>3, <2>3 DEF Commit, Trying, WriteSync, CommitStore
      <3>2. disk.tree[booted] = "whole" /\ disk.active = booted
        BY <1>3, <2>3 DEF Commit, Trying
      <3>3. Home(SetMark(disk, booted, "good"), booted)
        BY <1>1, <2>1, <3>2 DEF Home, Good, SetMark, Stores
      <3> QED
        BY <2>1, <3>1, <3>3 DEF LifeInv, AtHome, Safe
    <2> QED
      BY <2>1, <2>2, <2>3 DEF LifeInv
  <1>4. CASE ResetCount
    BY <1>4 DEF LifeInv, ResetCount, AtHome, Trying
  <1>5. CASE Unhealthy
    <2>1. CASE OnTrial(disk, booted)
      BY <1>5, <2>1, LifeRebooted DEF Unhealthy
    <2>2. CASE ~OnTrial(disk, booted)
      BY <1>5, <2>2 DEF LifeInv, Unhealthy, AtHome, Trying
    <2> QED
      BY <2>1, <2>2
  <1> QED
    BY <1>2, <1>3, <1>4, <1>5 DEF WatchStep

\* A write of an install from a slot that is home leaves it home everywhere.
LEMMA WriteAtHome ==
  ASSUME LifeInv, AtHome, booted \in Slots, phase' = "up", booted' = booted,
         NEW new, NEW passed, Write(new, passed),
         Home(new, booted), \A x \in passed : Home(x, booted)
  PROVE  LifeInv'
  <1>1. \A x \in survivors' : Home(x, booted)
    BY DEF Write, AtHome
  <1> QED
    BY <1>1 DEF LifeInv, AtHome, Safe

LEMMA LifeInstall ==
  ASSUME SafetyInv, LifeInv, Alone,
         InstallStep \/ \E keep \in BOOLEAN : InstallBegin(keep)
  PROVE  LifeInv'
  <1>1. disk \in survivors /\ disk \in Stores
    BY DEF SafetyInv, StoresSafe, TypeOK
  <1>2. ASSUME phase = "up", AtHome
        PROVE  booted \in Slots /\ Home(disk, booted)
    BY <1>1, <1>2 DEF AtHome, SafetyInv, PhaseSafe
  <1>3. ASSUME NEW keep \in BOOLEAN, InstallBegin(keep)
        PROVE  LifeInv'
    <2> DEFINE t == InstallTarget(disk)
    <2>1. phase = "up" /\ phase' = "up" /\ booted' = booted /\ t # booted
      BY <1>3, NoCommands DEF InstallBegin, NotRunning
    <2>2. t \in Slots
      BY <1>1, TwoSlots DEF InstallTarget, Stores, Slots
    <2>3. AtHome
      BY <1>3, <2>1, NoCommands DEF Alone, InstallBegin, LifeInv, Trying, Good, OnTrial
    <2>4. Home(Gutted(disk, t), booted)
      BY <1>1, <1>2, <2>1, <2>2, <2>3, HomeKept
    <2>5. Write(Gutted(disk, t), {})
      BY <1>3 DEF InstallBegin
    <2> QED
      BY <1>2, <2>1, <2>3, <2>4, <2>5, WriteAtHome
  <1>4. ASSUME InstallStep
        PROVE  /\ phase = "up" /\ AtHome
               /\ booted \in Slots /\ install.slot \in Slots /\ install.slot # booted
    <2>1. install.at # "none"
      BY <1>4 DEF InstallStep, InstallRemove, InstallFail, InstallUnpack, InstallArm,
                  InstallSync, UpdateReboot
    <2>2. phase = "up"
      BY <2>1 DEF LifeInv
    <2>3. AtHome
      BY <2>1, <2>2 DEF LifeInv, Trying
    <2>4. install.slot \in Slots
      BY DEF SafetyInv, TypeOK
    <2> QED
      BY <1>2, <2>1, <2>2, <2>3, <2>4 DEF SafetyInv, RunningRootKept
  <1> DEFINE t == install.slot
  <1>5. CASE InstallRemove
    <2> DEFINE emptied == TreeGone(disk, t)
               gone == StateGone(emptied, t)
    <2>1. /\ booted \in Slots /\ t \in Slots /\ booted # t
          /\ AtHome /\ phase = "up" /\ Home(disk, booted)
      BY <1>2, <1>4, <1>5 DEF InstallStep
    <2>2. emptied \in Stores /\ gone \in Stores
      BY <1>1, <2>1, TreeStores
    <2>3. Home(emptied, booted)
      BY <1>1, <2>1, HomeKept
    <2>4. Home(gone, booted)
      BY <2>1, <2>2, <2>3, HomeKept
    <2>5. Home(Unpacking(gone, t), booted)
      BY <2>1, <2>2, <2>4, HomeKept
    <2>6. /\ Write(Unpacking(gone, t), {emptied, gone})
          /\ phase' = "up" /\ booted' = booted
      BY <1>5, <2>1 DEF InstallRemove
    <2> QED
      BY <2>1, <2>3, <2>4, <2>5, <2>6, WriteAtHome
  <1>6. CASE InstallFail
    <2>1. /\ booted \in Slots /\ t \in Slots /\ booted # t
          /\ phase = "up" /\ Home(disk, booted)
      BY <1>2, <1>4, <1>6 DEF InstallStep
    <2>2. Home(TreeGone(disk, t), booted)
      BY <1>1, <2>1, HomeKept
    <2>3. survivors' = {TreeGone(disk, t)} /\ phase' = "up" /\ booted' = booted
      BY <1>6, <2>1 DEF InstallFail, WriteSync
    <2> QED
      BY <2>1, <2>2, <2>3 DEF LifeInv, AtHome, Safe
  <1>7. CASE InstallUnpack
    <2> DEFINE new == Unpacked(disk, t)
    <2>1. /\ booted \in Slots /\ t \in Slots /\ booted # t
          /\ AtHome /\ phase = "up" /\ Home(disk, booted)
      BY <1>2, <1>4, <1>7 DEF InstallStep
    <2>2. new \in Stores /\ Home(new, booted)
      BY <1>1, <2>1, TreeStores, HomeKept
    <2>3. \A x \in LostData(new, t) : Home(x, booted)
      BY <2>1, <2>2, HomeLostData
    <2>4. Write(new, LostData(new, t)) /\ phase' = "up" /\ booted' = booted
      BY <1>7, <2>1 DEF InstallUnpack
    <2> QED
      BY <2>1, <2>2, <2>3, <2>4, WriteAtHome
  <1>8. CASE InstallArm
    <2> DEFINE trial == SetTrial(disk, t, TRIES)
               new   == IF install.keep THEN trial ELSE SetActive(trial, t)
    <2>1. /\ booted \in Slots /\ t \in Slots /\ booted # t
          /\ AtHome /\ phase = "up" /\ Home(disk, booted)
      BY <1>2, <1>4, <1>8 DEF InstallStep
    <2>2. TRIES \in 0 .. TRIES /\ "good" \in Marks
      BY TriesAssumption DEF Marks
    <2>3. trial \in Stores /\ SetActive(trial, t) \in Stores
      BY <1>1, <2>1, <2>2, MarkStores
    <2>4. Home(trial, booted)
      BY <1>1, <2>1, <2>2, HomeKept
    <2>5. ~Good(trial, t)
      BY <1>1, <2>1 DEF Good, SetTrial, Stores
    <2>6. Home(SetActive(trial, t), booted)
      BY <2>1, <2>3, <2>4, <2>5, HomeKept
    <2>7. new \in Stores /\ Home(new, booted)
      BY <2>3, <2>4, <2>6
    <2>8. \A x \in LostData(trial, t) \cup LostData(new, t) : Home(x, booted)
      BY <2>1, <2>3, <2>4, <2>7, HomeLostData
    <2>9. /\ Write(new, LostData(trial, t) \cup LostData(new, t))
          /\ phase' = "up" /\ booted' = booted
      BY <1>8, <2>1 DEF InstallArm
    <2> QED
      BY <2>1, <2>7, <2>8, <2>9, WriteAtHome
  <1>9. CASE InstallSync
    <2>1. AtHome /\ phase = "up" /\ Home(disk, booted)
      BY <1>2, <1>4, <1>9 DEF InstallStep
    <2>2. survivors' = {disk} /\ phase' = "up" /\ booted' = booted
      BY <1>9, <2>1 DEF InstallSync, Sync
    <2> QED
      BY <1>1, <2>1, <2>2 DEF LifeInv, AtHome
  <1>10. CASE UpdateReboot
    BY <1>10, LifeRebooted DEF UpdateReboot
  <1> QED
    BY <1>3, <1>5, <1>6, <1>7, <1>8, <1>9, <1>10 DEF InstallStep

LEMMA LifeUser ==
  ASSUME SafetyInv, LifeInv, Alone, UserStep
  PROVE  LifeInv'
  <1>1. CASE ShellSync
    <2>1. disk \in survivors
      BY DEF SafetyInv, StoresSafe
    <2> QED
      BY <1>1, <2>1 DEF ShellSync, Sync, LifeInv, AtHome, Trying
  <1>2. CASE Reboot \/ Retry
    BY <1>2, LifeRebooted DEF Reboot, Retry
  <1> QED
    BY <1>1, <1>2, NoCommands DEF UserStep

LEMMA LifeStep == Alone /\ SafetyInv /\ LifeInv /\ [Next]_vars => LifeInv'
  <1> SUFFICES ASSUME Alone, SafetyInv, LifeInv, [Next]_vars PROVE LifeInv'
    OBVIOUS
  <1>1. CASE PowerCut
    BY <1>1, LifeHalted DEF PowerCut
  <1>2. CASE UNCHANGED vars
    BY <1>2 DEF vars, LifeInv, AtHome, Trying
  <1> QED
    BY <1>1, <1>2, LifeInitramfs, LifeWatch, LifeInstall, LifeUser DEF Next, Alone

\* A unit that no user gives commands to, and that updates itself only from a
\* committed slot, has in every store a power cut may leave, at any step of its
\* boots and updates, a good, whole, proven slot that is booted next or fallen
\* back to.
THEOREM NeverStrandedAlone ==
  ASSUME Alone
  PROVE  Spec => []NeverStranded
  <1>1. Init => SafetyInv /\ LifeInv
    BY InitSafe, LifeInit
  <1>2. SafetyInv /\ LifeInv /\ [Next]_vars => (SafetyInv /\ LifeInv)'
    BY StepSafe, LifeStep
  <1>3. LifeInv => NeverStranded
    BY SafeHasLifeline DEF LifeInv, NeverStranded
  <1> QED
    BY <1>1, <1>2, <1>3, PTL DEF Spec

-----------------------------------------------------------------------------
(* A slot to boot: AdoptionLasts, but for an adoption that was cut short.  *)

\* Some slot has a state.
Named(st) == \E s \in Slots : st.mark[s] # "none"

\* A store with a home has a slot to boot.
LEMMA HomeBoots ==
  ASSUME NEW st \in Stores, NEW s \in Slots, Home(st, s)
  PROVE  NextSlot(st) # NoSlot
  <1>1. st.active \in {NoSlot, s, Other(s)} /\ s # NoSlot /\ Other(s) # NoSlot
    BY TwoSlots DEF Stores, Slots, Other
  <1>2. CASE st.active = s
    BY <1>1, <1>2 DEF Home, ActiveBoots, NextSlot
  <1>3. CASE st.active = NoSlot
    BY <1>1, <1>3, TwoSlots DEF Home, Good, Slots, FallbackSlot, NextSlot, ActiveBoots
  <1>4. CASE st.active = Other(s)
    BY <1>1, <1>4, TwoSlots DEF Home, FallbackSlot, NextSlot, ActiveBoots
  <1> QED
    BY <1>1, <1>2, <1>3, <1>4

\* slotctl next finds one in every safe store that names a slot's state.
LEMMA NamedBoots ==
  ASSUME NEW st \in Stores, Safe(st), Named(st)
  PROVE  NextSlot(st) # NoSlot
  BY HomeBoots DEF Safe, Stateless, Named

\* Whatever the power does, a boot of a unit that is left alone goes to rescue
\* for want of a slot only on a store no slot of which has a state: the one that
\* a power cut in the adoption of an old store leaves (init's two writes).
THEOREM NamedStoreBoots ==
  ASSUME Alone
  PROVE  Spec => [][TakeNext /\ Named(disk) => booted' # NoSlot]_vars
  <1>1. Init => SafetyInv /\ LifeInv
    BY InitSafe, LifeInit
  <1>2. SafetyInv /\ LifeInv /\ [Next]_vars => (SafetyInv /\ LifeInv)'
    BY StepSafe, LifeStep
  <1>3. SafetyInv /\ LifeInv => (TakeNext /\ Named(disk) => booted' # NoSlot)
    BY NamedBoots DEF SafetyInv, StoresSafe, TypeOK, LifeInv, TakeNext
  <1> QED
    BY <1>1, <1>2, <1>3, PTL DEF Spec

\* While the power stays on, an adopted store has a slot with a state.
AdoptedInv == AdoptionLasts /\ (disk.marker => Named(disk))

\* slotctl next takes no slot's state away.
LEMMA NextStillNamed ==
  ASSUME NEW st \in Stores, Named(st)
  PROVE  Named(NextStore(st))
  <1>1. PICK s \in Slots : st.mark[s] # "none"
    BY DEF Named
  <1>2. /\ SetTrial(st, st.active, st.left[st.active] - 1).mark[s] # "none"
        /\ SetMark(st, st.active, "bad").mark[s] # "none"
    BY <1>1 DEF SetTrial, SetMark, Stores
  <1>3. NextMarked(st).mark[s] # "none"
    BY <1>1, <1>2 DEF NextMarked
  <1>4. NextStore(st).mark = NextMarked(st).mark
    BY NextStores DEF NextStore, SetActive, Stores
  <1> QED
    BY <1>3, <1>4 DEF Named

\* A boot finds a slot, once it has adopted the store.
LEMMA AdoptedInitramfs ==
  ASSUME SafetyInv, LifeInv, AdoptedInv, InitramfsStep
  PROVE  AdoptedInv'
  <1>1. disk \in survivors /\ disk \in Stores /\ Safe(disk)
    BY DEF SafetyInv, StoresSafe, TypeOK, LifeInv
  <1> USE DEF AdoptedInv, AdoptionLasts
  <1>2. CASE CountTry \/ StoreFails \/ StoreReady \/ AdoptSync \/ NoRoot \/ SwitchRoot
    BY <1>2 DEF Named, CountTry, StoreFails, StoreReady, AdoptSync, NoRoot, SwitchRoot, EnterRescue
  <1>3. CASE RescueMarker
    BY <1>1, <1>3 DEF Named, RescueMarker, WriteSync, EnterRescue, RescueStore, Stores
  <1>4. CASE Adopt
    <2>1. Adoptee(disk) \in Slots
      BY <1>1 DEF Adoptee, Slots, Stores
    <2>2. Named(AdoptStore(disk))
      BY <1>1, <2>1 DEF Named, AdoptStore, AdoptMarked, SetMark, Stores
    <2> QED
      BY <1>4, <2>2 DEF Adopt, Write
  <1>5. CASE TakeNext
    <2>1. disk.marker
      BY <1>5 DEF TakeNext, SafetyInv, PhaseSafe
    <2>2. NextSlot(disk) # NoSlot
      BY <1>1, <2>1, NamedBoots
    <2>3. Named(NextStore(disk))
      BY <1>1, <2>1, NextStillNamed
    <2> QED
      BY <1>5, <2>2, <2>3 DEF TakeNext, Write
  <1> QED
    BY <1>2, <1>3, <1>4, <1>5 DEF InitramfsStep

\* What runs meanwhile leaves the slot that runs its state, and a reboot the store.
LEMMA AdoptedUnit ==
  ASSUME Alone, SafetyInv, LifeInv, AdoptedInv, (SafetyInv /\ LifeInv)',
         WatchStep \/ InstallStep \/ UserStep \/ \E keep \in BOOLEAN : InstallBegin(keep)
  PROVE  AdoptedInv'
  <1>1. CASE phase' = "up"
    <2>1. Named(disk)'
      BY <1>1 DEF SafetyInv, StoresSafe, PhaseSafe, LifeInv, AtHome, Trying, Home, Good, OnTrial,
                  Named
    <2> QED
      BY <1>1, <2>1 DEF AdoptedInv, AdoptionLasts
  <1>2. CASE phase' # "up" /\ Rebooted
    BY <1>2 DEF AdoptedInv, AdoptionLasts, Named, Rebooted, Halted
  <1>3. CASE phase' # "up" /\ ~Rebooted
    <2>1. phase # "up"
      BY <1>3, NoCommands
         DEF Alone, WatchStep, Healthy, Commit, ResetCount, Unhealthy, InstallStep, InstallBegin,
             InstallRemove, InstallFail, InstallUnpack, InstallArm, InstallSync, UpdateReboot,
             UserStep, ShellSync, Reboot, Retry
    <2>2. ShellSync
      BY <1>3, <2>1, NoCommands
         DEF LifeInv, WatchStep, Healthy, Commit, ResetCount, Unhealthy, InstallStep,
             InstallBegin, InstallRemove, InstallFail, InstallUnpack, InstallArm, InstallSync,
             UpdateReboot, UserStep, Reboot, Retry
    <2> QED
      BY <2>2 DEF AdoptedInv, AdoptionLasts, Named, ShellSync
  <1> QED
    BY <1>1, <1>2, <1>3

\* "say so once, so slotctl can take over the choosing" (init) holds of a unit
\* that is left alone while its power stays on: every boot finds a slot.
THEOREM AdoptionLastsPowered ==
  ASSUME Alone, PowerCuts = FALSE
  PROVE  Spec => []AdoptionLasts
  <1>1. Init => SafetyInv /\ LifeInv /\ AdoptedInv
    <2> SUFFICES ASSUME Init PROVE AdoptedInv
      BY InitSafe, LifeInit
    <2>1. disk = Provisioned => Named(disk)
      BY DEF Named, Provisioned, Slots
    <2>2. disk \in BeforeStates => ~disk.marker
      BY DEF BeforeStates, Provisioned
    <2> QED
      BY <2>1, <2>2 DEF Init, AdoptedInv, AdoptionLasts
  <1>2. SafetyInv /\ LifeInv /\ [Next]_vars => (SafetyInv /\ LifeInv)'
    BY StepSafe, LifeStep
  <1>3. SafetyInv /\ LifeInv /\ AdoptedInv /\ [Next]_vars => AdoptedInv'
    <2> SUFFICES ASSUME SafetyInv, LifeInv, AdoptedInv, [Next]_vars PROVE AdoptedInv'
      OBVIOUS
    <2>1. CASE UNCHANGED vars
      BY <2>1 DEF vars, AdoptedInv, AdoptionLasts, Named
    <2>2. ~PowerCut
      BY DEF PowerCut
    <2> QED
      BY <1>2, <2>1, <2>2, AdoptedInitramfs, AdoptedUnit DEF Next
  <1>4. AdoptedInv => AdoptionLasts
    BY DEF AdoptedInv
  <1> QED
    BY <1>1, <1>2, <1>3, <1>4, PTL DEF Spec
=============================================================================
