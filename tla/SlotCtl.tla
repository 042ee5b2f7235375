------------------------------ MODULE SlotCtl ------------------------------
(***************************************************************************)
(* slotctl (tools/linux/rootfs/usr/local/sbin/slotctl): the store on the   *)
(* cache partition and what each command reads from it and writes to it.   *)
(* The operators are functions from a store to a store; who runs them,     *)
(* when, and which of the writes a power cut keeps is DotBoot's business.  *)
(*                                                                         *)
(* A slot's root filesystem is abstracted to how much of it there is       *)
(* ("empty", "part", "whole": all of the image, or enough of it to have    *)
(* come up) and to what speaks for these contents: that they came up       *)
(* healthy on the unit (proven), or else that a user's own commit gave the *)
(* slot its mark (vouched).  Both are history fields no command reads.     *)
(***************************************************************************)
EXTENDS Naturals

CONSTANT TRIES          \* trial boots a newly installed slot gets

ASSUME TriesAssumption == TRIES \in Nat

Slots  == {"a", "b"}
NoSlot == "none"        \* no such file, or an empty answer
Other(s) == IF s = "a" THEN "b" ELSE "a"

Marks == {"none", "good", "trial", "bad"}
Trees == {"empty", "part", "whole"}

Stores == [ marker : BOOLEAN,                  \* .techo5-store is there
            active : Slots \cup {NoSlot},      \* the slot to boot next
            mark   : [Slots -> Marks],         \* slots/<x>.state ...
            left   : [Slots -> 0 .. TRIES],    \* ... and the n of "trial n"
            tree   : [Slots -> Trees],         \* slots/<x>
            rescue : BOOLEAN,                  \* the one-boot rescue marker
            proven : SUBSET Slots,             \* history: came up healthy
            vouched : SUBSET Slots ]           \* history: marked by a user

-----------------------------------------------------------------------------
(* set_state and set_active: each replaces one file by renaming.           *)

SetMark(st, s, m) ==
  [st EXCEPT !.mark[s] = m, !.left[s] = 0, !.vouched = @ \ {s}]

\* Mutants: one try too many; a slot put straight in use.
SetTrial_OneMore(st, s, n) ==
  [st EXCEPT !.mark[s] = "trial", !.left[s] = n + 1, !.vouched = @ \ {s}]
SetTrial_Good(st, s, n) == SetMark(st, s, "good")

SetTrial(st, s, n) ==
  [st EXCEPT !.mark[s] = "trial", !.left[s] = n, !.vouched = @ \ {s}]

SetActive(st, s) == [st EXCEPT !.active = s]

Good(st, s) == st.mark[s] = "good"

OnTrial(st, s) == st.mark[s] = "trial"

-----------------------------------------------------------------------------
(* slotctl next, run by the initramfs on a store with its marker.          *)

\* The slots next may print: the active one if it is good or has a try left,
\* the other one if only that is good; with no active slot, the first good one.
ActiveBoots(st) ==
  /\ st.active # NoSlot
  /\ \/ Good(st, st.active)
     \/ OnTrial(st, st.active) /\ st.left[st.active] > 0

FallbackSlot(st) ==
  IF st.active = NoSlot THEN (IF Good(st, "a") THEN "a" ELSE "b")
                        ELSE Other(st.active)

NextSlot(st) ==
  IF ActiveBoots(st) THEN st.active
  ELSE IF Good(st, FallbackSlot(st)) THEN FallbackSlot(st)
  ELSE NoSlot

\* Mutant: the try is not taken.
NextMarked_Kept(st) ==
  IF st.active = NoSlot \/ ~OnTrial(st, st.active) \/ st.left[st.active] > 0
  THEN st ELSE SetMark(st, st.active, "bad")

\* The first write: a try is taken, or a slot out of tries is marked bad.
NextMarked(st) ==
  IF st.active = NoSlot \/ ~OnTrial(st, st.active) THEN st
  ELSE IF st.left[st.active] > 0
       THEN SetTrial(st, st.active, st.left[st.active] - 1)
       ELSE SetMark(st, st.active, "bad")

\* The second: the slot fallen back to becomes the active one.
NextStore(st) ==
  IF ~ActiveBoots(st) /\ NextSlot(st) # NoSlot
  THEN SetActive(NextMarked(st), NextSlot(st))
  ELSE NextMarked(st)

\* It answers from what it read, without a sync, if the active slot is good, or
\* if there is none and none is good.
NextSyncs(st) ==
  IF st.active = NoSlot THEN NextSlot(st) # NoSlot ELSE ~Good(st, st.active)

-----------------------------------------------------------------------------
(* slotctl install <tar>, in the steps a power cut can fall between.       *)

InstallTarget(st) == IF st.active = NoSlot THEN "a" ELSE Other(st.active)

\* rm -rf slots/t slots/t.state: the tree goes file by file, then the state.
Gutted(st, t)    == [st EXCEPT !.tree[t] = IF @ = "empty" THEN @ ELSE "part"]
TreeGone(st, t)  == [st EXCEPT !.tree[t] = "empty", !.proven = @ \ {t}, !.vouched = @ \ {t}]

\* Mutant: the state file is left behind.
StateGone_Kept(st, t) == st

StateGone(st, t) == SetMark(st, t, "none")

Unpacking(st, t) == [st EXCEPT !.tree[t] = "part"]
Unpacked(st, t)  == [st EXCEPT !.tree[t] = "whole"]

\* What the disk may hold of slot t before a sync: the names are journalled
\* in order, the data behind them is not, so files can come back empty: the
\* tree's (a part of a tree) and a state file that replaced none (no state).
LostData(st, t) ==
  {st, Unpacking(st, t), StateGone(st, t), Unpacking(StateGone(st, t), t)}

-----------------------------------------------------------------------------
(* slotctl commit, switch, rollback, rescue.                               *)

CommitStore(st, s) == IF OnTrial(st, s) THEN SetMark(st, s, "good") ELSE st

\* The same from a user's hand, with nothing seen of the daemon.
VouchedStore(st, s) ==
  IF OnTrial(st, s)
  THEN [SetMark(st, s, "good") EXCEPT !.vouched = @ \cup ({s} \ st.proven)]
  ELSE st

SwitchMarked(st, s) ==
  IF Good(st, s) \/ OnTrial(st, s) THEN st ELSE SetTrial(st, s, TRIES)

SwitchStore(st, s) == SetActive(SwitchMarked(st, s), s)

\* A first state file is not flushed by the rename that puts it in place.
SwitchLost(st, s) ==
  IF st.mark[s] = "none" THEN {SetActive(st, s)} ELSE {}

RollbackMarked(st, s) == SetMark(st, s, "bad")

RollbackStore(st, s) == SetActive(RollbackMarked(st, s), Other(s))

RescueStore(st, on) == [st EXCEPT !.rescue = on]

-----------------------------------------------------------------------------
(* The initramfs's adoption of a store from before slot states: the marker *)
(* first, then "good" for the slot it has, if that has no state yet.       *)

Adoptee(st) == IF st.active = NoSlot THEN "a" ELSE st.active

AdoptMarked(st) == [st EXCEPT !.marker = TRUE]

AdoptStore(st) ==
  IF st.mark[Adoptee(st)] = "none"
  THEN SetMark(AdoptMarked(st), Adoptee(st), "good")
  ELSE AdoptMarked(st)
=============================================================================
