---------------------------- MODULE TrustedImage ----------------------------
(***************************************************************************)
(* What the tools promise of a boot image, with nothing of requests,       *)
(* signatures, hashes, half-written files or the order of the downloads:   *)
(* a run trusts one published release at most, settles which parts an      *)
(* image is made of, and makes one only while it has them all right; and a *)
(* part that was fetched goes wrong by a power cut alone.                  *)
(* DotRelease implements it.                                               *)
(***************************************************************************)
EXTENDS Naturals

CONSTANTS Releases, Nobody, Fetched, Made

VARIABLES
  newest,   \* the newest published release
  trusted,  \* the release a run works from, or Nobody
  parts,    \* what it makes an image of: a release, or Nobody, and a name
  held,     \* whether each part is at hand: "none", "half" or "right"
  built     \* the release an image was made from, or Nobody

tivars == <<newest, trusted, parts, held, built>>

Parts(names) == (Releases \cup {Nobody}) \X names
AllParts     == Parts(Fetched \cup Made)

\* A run touches its own release's parts, and those that belong to none.
Of(r) == {r, Nobody} \X (Fetched \cup Made)

Init ==
  /\ newest \in Releases
  /\ trusted = Nobody
  /\ parts = {}
  /\ held = [part \in AllParts |-> "none"]
  /\ built = Nobody

Publish ==
  /\ newest' = newest + 1
  /\ newest' \in Releases
  /\ UNCHANGED <<trusted, parts, held, built>>

Start ==
  /\ trusted = Nobody
  /\ built' = Nobody
  /\ UNCHANGED <<newest, trusted, parts, held>>

Trust(r) ==
  /\ trusted = Nobody
  /\ built = Nobody
  /\ r <= newest
  /\ trusted' = r
  /\ parts' \in (SUBSET Of(r)) \ {{}}
  /\ UNCHANGED <<newest, held, built>>

\* A part is at hand from one step to the next, and then it is right; one that
\* is right already is not fetched again.
Obtain(part) ==
  /\ trusted # Nobody
  /\ part \in Of(trusted)
  /\ held[part] # "right"
  /\ held' = [held EXCEPT ![part] = "right"]
  /\ UNCHANGED <<newest, trusted, parts, built>>

\* One that is made here is made anew.
MakeAnew(part) ==
  /\ trusted # Nobody
  /\ part \in Of(trusted)
  /\ held' = [held EXCEPT ![part] = "half"]
  /\ UNCHANGED <<newest, trusted, parts, built>>

Forget == trusted' = Nobody /\ parts' = {}

GiveUp ==
  /\ Forget
  /\ UNCHANGED <<newest, held, built>>

MakeImage ==
  /\ trusted # Nobody
  /\ \A part \in parts : held[part] = "right"
  /\ built' = trusted
  /\ Forget
  /\ UNCHANGED <<newest, held>>

LosePower(part) ==
  /\ Forget
  /\ held[part] = "right"
  /\ held' = [held EXCEPT ![part] = "half"]
  /\ UNCHANGED <<newest, built>>

Next ==
  \/ Publish \/ Start \/ GiveUp \/ MakeImage
  \/ \E r \in Releases : Trust(r)
  \/ \E part \in AllParts : Obtain(part)
  \/ \E part \in Parts(Made) : MakeAnew(part)
  \/ \E part \in Parts(Fetched) : LosePower(part)

Spec == Init /\ [][Next]_tivars
=============================================================================
