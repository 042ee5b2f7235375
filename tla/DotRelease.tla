----------------------------- MODULE DotRelease -----------------------------
(***************************************************************************)
(* From a published release to a unit's boot image: the signed manifest,   *)
(* the checked downloads in a work folder that stays from run to run       *)
(* (techo5lib.py's Release and download_checked), what is taken out of     *)
(* them and the choice of the kernel (dotimage.py), for install-dot.py     *)
(* (step 3) and update-boot.py.  One tool runs at a time.                  *)
(*                                                                         *)
(* A place is a release's folder and a file in it; its content is "right"  *)
(* when it is what that release's manifest names.  Releases are numbered   *)
(* in the order they are published; the base of Alpine has release 0, and  *)
(* so has whatever a manifest nobody signed names.                         *)
(***************************************************************************)
EXTENDS MkImage, FiniteSets

CONSTANTS
  Boards,        \* the boards of the units the tools are run for
  Releases,      \* the numbers of the releases
  FirstKernels,  \* the first release with every board's kernels
  MaxFaults      \* how often the network, a run or the power fails

ASSUME ReleasesAssumption ==
  /\ Boards \subseteq {"biscuit", "radar", "donut"}
  /\ Releases \subseteq Nat \ {0}
  /\ FirstKernels \in Nat
  /\ MaxFaults \in Nat

VARIABLES
  latest,    \* the release that is the latest
  kept,      \* the work folder: the content of each place
  partial,   \* the content of each place's .partial file
  fresh,     \* the downloads a power cut may lose: kept, never flushed
  ask,       \* what the tool was asked for
  at,        \* how far it is
  raw,       \* the manifest it fetched, not yet believed
  rel,       \* the release it works from
  todo,      \* the files and steps it still has before it
  image,     \* the boot image it built, or NoImage
  faults

folder == <<kept, partial, fresh>>
mind   == <<raw, rel, todo, image>>
vars   == <<latest, folder, ask, at, mind, faults>>

Forged   == 0
Files    == {"rootfs", "rootfs-donut", "kernel", "kernel-radar", "kernel-61", "apks"}
Derived  == {"packages", "tools"}
Steps    == Files \cup Derived \cup {"alpine"}
Numbers  == Releases \cup {Forged}
Places   == Numbers \X Steps
Contents == {"none", "half", "bad", "right"}

\* --kernel takes a file, built for some board or not readable;
\* --no-bluetooth-kernel takes none; on61 is what uname -r of the unit says.
Asks ==
  {a \in [board : Boards, on61 : BOOLEAN, line : {"", "61", "318"},
          kernel : {"release", "none", "unreadable", "biscuit", "radar"}] :
     /\ a.board = "donut" => a.kernel = "release"
     /\ a.on61 \/ a.line # "" => a.board = "radar"
     /\ a.line # "" => a.kernel = "release"}

NoImage == [made |-> FALSE]

Images ==
  [made : {TRUE}, rel : Numbers, of : SUBSET Contents,
   kernel : {"donor", "unreadable", "biscuit", "radar", "radar-61"}, board : Boards]

States == {"idle", "manifest", "signature", "files", "write", "hash", "replace", "derive"}

TypeOK ==
  /\ latest \in Releases
  /\ kept \in [Places -> Contents]
  /\ partial \in [Places -> Contents]
  /\ fresh \subseteq Places
  /\ ask \in Asks
  /\ at \in States
  /\ raw \in Numbers
  /\ rel \in Numbers
  /\ todo \in Seq(Steps)
  /\ image \in Images \cup {NoImage}
  /\ faults \in 0..MaxFaults

\* An empty work folder.
Init ==
  /\ latest \in Releases
  /\ kept = [pl \in Places |-> "none"]
  /\ partial = [pl \in Places |-> "none"]
  /\ fresh = {}
  /\ ask \in Asks
  /\ at = "idle"
  /\ raw = Forged
  /\ rel = Forged
  /\ todo = <<>>
  /\ image = NoImage
  /\ faults = 0

-----------------------------------------------------------------------------
Fault == faults < MaxFaults /\ faults' = faults + 1

\* The tool ends: what it knew is gone, the folder is not.
Ends ==
  /\ at' = "idle"
  /\ raw' = Forged
  /\ rel' = Forged
  /\ todo' = <<>>

Stop == Ends /\ UNCHANGED image

Published == {r \in Releases : r <= latest}

\* Releases before dot-v1.0.19 have biscuit's kernel only.  What a forged
\* manifest names is up to who forged it.
Named(r) ==
  IF r = Forged \/ r >= FirstKernels THEN Files ELSE Files \ {"kernel-radar", "kernel-61"}

Publish ==
  /\ latest + 1 \in Releases
  /\ latest' = latest + 1
  /\ UNCHANGED <<folder, ask, at, mind, faults>>

-----------------------------------------------------------------------------
(* The manifest and its signature: two requests.                           *)

Begin ==
  /\ at = "idle"
  /\ at' = "manifest"
  /\ image' = NoImage
  /\ UNCHANGED <<latest, folder, ask, raw, rel, todo, faults>>

\* A cache may answer with an earlier release's, anybody in between with any.
GetManifest ==
  /\ at = "manifest"
  /\ \/ raw' = latest /\ UNCHANGED faults
     \/ raw' \in Published \cup {Forged} /\ Fault
  /\ at' = "signature"
  /\ UNCHANGED <<latest, folder, ask, rel, todo, image>>

\* Mutant: a manifest is believed without its signature.
Verified_Unsigned(manifest, sig) == TRUE

\* There is no signature over a forged manifest.
Verified(manifest, sig) == manifest # Forged /\ sig = manifest

\* Linux 6.1 is asked for, or runs on the unit and is not asked away.
Is61(a) == a.line = "61" \/ (a.on61 /\ a.line # "318")

\* Mutant: the 3.18 kernel will do where there is no 6.1 one.
KernelFor_Either(a, r) ==
  CASE Is61(a) /\ "kernel-61" \in Named(r) -> "kernel-61"
    [] a.board = "biscuit" -> "kernel"
    [] a.board = "radar" /\ ~(Is61(a) /\ "kernel-61" \in Named(r)) -> "kernel-radar"
    [] a.board = "donut" -> "donor"

\* The release's kernel for the unit, or "donor": it keeps its own.
KernelFor(a, r) ==
  CASE a.board = "donut"   -> "donor"
    [] a.board = "biscuit" -> "kernel"
    [] OTHER -> LET k == IF Is61(a) THEN "kernel-61" ELSE "kernel-radar"
                IN  IF k \in Named(r) THEN k ELSE "donor"

\* Mutant: a file is fetched for "none", too.
MoreKernels_Any(k) == IF k = "kernel" THEN <<>> ELSE <<k>>

\* What kernel_for has yet to fetch.
MoreKernels(k) == IF k \in {"kernel", "donor"} THEN <<>> ELSE <<k>>

\* DotRelease's files in order, then kernel_for's if it is another one.
Plan(a, r) ==
  LET k == IF a.kernel = "release" THEN KernelFor(a, r) ELSE "donor"
  IN  (IF a.board = "donut" THEN <<"rootfs-donut">> ELSE <<"rootfs", "kernel">>)
      \o <<"apks", "packages", "tools", "alpine">>
      \o MoreKernels(k)

GetSignature ==
  /\ at = "signature"
  /\ \E sig \in Published :
       /\ IF sig = latest THEN UNCHANGED faults ELSE Fault
       /\ IF Verified(raw, sig)
          THEN /\ at' = "files"
               /\ rel' = raw
               /\ todo' = Plan(ask, raw)
               /\ UNCHANGED <<raw, image>>
          ELSE Stop
  /\ UNCHANGED <<latest, folder, ask>>

-----------------------------------------------------------------------------
(* download_checked, a file at a time.                                     *)

\* The base of Alpine has a folder, and a checksum, of its own.
Place == IF Head(todo) = "alpine" THEN <<Forged, "alpine">> ELSE <<rel, Head(todo)>>

AtFile(state) == at = state /\ todo # <<>>

NextFile == at' = "files" /\ todo' = Tail(todo)

\* One already there and right stays.
Reusable(pl) == kept[pl] = "right"

Reuse ==
  /\ AtFile("files")
  /\ Head(todo) \notin Derived
  /\ Reusable(Place)
  /\ NextFile
  /\ UNCHANGED <<latest, folder, ask, raw, rel, image, faults>>

\* Mutant: a .partial file must not be there yet.
MayOpen_Exclusive(pl) == partial[pl] = "none"

MayOpen(pl) == TRUE

\* The .partial file is opened, and whatever was in it is gone.
Download ==
  /\ AtFile("files")
  /\ Head(todo) \notin Derived
  /\ ~Reusable(Place)
  /\ IF MayOpen(Place)
     THEN /\ partial' = [partial EXCEPT ![Place] = "half"]
          /\ at' = "write"
          /\ UNCHANGED mind
     ELSE Stop /\ UNCHANGED partial
  /\ UNCHANGED <<latest, kept, fresh, ask, faults>>

\* The answer is in the file, right or not.
Receive ==
  /\ AtFile("write")
  /\ \/ partial' = [partial EXCEPT ![Place] = "right"] /\ UNCHANGED faults
     \/ \E c \in {"half", "bad"} : partial' = [partial EXCEPT ![Place] = c] /\ Fault
  /\ at' = "hash"
  /\ UNCHANGED <<latest, kept, fresh, ask, mind>>

\* Mutant: what came is not hashed.
Matches_Any(pl) == TRUE

Matches(pl) == partial[pl] = "right"

\* The .partial file is hashed; a wrong one is removed.
Check ==
  /\ AtFile("hash")
  /\ IF Matches(Place)
     THEN /\ at' = "replace"
          /\ UNCHANGED <<partial, mind>>
     ELSE /\ partial' = [partial EXCEPT ![Place] = "none"]
          /\ Stop
  /\ UNCHANGED <<latest, kept, fresh, ask, faults>>

Replace ==
  /\ AtFile("replace")
  /\ kept' = [kept EXCEPT ![Place] = partial[Place]]
  /\ partial' = [partial EXCEPT ![Place] = "none"]
  /\ fresh' = fresh \cup {Place}
  /\ NextFile
  /\ UNCHANGED <<latest, ask, raw, rel, image, faults>>

-----------------------------------------------------------------------------
(* What is taken out of them, each time anew.                              *)

RootfsOf(board) == IF board = "donut" THEN "rootfs-donut" ELSE "rootfs"

\* The packages come out of their archive, busybox and the Wi-Fi bring-up out
\* of the root filesystem.
Source ==
  <<rel, IF Head(todo) = "packages" THEN "apks" ELSE RootfsOf(ask.board)>>

TakeOut ==
  /\ AtFile("files")
  /\ Head(todo) \in Derived
  /\ kept' = [kept EXCEPT ![Place] = "half"]
  /\ at' = "derive"
  /\ UNCHANGED <<latest, partial, fresh, ask, mind, faults>>

TakenOut ==
  /\ AtFile("derive")
  /\ kept' = [kept EXCEPT ![Place] = kept[Source]]
  /\ NextFile
  /\ UNCHANGED <<latest, partial, fresh, ask, raw, rel, image, faults>>

-----------------------------------------------------------------------------
(* The kernel and the image.                                               *)

\* The kernel's file: the release's, one given, or none.
KernelFile ==
  CASE ask.kernel = "release" -> KernelFor(ask, rel)
    [] ask.kernel = "none"    -> "donor"
    [] OTHER                  -> ask.kernel

\* What the kernel says it was built for (kernel_board, kernel_is_61).
BuiltFor(kernel) ==
  CASE kernel = "kernel"       -> "biscuit"
    [] kernel = "kernel-radar" -> "radar"
    [] kernel = "kernel-61"    -> "radar-61"
    [] OTHER                   -> kernel

\* A kernel of another board, or of none that can be read, is refused, and so
\* is none where the 6.1 one is due.
Fits(a, kernel) ==
  IF kernel = "donor"
  THEN ~Is61(a)
  ELSE BuiltFor(kernel) \in (IF a.board = "radar" THEN {"radar", "radar-61"} ELSE {a.board})

\* What the image is built of, and the root filesystem that goes with it.
Parts ==
  {<<Forged, "alpine">>, <<rel, "packages">>, <<rel, "tools">>, <<rel, RootfsOf(ask.board)>>}
  \cup (IF KernelFile \in Files THEN {<<rel, KernelFile>>} ELSE {})

AllThere == at = "files" /\ todo = <<>>

Refuse ==
  /\ AllThere
  /\ ~Fits(ask, KernelFile)
  /\ Stop
  /\ UNCHANGED <<latest, folder, ask, faults>>

\* mkimage.py on the unit's own backup, whose command line may leave too little
\* room.
Build ==
  /\ AllThere
  /\ Fits(ask, KernelFile)
  /\ Complete(Initramfs(ask.board))
  /\ Ends
  /\ \E fits \in CmdlineFits :
       image' = IF ~fits THEN NoImage
                ELSE [made |-> TRUE, rel |-> rel, of |-> {kept[pl] : pl \in Parts},
                      kernel |-> BuiltFor(KernelFile), board |-> ask.board]
  /\ UNCHANGED <<latest, folder, ask, faults>>

-----------------------------------------------------------------------------
(* Runs that end early.                                                    *)

\* The network, the disk or the user ends a run.
Die ==
  /\ at # "idle"
  /\ Fault
  /\ Stop
  /\ UNCHANGED <<latest, folder, ask>>

\* The PC loses power, and the data of a file it had not flushed.
PowerCut ==
  /\ Fault
  /\ \E lost \in fresh : kept' = [kept EXCEPT ![lost] = "half"]
  /\ fresh' = {}
  /\ Stop
  /\ UNCHANGED <<latest, partial, ask>>

Step ==
  \/ GetManifest \/ GetSignature
  \/ Reuse \/ Download \/ Receive \/ Check \/ Replace
  \/ TakeOut \/ TakenOut \/ Refuse \/ Build

Next == Publish \/ PowerCut \/ Begin \/ Die \/ Step

\* A tool that runs runs on; nobody has to start one.
Spec == Init /\ [][Next]_vars /\ WF_vars(Step)

-----------------------------------------------------------------------------
(* Properties.                                                             *)

\* "Keeps a download only once its sha256 is the one expected"
\* (download_checked): nothing but a power cut leaves another file in its
\* place, however runs ended and whatever they left.
KeptOnlyChecked ==
  [][\A pl \in Places :
       pl[2] \notin Derived /\ kept'[pl] # kept[pl] => kept'[pl] = "right" \/ PowerCut]_vars

\* Whatever was left in the work folder and whatever the network answered, an
\* image is built of one release's files, all as its signed manifest names
\* them (Release: "Everything this hands back is named in the manifest, and the
\* manifest is believed only with the release key's signature over it").
BuiltIsSigned ==
  image.made => image.rel \in Releases /\ image.of = {"right"}

\* A unit never gets another board's kernel, which would not boot it, nor, when
\* it runs Linux 6.1 or is asked to, the 3.18 one in its place without being
\* asked (update-boot.py, install-dot.py).
KernelIsTheUnits ==
  image.made =>
    /\ image.kernel \in {"donor", image.board} \cup
         (IF image.board = "radar" THEN {"radar-61"} ELSE {})
    /\ ask.kernel = "release" /\ (ask.line = "61" \/ (ask.on61 /\ ask.line = ""))
         => image.kernel = "radar-61"

\* Whatever the donor's command line, the kernel sees its words without the
\* dropped ones, each other word whole and in its place, and the image's own
\* (mkimage.py: "quoted values kept whole").
CmdlineClean == image.made => CmdlineKeepsWords

\* Through a tree that keeps the last copy of a path and an archive that keeps
\* the first, the image has this repository's init and tools, and on a Dot 3
\* the supplicant built here: Alpine's does not get it onto the network.
ImageIsOurs ==
  image.made =>
    \A path \in {"init", "usr/local/sbin/slotctl", Tool(image.board)} :
      Initramfs(image.board)[path] = "techo5"

-----------------------------------------------------------------------------
(* The promise TrustedImage makes of an image, kept by these runs: the     *)
(* parts of the abstract run are the places of the work folder.            *)

Trusted == INSTANCE TrustedImage WITH
  Nobody <- Forged, Fetched <- Files \cup {"alpine"}, Made <- Derived,
  newest <- latest,
  trusted <- rel,
  parts <- IF rel = Forged THEN {} ELSE Parts,
  held <- kept,
  built <- IF image.made THEN image.rel ELSE Forged

\* "Keeps a download only once its sha256 is the one expected"
\* (download_checked), "everything this hands back is named in the manifest,
\* and the manifest is believed only with the release key's signature over it"
\* (Release): every step of a run, however it ends and whatever earlier ones
\* left, is one TrustedImage allows, or changes nothing it can see.
KeepsTrustedImage == Trusted!Spec

-----------------------------------------------------------------------------
\* Nothing a failed or killed run or a power cut leaves in the work folder
\* stays in the way: a tool that is started again and again comes to have
\* everything it needs.
RetriesSucceed == []<>(at # "idle") => []<>AllThere
=============================================================================
