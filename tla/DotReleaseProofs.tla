-------------------------- MODULE DotReleaseProofs --------------------------
(***************************************************************************)
(* Theorems about DotRelease, for every set of boards and releases, every  *)
(* first release with all the kernels and every number of faults.          *)
(***************************************************************************)
EXTENDS DotRelease, MkImageProofs, TLAPS

USE ReleasesAssumption

-----------------------------------------------------------------------------
(* What is fetched, and where it is kept.                                  *)

\* The place of a step of the plan.
PlaceOf(s) == IF s = "alpine" THEN <<Forged, "alpine">> ELSE <<rel, s>>

\* The steps whose places an image is built of.
Needed ==
  {"alpine", "apks", "packages", "tools", RootfsOf(ask.board)}
  \cup (IF KernelFile \in Files THEN {KernelFile} ELSE {})

\* What a kernel may be called.
Kernels == {"kernel", "kernel-radar", "kernel-61", "donor"}

\* The steps still before the tool.
Ahead(seq) == {seq[i] : i \in DOMAIN seq}

\* The kernel of a release is one of these.
LEMMA KernelNamed == \A a, r : a.board \in {"biscuit", "radar", "donut"} => KernelFor(a, r) \in Kernels
  BY DEF KernelFor, Kernels


\* Nothing that is taken out of a file comes before the file.
Ordered(seq) ==
  \A i, j \in DOMAIN seq : i <= j /\ seq[i] \in Derived => seq[j] \notin {"apks", "rootfs", "rootfs-donut"}

\* DotRelease's files, in order, and what kernel_for may add.
First(board) ==
  (IF board = "donut" THEN <<"rootfs-donut">> ELSE <<"rootfs", "kernel">>)
  \o <<"apks", "packages", "tools", "alpine">>

\* What DotRelease fetches has everything in it but kernel_for's kernel.
LEMMA FirstShape ==
  ASSUME NEW board
  PROVE  /\ First(board) \in Seq(Steps)
         /\ Ordered(First(board))
         /\ {"alpine", "apks", "packages", "tools", RootfsOf(board)} \subseteq Ahead(First(board))
         /\ board # "donut" => "kernel" \in Ahead(First(board))
<1>1. CASE board = "donut"
  <2> DEFINE p == <<"rootfs-donut">> \o <<"apks", "packages", "tools", "alpine">>
  <2>1. <<"rootfs-donut">> \in Seq(Steps) /\ <<"apks", "packages", "tools", "alpine">> \in Seq(Steps)
    BY DEF Steps, Files, Derived
  <2>2. p \in Seq(Steps) /\ Len(p) = 5
    BY <2>1
  <2>3. /\ p[1] = "rootfs-donut" /\ p[2] = "apks" /\ p[3] = "packages"
        /\ p[4] = "tools" /\ p[5] = "alpine"
    BY <2>1
  <2>4. DOMAIN p = 1..5
    BY <2>2
  <2> HIDE DEF p
  <2>5. Ordered(p)
    BY <2>3, <2>4 DEF Ordered, Derived
  <2>6. {"alpine", "apks", "packages", "tools", "rootfs-donut"} \subseteq Ahead(p)
    BY <2>3, <2>4 DEF Ahead
  <2>7. First(board) = p
    BY <1>1 DEF First, p
  <2>8. QED
    BY <1>1, <2>2, <2>5, <2>6, <2>7 DEF RootfsOf
<1>2. CASE board # "donut"
  <2> DEFINE p == <<"rootfs", "kernel">> \o <<"apks", "packages", "tools", "alpine">>
  <2>1. <<"rootfs", "kernel">> \in Seq(Steps) /\ <<"apks", "packages", "tools", "alpine">> \in Seq(Steps)
    BY DEF Steps, Files, Derived
  <2>2. p \in Seq(Steps) /\ Len(p) = 6
    BY <2>1
  <2>3. /\ p[1] = "rootfs" /\ p[2] = "kernel" /\ p[3] = "apks" /\ p[4] = "packages"
        /\ p[5] = "tools" /\ p[6] = "alpine"
    BY <2>1
  <2>4. DOMAIN p = 1..6
    BY <2>2
  <2> HIDE DEF p
  <2>5. Ordered(p)
    BY <2>3, <2>4 DEF Ordered, Derived
  <2>6. {"alpine", "apks", "packages", "tools", "rootfs", "kernel"} \subseteq Ahead(p)
    BY <2>3, <2>4 DEF Ahead
  <2>7. First(board) = p
    BY <1>2 DEF First, p
  <2>8. QED
    BY <1>2, <2>2, <2>5, <2>6, <2>7 DEF RootfsOf
<1>3. QED
  BY <1>1, <1>2

\* The plan has every step the image needs, and what is taken out of a file
\* after the file.
LEMMA PlanShape ==
  ASSUME NEW a \in Asks, NEW r \in Numbers
  PROVE  /\ Plan(a, r) \in Seq(Steps)
         /\ Ordered(Plan(a, r))
         /\ {"alpine", "apks", "packages", "tools", RootfsOf(a.board)} \subseteq Ahead(Plan(a, r))
         /\ a.kernel = "release" /\ KernelFor(a, r) \in Files => KernelFor(a, r) \in Ahead(Plan(a, r))
<1> DEFINE k == IF a.kernel = "release" THEN KernelFor(a, r) ELSE "donor"
           p == First(a.board)
           q == MoreKernels(k)
<1>1. a.board \in {"biscuit", "radar", "donut"}
  BY DEF Asks
<1>2. k \in Kernels
  BY <1>1, KernelNamed DEF Kernels
<1>3. Plan(a, r) = p \o q
  BY DEF Plan, First
<1>4. p \in Seq(Steps) /\ Ordered(p)
  BY FirstShape
<1>5. q \in Seq(Steps) /\ \A i \in DOMAIN q : q[i] \in {"kernel-radar", "kernel-61"}
  <2>1. CASE k \in {"kernel", "donor"}
    BY <2>1 DEF MoreKernels
  <2>2. CASE k \notin {"kernel", "donor"}
    <3>1. q = <<k>> /\ k \in {"kernel-radar", "kernel-61"}
      BY <1>2, <2>2 DEF MoreKernels, Kernels
    <3>2. {"kernel-radar", "kernel-61"} \subseteq Steps
      BY DEF Steps, Files
    <3>3. \A x \in Steps : <<x>> \in Seq(Steps) /\ \A i \in DOMAIN <<x>> : <<x>>[i] = x
      OBVIOUS
    <3> HIDE DEF q, k
    <3>4. QED
      BY <3>1, <3>2, <3>3
  <2>3. QED
    BY <2>1, <2>2
<1>6. Len(q) \in Nat /\ Len(p) \in Nat /\ DOMAIN p = 1..Len(p) /\ DOMAIN q = 1..Len(q)
  BY <1>4, <1>5
<1>7. /\ p \o q \in Seq(Steps)
      /\ Len(p \o q) = Len(p) + Len(q)
      /\ \A i \in 1..(Len(p) + Len(q)) :
           (p \o q)[i] = IF i <= Len(p) THEN p[i] ELSE q[i - Len(p)]
  BY <1>4, <1>5, <1>6
<1>8. DOMAIN (p \o q) = 1..(Len(p) + Len(q))
  BY <1>6, <1>7
<1>9. \A i \in DOMAIN q : i + Len(p) \in DOMAIN (p \o q) /\ (p \o q)[i + Len(p)] = q[i]
  BY <1>6, <1>7, <1>8
<1>10. Ahead(p) \subseteq Ahead(p \o q) /\ Ahead(q) \subseteq Ahead(p \o q)
  <2>1. \A i \in DOMAIN p : i \in DOMAIN (p \o q) /\ (p \o q)[i] = p[i]
    BY <1>6, <1>7, <1>8
  <2>2. QED
    BY <1>9, <2>1 DEF Ahead
<1>11. Ordered(p \o q)
  <2> SUFFICES ASSUME NEW i \in DOMAIN (p \o q), NEW j \in DOMAIN (p \o q),
                      i <= j, (p \o q)[i] \in Derived
               PROVE  (p \o q)[j] \notin {"apks", "rootfs", "rootfs-donut"}
      BY DEF Ordered
  <2>1. CASE j <= Len(p)
    <3>1. i \in DOMAIN p /\ j \in DOMAIN p /\ (p \o q)[i] = p[i] /\ (p \o q)[j] = p[j]
      BY <1>6, <1>7, <1>8, <2>1
    <3>2. QED
      BY <1>4, <3>1 DEF Ordered
  <2>2. CASE j > Len(p)
    <3>1. j - Len(p) \in DOMAIN q /\ (p \o q)[j] = q[j - Len(p)]
      BY <1>6, <1>7, <1>8, <2>2
    <3>2. QED
      BY <1>5, <3>1
  <2>3. QED
    BY <1>6, <1>8, <2>1, <2>2
<1>12. {"alpine", "apks", "packages", "tools", RootfsOf(a.board)} \subseteq Ahead(p \o q)
  BY <1>10, FirstShape
<1>13. ASSUME a.kernel = "release", KernelFor(a, r) \in Files
       PROVE  KernelFor(a, r) \in Ahead(p \o q)
  <2>1. CASE k = "kernel"
    <3>1. a.board # "donut"
      BY <1>13, <2>1 DEF KernelFor
    <3>2. "kernel" \in Ahead(p)
      BY <3>1, FirstShape
    <3>3. QED
      BY <1>10, <1>13, <2>1, <3>2
  <2>2. CASE k # "kernel"
    <3>1. k # "donor"
      BY <1>13 DEF Files
    <3>2. q = <<k>>
      BY <2>2, <3>1 DEF MoreKernels
    <3>3. k \in Ahead(q)
      BY <3>2 DEF Ahead
    <3>4. QED
      BY <1>10, <1>13, <3>3
  <2>3. QED
    BY <2>1, <2>2
<1>14. QED
  BY <1>3, <1>7, <1>11, <1>12, <1>13
-----------------------------------------------------------------------------
(* Types.                                                                  *)

\* An end of a run keeps the types of what it changes.
LEMMA EndsTyped == Ends => at' \in States /\ raw' \in Numbers /\ rel' \in Numbers /\ todo' \in Seq(Steps)
  BY DEF Ends, States, Numbers

\* A fault is within its bound.
LEMMA FaultTyped == faults \in 0..MaxFaults /\ Fault => faults' \in 0..MaxFaults
  BY DEF Fault

\* The place of the file in hand is a place.
LEMMA PlaceTyped ==
  ASSUME TypeOK, todo # <<>>
  PROVE  /\ Head(todo) \in Steps /\ Tail(todo) \in Seq(Steps)
         /\ Place \in Places /\ Place[2] = Head(todo) /\ Place = PlaceOf(Head(todo))
  BY DEF TypeOK, Place, Places, Numbers, Steps, PlaceOf

\* An image built is an image.
LEMMA ImageTyped ==
  ASSUME TypeOK
  PROVE  [made |-> TRUE, rel |-> rel, of |-> {kept[pl] : pl \in Parts},
          kernel |-> BuiltFor(KernelFile), board |-> ask.board] \in Images
<1>1. ask.board \in Boards /\ ask.board \in {"biscuit", "radar", "donut"}
  BY DEF TypeOK, Asks
<1>2. ask.kernel \in {"release", "none", "unreadable", "biscuit", "radar"}
  BY DEF TypeOK, Asks
<1>3. KernelFile \in Kernels \cup {"unreadable", "biscuit", "radar"}
  BY <1>1, <1>2, KernelNamed DEF KernelFile, Kernels
<1>4. BuiltFor(KernelFile) \in {"donor", "unreadable", "biscuit", "radar", "radar-61"}
  BY <1>3 DEF BuiltFor, Kernels
<1>5. RootfsOf(ask.board) \in Steps
  BY DEF RootfsOf, Steps, Files
<1>6. Parts \subseteq Places
  BY <1>5 DEF TypeOK, Parts, Places, Numbers, Steps, Derived
<1>7. {kept[pl] : pl \in Parts} \subseteq Contents
  BY <1>6 DEF TypeOK
<1>8. QED
  BY <1>1, <1>4, <1>7 DEF TypeOK, Images

\* Every state is well typed.
THEOREM DownloadsTypes == Spec => []TypeOK
<1>1. Init => TypeOK
  BY DEF Init, TypeOK, Places, Contents, States, Numbers
<1>2. TypeOK /\ [Next]_vars => TypeOK'
  <2> SUFFICES ASSUME TypeOK, [Next]_vars PROVE TypeOK'
      OBVIOUS
  <2> USE DEF TypeOK
  <2>1. CASE UNCHANGED vars
    BY <2>1 DEF vars, folder, mind
  <2>2. CASE Publish \/ Begin
    BY <2>2 DEF Publish, Begin, folder, mind, States
  <2>3. CASE GetManifest
    BY <2>3, FaultTyped DEF GetManifest, folder, Published, Numbers, States
  <2>4. CASE GetSignature
    <3>1. PICK sig \in Published :
            /\ faults' = faults \/ Fault
            /\ IF Verified(raw, sig)
               THEN at' = "files" /\ rel' = raw /\ todo' = Plan(ask, raw) /\ UNCHANGED <<raw, image>>
               ELSE Stop
      BY <2>4 DEF GetSignature
    <3>2. faults' \in 0..MaxFaults
      BY <3>1, FaultTyped
    <3>3. Plan(ask, raw) \in Seq(Steps)
      BY PlanShape
    <3>4. UNCHANGED <<latest, kept, partial, fresh, ask>>
      BY <2>4 DEF GetSignature, folder
    <3>5. QED
      BY <3>1, <3>2, <3>3, <3>4, EndsTyped DEF Stop, States
  <2>5. CASE Reuse \/ Replace
    <3>1. todo # <<>>
      BY <2>5 DEF Reuse, Replace, AtFile
    <3>2. CASE Reuse
      BY <3>1, <3>2, PlaceTyped DEF Reuse, NextFile, folder, States
    <3>3. CASE Replace
      <4>1. Place \in Places /\ partial[Place] \in Contents
        BY <3>1, PlaceTyped
      <4>2. kept' \in [Places -> Contents] /\ partial' \in [Places -> Contents] /\ fresh' \subseteq Places
        BY <3>3, <4>1 DEF Replace, Contents
      <4>3. QED
        BY <3>1, <3>3, <4>2, PlaceTyped DEF Replace, NextFile, States
    <3>4. QED
      BY <2>5, <3>2, <3>3
  <2>6. CASE Download \/ Receive \/ Check
    <3>1. todo # <<>>
      BY <2>6 DEF Download, Receive, Check, AtFile
    <3>2. CASE Download
      BY <3>1, <3>2, PlaceTyped, EndsTyped DEF Download, Stop, mind, Contents, States
    <3>3. CASE Receive
      BY <3>1, <3>3, PlaceTyped, FaultTyped DEF Receive, mind, Contents, States
    <3>4. CASE Check
      BY <3>1, <3>4, PlaceTyped, EndsTyped DEF Check, Stop, mind, Contents, States
    <3>5. QED
      BY <2>6, <3>2, <3>3, <3>4
  <2>7. CASE TakeOut \/ TakenOut
    <3>1. todo # <<>>
      BY <2>7 DEF TakeOut, TakenOut, AtFile
    <3>2. CASE TakeOut
      BY <3>1, <3>2, PlaceTyped DEF TakeOut, mind, Contents, States
    <3>3. CASE TakenOut
      <4>1. RootfsOf(ask.board) \in Steps /\ "apks" \in Steps
        BY DEF RootfsOf, Steps, Files
      <4>2. Source \in Places
        BY <4>1 DEF Source, Places
      <4>3. kept[Source] \in Contents
        BY <4>2
      <4>4. kept' = [kept EXCEPT ![Place] = kept[Source]] /\ kept' \in [Places -> Contents]
        BY <3>3, <4>3 DEF TakenOut
      <4>5. QED
        BY <3>1, <3>3, <4>4, PlaceTyped DEF TakenOut, NextFile, States
    <3>4. QED
      BY <2>7, <3>2, <3>3
  <2>8. CASE Refuse \/ Die
    BY <2>8, EndsTyped, FaultTyped DEF Refuse, Die, Stop, folder
  <2>9. CASE Build
    <3>1. image' \in Images \cup {NoImage}
      BY <2>9, ImageTyped DEF Build
    <3>2. QED
      BY <2>9, <3>1, EndsTyped DEF Build, folder
  <2>10. CASE PowerCut
    BY <2>10, EndsTyped, FaultTyped DEF PowerCut, Stop, Contents
  <2>11. QED
    BY <2>1, <2>2, <2>3, <2>4, <2>5, <2>6, <2>7, <2>8, <2>9, <2>10 DEF Next, Step
<1>3. QED
  BY <1>1, <1>2, PTL DEF Spec

-----------------------------------------------------------------------------
(* What is in the work folder.                                             *)

Working == {"files", "write", "hash", "replace", "derive"}

\* What a step works on: a file to download, right by the time it is renamed,
\* or what is taken out of one.
InHand ==
  /\ at \in {"write", "hash", "replace"} => todo # <<>> /\ Head(todo) \notin Derived
  /\ at = "replace" => partial[Place] = "right"
  /\ at = "derive" => todo # <<>> /\ Head(todo) \in Derived

\* A tool works from a signed release, and has in place, right, whatever it
\* does not have before it any more.
Behind ==
  at \in Working =>
    /\ rel \in Releases
    /\ Ordered(todo)
    /\ \A s \in Needed : s \notin Ahead(todo) => kept[PlaceOf(s)] = "right"

FolderInv == TypeOK /\ InHand /\ Behind

\* One step fewer is before the tool, and what is left is in order.
LEMMA HeadAhead ==
  ASSUME TypeOK, todo # <<>>
  PROVE  /\ Head(todo) \in Ahead(todo)
         /\ Ahead(todo) \subseteq Ahead(Tail(todo)) \cup {Head(todo)}
         /\ Ordered(todo) => Ordered(Tail(todo))
<1>1. todo \in Seq(Steps) /\ Len(todo) \in Nat \ {0} /\ DOMAIN todo = 1..Len(todo) /\ Head(todo) = todo[1]
  BY DEF TypeOK
<1>2. /\ DOMAIN Tail(todo) = 1..(Len(todo) - 1)
      /\ \A i \in 1..(Len(todo) - 1) : Tail(todo)[i] = todo[i + 1]
  BY <1>1
<1>3. Head(todo) \in Ahead(todo)
  BY <1>1 DEF Ahead
<1>4. ASSUME NEW i \in DOMAIN todo PROVE todo[i] \in Ahead(Tail(todo)) \cup {Head(todo)}
  <2>1. CASE i = 1
    BY <1>1, <2>1
  <2>2. CASE i # 1
    <3>1. i - 1 \in DOMAIN Tail(todo) /\ Tail(todo)[i - 1] = todo[i]
      BY <1>1, <1>2, <2>2
    <3>2. QED
      BY <3>1 DEF Ahead
  <2>3. QED
    BY <2>1, <2>2
<1>5. ASSUME Ordered(todo) PROVE Ordered(Tail(todo))
  <2> SUFFICES ASSUME NEW i \in DOMAIN Tail(todo), NEW j \in DOMAIN Tail(todo), i <= j,
                      Tail(todo)[i] \in Derived
               PROVE  Tail(todo)[j] \notin {"apks", "rootfs", "rootfs-donut"}
      BY DEF Ordered
  <2>1. /\ i + 1 \in DOMAIN todo /\ j + 1 \in DOMAIN todo /\ i + 1 <= j + 1
        /\ Tail(todo)[i] = todo[i + 1] /\ Tail(todo)[j] = todo[j + 1]
    BY <1>1, <1>2
  <2>2. QED
    BY <1>5, <2>1 DEF Ordered
<1>6. QED
  BY <1>3, <1>4, <1>5 DEF Ahead

\* Files of two steps are in two places.
LEMMA PlacesApart == \A s, t : PlaceOf(s) = PlaceOf(t) => s = t
  BY DEF PlaceOf

\* A run that ended, or has not begun, has nothing in hand or behind it.
LEMMA Resting == at' \notin Working => InHand' /\ Behind'
  BY DEF InHand, Behind, Working

\* With the same plan, and the files behind the tool as they were, another file
\* in its place brings it forward.
LEMMA Forward ==
  ASSUME TypeOK, Behind, at \in Working, todo # <<>>,
         NextFile, UNCHANGED <<ask, rel>>,
         \A s \in Needed : s # Head(todo) => kept'[PlaceOf(s)] = kept[PlaceOf(s)],
         kept'[Place] = "right"
  PROVE  InHand' /\ Behind'
<1>1. InHand'
  BY DEF InHand, NextFile
<1>2. Needed' = Needed /\ \A s : PlaceOf(s)' = PlaceOf(s)
  BY DEF Needed, KernelFile, PlaceOf
<1>3. rel' \in Releases /\ Ordered(todo')
  BY HeadAhead DEF Behind, NextFile
<1>4. ASSUME NEW s \in Needed, s \notin Ahead(todo') PROVE kept'[PlaceOf(s)] = "right"
  <2>1. CASE s = Head(todo)
    BY <2>1, PlaceTyped
  <2>2. CASE s # Head(todo)
    <3>1. s \notin Ahead(todo)
      BY <1>4, <2>2, HeadAhead DEF NextFile
    <3>2. QED
      BY <2>2, <3>1 DEF Behind
  <2>3. QED
    BY <2>1, <2>2
<1>5. QED
  BY <1>1, <1>2, <1>3, <1>4 DEF Behind

\* With the file still before the tool, what is behind it stays.
LEMMA Onward ==
  ASSUME TypeOK, Behind, at \in Working, todo # <<>>,
         UNCHANGED <<ask, rel, todo>>,
         \A s \in Needed : s # Head(todo) => kept'[PlaceOf(s)] = kept[PlaceOf(s)]
  PROVE  Behind'
<1>1. Needed' = Needed /\ \A s : PlaceOf(s)' = PlaceOf(s)
  BY DEF Needed, KernelFile, PlaceOf
<1>2. ASSUME NEW s \in Needed, s \notin Ahead(todo') PROVE kept'[PlaceOf(s)] = "right"
  <2>1. s # Head(todo) /\ s \notin Ahead(todo)
    BY <1>2, HeadAhead
  <2>2. QED
    BY <2>1 DEF Behind
<1>3. QED
  BY <1>1, <1>2 DEF Behind

\* What a derived file is taken out of is there, and right.
LEMMA SourceRight ==
  ASSUME TypeOK, Behind, at \in Working, todo # <<>>, Head(todo) \in Derived
  PROVE  kept[Source] = "right"
<1> DEFINE s == IF Head(todo) = "packages" THEN "apks" ELSE RootfsOf(ask.board)
<1>1. s \in Needed /\ s \in {"apks", "rootfs", "rootfs-donut"}
  BY DEF Needed, RootfsOf
<1>2. s \notin Ahead(todo)
  <2>1. 1 \in DOMAIN todo /\ Head(todo) = todo[1] /\ \A i \in DOMAIN todo : 1 <= i
    BY DEF TypeOK
  <2>2. \A i \in DOMAIN todo : todo[i] \notin {"apks", "rootfs", "rootfs-donut"}
    BY <2>1 DEF Behind, Ordered
  <2>3. QED
    BY <1>1, <2>2 DEF Ahead
<1>3. kept[PlaceOf(s)] = "right"
  BY <1>1, <1>2 DEF Behind
<1>4. PlaceOf(s) = Source
  BY <1>1 DEF PlaceOf, Source
<1>5. QED
  BY <1>3, <1>4

\* A step keeps the folder and the plan in step with each other.
LEMMA FolderKept == FolderInv /\ [Next]_vars => InHand' /\ Behind'
<1> SUFFICES ASSUME FolderInv, [Next]_vars PROVE InHand' /\ Behind'
    OBVIOUS
<1> USE DEF FolderInv
<1>1. CASE UNCHANGED vars \/ Publish
  BY <1>1 DEF vars, Publish, folder, mind, InHand, Behind, Needed, KernelFile, PlaceOf, Place
<1>2. CASE Begin \/ GetManifest \/ Refuse \/ Build \/ Die \/ PowerCut
  <2>1. at' \notin Working
    BY <1>2 DEF Begin, GetManifest, Refuse, Build, Die, PowerCut, Stop, Ends, Working
  <2>2. QED
    BY <2>1, Resting
<1>3. CASE GetSignature
  <2>1. CASE at' \notin Working
    BY <2>1, Resting
  <2>2. CASE at' \in Working
    <3>1. PICK sig \in Published : Verified(raw, sig) /\ at' = "files" /\ rel' = raw /\ todo' = Plan(ask, raw)
      BY <1>3, <2>2 DEF GetSignature, Stop, Ends, Working
    <3>2. ask' = ask /\ ask \in Asks /\ raw \in Numbers
      BY <1>3 DEF GetSignature, TypeOK
    <3>3. rel' \in Releases
      BY <3>1 DEF Verified, Published
    <3>4. Ordered(todo')
      BY <3>1, <3>2, PlanShape
    <3>5. Needed' \subseteq Ahead(todo')
      <4>1. ASSUME KernelFile' \in Files PROVE ask.kernel = "release" /\ KernelFile' = KernelFor(ask, raw)
        BY <3>1, <3>2, <4>1 DEF KernelFile, Files, Asks
      <4>2. QED
        BY <3>1, <3>2, <4>1, PlanShape DEF Needed
    <3>6. QED
      BY <3>1, <3>3, <3>4, <3>5 DEF InHand, Behind
  <2>3. QED
    BY <2>1, <2>2
<1>4. CASE Reuse
  BY <1>4, Forward DEF Reuse, Reusable, AtFile, folder, Working
<1>5. CASE Download
  <2>1. CASE at' \notin Working
    BY <2>1, Resting
  <2>2. CASE at' \in Working
    <3>1. at' = "write" /\ UNCHANGED <<ask, rel, todo, kept>> /\ todo # <<>> /\ Head(todo) \notin Derived /\ at \in Working
      BY <1>5, <2>2 DEF Download, Stop, Ends, Working, AtFile, mind
    <3>2. Behind'
      BY <3>1, Onward
    <3>3. QED
      BY <3>1, <3>2 DEF InHand
  <2>3. QED
    BY <2>1, <2>2
<1>6. CASE Receive
  <2>1. at' = "hash" /\ UNCHANGED <<ask, rel, todo, kept>> /\ todo # <<>> /\ Head(todo) \notin Derived /\ at \in Working
    BY <1>6 DEF Receive, Working, AtFile, mind, InHand
  <2>2. Behind'
    BY <2>1, Onward
  <2>3. QED
    BY <2>1, <2>2 DEF InHand
<1>7. CASE Check
  <2>1. CASE Matches(Place)
    <3>1. at' = "replace" /\ UNCHANGED <<ask, rel, todo, kept, partial>> /\ todo # <<>> /\ Head(todo) \notin Derived /\ at \in Working
      BY <1>7, <2>1 DEF Check, Working, AtFile, mind, InHand
    <3>2. Behind'
      BY <3>1, Onward
    <3>3. Place' = Place /\ partial'[Place] = "right"
      BY <2>1, <3>1 DEF Matches, Place
    <3>4. QED
      BY <3>1, <3>2, <3>3 DEF InHand
  <2>2. CASE ~Matches(Place)
    BY <1>7, <2>2, Resting DEF Check, Stop, Ends, Working
  <2>3. QED
    BY <2>1, <2>2
<1>8. CASE Replace
  <2>1. todo # <<>> /\ at \in Working /\ NextFile /\ UNCHANGED <<ask, rel>> /\ partial[Place] = "right"
    BY <1>8 DEF Replace, AtFile, Working, InHand
  <2>2. kept' = [kept EXCEPT ![Place] = "right"] /\ kept \in [Places -> Contents] /\ Place \in Places
    BY <1>8, <2>1, PlaceTyped DEF Replace, TypeOK
  <2>3. \A s \in Needed : s # Head(todo) => kept'[PlaceOf(s)] = kept[PlaceOf(s)]
    BY <2>1, <2>2, PlaceTyped, PlacesApart
  <2>4. QED
    BY <2>1, <2>2, <2>3, Forward
<1>9. CASE TakeOut
  <2>1. /\ todo # <<>> /\ at \in Working /\ Head(todo) \in Derived /\ at' = "derive"
        /\ UNCHANGED <<ask, rel, todo>>
    BY <1>9 DEF TakeOut, AtFile, Working, mind
  <2>2. kept' = [kept EXCEPT ![Place] = "half"] /\ kept \in [Places -> Contents]
    BY <1>9 DEF TakeOut, TypeOK
  <2>3. \A s \in Needed : s # Head(todo) => kept'[PlaceOf(s)] = kept[PlaceOf(s)]
    BY <2>1, <2>2, PlaceTyped, PlacesApart
  <2>4. Behind'
    BY <2>1, <2>3, Onward
  <2>5. QED
    BY <2>1, <2>4 DEF InHand
<1>10. CASE TakenOut
  <2>1. /\ todo # <<>> /\ at \in Working /\ Head(todo) \in Derived /\ NextFile
        /\ UNCHANGED <<ask, rel>>
    BY <1>10 DEF TakenOut, AtFile, Working, InHand
  <2>2. kept[Source] = "right"
    BY <2>1, SourceRight
  <2>3. kept' = [kept EXCEPT ![Place] = "right"] /\ kept \in [Places -> Contents] /\ Place \in Places
    BY <1>10, <2>1, <2>2, PlaceTyped DEF TakenOut, TypeOK
  <2>4. \A s \in Needed : s # Head(todo) => kept'[PlaceOf(s)] = kept[PlaceOf(s)]
    BY <2>1, <2>3, PlaceTyped, PlacesApart
  <2>5. QED
    BY <2>1, <2>3, <2>4, Forward
<1>11. QED
  BY <1>1, <1>2, <1>3, <1>4, <1>5, <1>6, <1>7, <1>8, <1>9, <1>10 DEF Next, Step

-----------------------------------------------------------------------------
(* What follows from it.                                                   *)

\* The folder and the plan stay in step.
LEMMA FolderInvariant == Spec => [](TypeOK /\ InHand /\ Behind)
<1>1. Init => InHand /\ Behind
  BY DEF Init, InHand, Behind, Working
<1>2. FolderInv /\ [Next]_vars => InHand' /\ Behind'
  BY FolderKept
<1>3. QED
  BY <1>1, <1>2, DownloadsTypes, PTL DEF Spec, FolderInv

\* A step that builds nothing leaves the image, or drops it.
LEMMA ImageOnlyBuilt == [Next]_vars => Build \/ image' = image \/ image' = NoImage
<1> SUFFICES ASSUME [Next]_vars PROVE Build \/ image' = image \/ image' = NoImage
    OBVIOUS
<1> USE DEF mind
<1>1. CASE UNCHANGED vars \/ Publish \/ Begin \/ GetManifest
  BY <1>1 DEF vars, Publish, Begin, GetManifest
<1>2. CASE PowerCut \/ Die \/ Refuse \/ GetSignature
  BY <1>2 DEF PowerCut, Die, Refuse, GetSignature, Stop
<1>3. CASE Reuse \/ Download \/ Receive \/ Check \/ Replace \/ TakeOut \/ TakenOut
  BY <1>3 DEF Reuse, Download, Receive, Check, Replace, TakeOut, TakenOut, Stop
<1>4. QED
  BY <1>1, <1>2, <1>3 DEF Next, Step

\* Everything an image is built of is behind the tool when it builds.
LEMMA PartsRight ==
  ASSUME FolderInv, AllThere
  PROVE  rel \in Releases /\ {kept[pl] : pl \in Parts} = {"right"}
<1> USE DEF FolderInv
<1>1. rel \in Releases /\ Ahead(todo) = {}
  BY DEF AllThere, Behind, Working, Ahead
<1>2. \A s \in Needed : kept[PlaceOf(s)] = "right"
  BY <1>1 DEF AllThere, Behind, Working
<1>3. \A pl \in Parts : \E s \in Needed : pl = PlaceOf(s)
  <2> SUFFICES ASSUME NEW pl \in Parts PROVE \E s \in Needed : pl = PlaceOf(s)
      OBVIOUS
  <2>1. "alpine" \notin Files \cup {"packages", "tools", RootfsOf(ask.board)}
    BY DEF Files, RootfsOf
  <2>2. CASE pl = <<Forged, "alpine">>
    BY <2>2 DEF Needed, PlaceOf
  <2>3. CASE \E s \in {"packages", "tools", RootfsOf(ask.board)} : pl = <<rel, s>>
    BY <2>1, <2>3 DEF Needed, PlaceOf
  <2>4. CASE KernelFile \in Files /\ pl = <<rel, KernelFile>>
    BY <2>1, <2>4 DEF Needed, PlaceOf
  <2>5. QED
    BY <2>2, <2>3, <2>4 DEF Parts
<1>4. <<Forged, "alpine">> \in Parts
  BY DEF Parts
<1>5. QED
  BY <1>1, <1>2, <1>3, <1>4

\* Whatever runs that ended early left in the folder, and however the network
\* answered the two requests, an image is built of the right files of one
\* published release (Release, download_checked).
THEOREM ImagesSigned == Spec => []BuiltIsSigned
<1>1. Init => BuiltIsSigned
  BY DEF Init, BuiltIsSigned, NoImage
<1>2. FolderInv /\ BuiltIsSigned /\ [Next]_vars => BuiltIsSigned'
  <2> SUFFICES ASSUME FolderInv, BuiltIsSigned, [Next]_vars PROVE BuiltIsSigned'
      OBVIOUS
  <2>1. CASE image' = image \/ image' = NoImage
    BY <2>1 DEF BuiltIsSigned, NoImage
  <2>2. CASE Build
    BY <2>2, PartsRight DEF Build, BuiltIsSigned, NoImage
  <2>3. QED
    BY <2>1, <2>2, ImageOnlyBuilt
<1>3. QED
  BY <1>1, <1>2, FolderInvariant, PTL DEF Spec, FolderInv

\* The value that stands for no image has no kernel to speak of.
LEMMA NoneMade == ~NoImage.made
BY DEF NoImage

\* For every board, option and release with or without the kernels, an image
\* has a kernel of the unit's board, and the 6.1 one where that is due
\* (kernel_for, and the refusals of update-boot.py and install-dot.py).
THEOREM KernelsFit == Spec => []KernelIsTheUnits
<1>1. Init => KernelIsTheUnits
  <2> SUFFICES ASSUME Init PROVE KernelIsTheUnits
      OBVIOUS
  <2>1. ~image.made
    BY NoneMade DEF Init
  <2>2. QED
    BY <2>1, Zenon DEF KernelIsTheUnits
<1>2. TypeOK /\ KernelIsTheUnits /\ [Next]_vars => KernelIsTheUnits'
  <2> SUFFICES ASSUME TypeOK, KernelIsTheUnits, [Next]_vars PROVE KernelIsTheUnits'
      OBVIOUS
  <2>1. ask' = ask
    BY DEF vars, folder, mind, Next, Step, Publish, Begin, GetManifest, PowerCut, Die, Refuse, Build,
           GetSignature, Reuse, Download, Receive, Check, Replace, TakeOut, TakenOut
  <2>2. CASE image' = image
    BY <2>1, <2>2, Zenon DEF KernelIsTheUnits
  <2>5. CASE image' = NoImage
    <3>1. ~image'.made
      BY <2>5, NoneMade
    <3>2. QED
      BY <3>1, Zenon DEF KernelIsTheUnits
  <2>3. CASE Build /\ image' # NoImage
    <3>1. /\ Fits(ask, KernelFile)
          /\ image'.board = ask.board /\ image'.kernel = BuiltFor(KernelFile)
      BY <2>3 DEF Build
    <3>2. /\ ask.board \in {"biscuit", "radar", "donut"}
          /\ ask.kernel \in {"release", "none", "unreadable", "biscuit", "radar"}
          /\ ask.board = "donut" => ask.kernel = "release"
          /\ ask.on61 \/ ask.line # "" => ask.board = "radar"
      BY DEF TypeOK, Asks
    <3>3. ask.kernel = "release" => KernelFile = KernelFor(ask, rel) /\ KernelFile \in Kernels
      <4> SUFFICES ASSUME ask.kernel = "release"
                   PROVE  KernelFile = KernelFor(ask, rel) /\ KernelFile \in Kernels
          OBVIOUS
      <4>1. KernelFile = KernelFor(ask, rel)
        BY DEF KernelFile
      <4>2. KernelFor(ask, rel) \in Kernels
        BY <3>2 DEF KernelFor, Kernels
      <4>3. QED
        BY <4>1, <4>2
    <3>4. image'.kernel \in {"donor", ask.board} \cup (IF ask.board = "radar" THEN {"radar-61"} ELSE {})
      BY <3>1 DEF Fits, BuiltFor
    <3>5. ASSUME ask.kernel = "release", ask.line = "61" \/ (ask.on61 /\ ask.line = "")
          PROVE  image'.kernel = "radar-61"
      <4>1. Is61(ask) /\ ask.board = "radar"
        BY <3>2, <3>5 DEF Is61
      <4>2. KernelFile # "donor"
        BY <3>1, <4>1 DEF Fits
      <4>3. KernelFile = "kernel-61"
        BY <3>3, <3>5, <4>1, <4>2 DEF KernelFor
      <4>4. QED
        BY <3>1, <4>3 DEF BuiltFor
    <3>6. QED
      BY <2>1, <3>1, <3>4, <3>5 DEF KernelIsTheUnits
  <2>4. QED
    BY <2>2, <2>3, <2>5, ImageOnlyBuilt
<1>3. QED
  BY <1>1, <1>2, DownloadsTypes, PTL DEF Spec

\* No step but a power cut puts another file in a download's place than the
\* one its manifest names (download_checked).
THEOREM DownloadsChecked == Spec => KeptOnlyChecked
<1> DEFINE Step1 == \A pl \in Places :
              pl[2] \notin Derived /\ kept'[pl] # kept[pl] => kept'[pl] = "right" \/ PowerCut
<1>1. FolderInv /\ [Next]_vars => [Step1]_vars
  <2> SUFFICES ASSUME FolderInv, [Next]_vars, NEW pl \in Places,
                      pl[2] \notin Derived, kept'[pl] # kept[pl]
               PROVE  kept'[pl] = "right" \/ PowerCut
      OBVIOUS
  <2> USE DEF FolderInv, folder, mind
  <2>1. CASE Replace
    BY <2>1, PlaceTyped DEF Replace, AtFile, InHand, TypeOK
  <2>2. CASE TakeOut \/ TakenOut
    <3>1. todo # <<>> /\ Head(todo) \in Derived /\ \A x \in Places : x # Place => kept'[x] = kept[x]
      BY <2>2 DEF TakeOut, TakenOut, AtFile, InHand, TypeOK
    <3>2. QED
      BY <3>1, PlaceTyped
  <2>3. CASE UNCHANGED vars \/ Publish \/ Begin \/ GetManifest \/ Die \/ Refuse \/ Build \/ GetSignature
    BY <2>3 DEF vars, Publish, Begin, GetManifest, Die, Refuse, Build, GetSignature
  <2>4. CASE Reuse \/ Download \/ Receive \/ Check
    BY <2>4 DEF Reuse, Download, Receive, Check
  <2>5. QED
    BY <2>1, <2>2, <2>3, <2>4 DEF Next, Step
<1>2. QED
  BY <1>1, FolderInvariant, PTL DEF Spec, KeptOnlyChecked, FolderInv

-----------------------------------------------------------------------------
(* Whose files an image has.                                               *)

\* An archive has a path from the first of its sources that has it.
LEMMA ArchiveKeepsFirst ==
  ASSUME NEW sources, DOMAIN sources \subseteq Nat,
         NEW i \in DOMAIN sources, NEW path \in DOMAIN sources[i],
         \A j \in DOMAIN sources : j < i => path \notin DOMAIN sources[j]
  PROVE  path \in DOMAIN Archive(sources) /\ Archive(sources)[path] = sources[i][path]
<1>1. path \in Paths(sources)
  BY DEF Paths
<1>2. i \in MetIn(sources, path) /\ \A j \in MetIn(sources, path) : i <= j
  BY DEF MetIn
<1>3. Min(MetIn(sources, path)) = i
  <2>1. MetIn(sources, path) \subseteq Nat
    BY DEF MetIn
  <2>2. QED
    BY <1>2, <2>1 DEF Min
<1>4. QED
  BY <1>1, <1>3 DEF Archive

\* A tree has a path from the last of its sources that has it.
LEMMA RootKeepsLast ==
  ASSUME NEW sources, DOMAIN sources \subseteq Nat,
         NEW i \in DOMAIN sources, NEW path \in DOMAIN sources[i],
         \A j \in DOMAIN sources : j > i => path \notin DOMAIN sources[j]
  PROVE  path \in DOMAIN Root(sources) /\ Root(sources)[path] = sources[i][path]
<1>1. path \in Paths(sources)
  BY DEF Paths
<1>2. i \in MetIn(sources, path) /\ \A j \in MetIn(sources, path) : j <= i
  BY DEF MetIn
<1>3. Max(MetIn(sources, path)) = i
  <2>1. MetIn(sources, path) \subseteq Nat
    BY DEF MetIn
  <2>2. QED
    BY <1>2, <2>1 DEF Max
<1>4. QED
  BY <1>1, <1>3 DEF Root

\* A release's root has this repository's own tool for the board: on a Dot 3
\* the supplicant built here, over Alpine's.
LEMMA ReleaseTool ==
  ASSUME NEW board PROVE ReleaseRoot(board)[Tool(board)] = "techo5"
<1> DEFINE tools   == From("techo5", {"bin/busybox.static", Tool(board)})
           sources == <<AlpineBase, SupplicantApk, tools, Overlay>>
<1>1. Tool(board) \in DOMAIN tools /\ tools[Tool(board)] = "techo5"
  BY DEF Tool, From
<1>2. Tool(board) \notin DOMAIN Overlay
  BY DEF Tool, Overlay, From
<1>3. DOMAIN sources = 1..4 /\ sources[3] = tools /\ sources[4] = Overlay
  OBVIOUS
<1> HIDE DEF sources, tools
<1>4. Root(sources)[Tool(board)] = sources[3][Tool(board)]
  BY <1>1, <1>2, <1>3, RootKeepsLast
<1>5. QED
  BY <1>1, <1>3, <1>4 DEF ReleaseRoot, sources, tools

\* So has an initramfs, with init and slotctl.
LEMMA InitramfsOurs ==
  ASSUME NEW board, NEW path \in {"init", "usr/local/sbin/slotctl", Tool(board)}
  PROVE  Initramfs(board)[path] = "techo5"
<1> DEFINE scripts == From("techo5", {"usr/local/sbin/slotctl"})
           init    == From("techo5", {"init"})
           sources == <<AlpineBase, RescueApk(board), scripts, init, Added(board)>>
<1>1. DOMAIN AlpineBase = {"bin/busybox", "sbin/init"}
  BY DEF AlpineBase, From
<1>2. DOMAIN SupplicantApk = {"sbin/wpa_supplicant"}
  BY DEF SupplicantApk, From
<1>3. DOMAIN RescueApk(board) = {"sbin/wpa_supplicant"}
  BY <1>2 DEF RescueApk, WithMember
<1>4. DOMAIN sources = 1..5 /\ sources[1] = AlpineBase /\ sources[2] = RescueApk(board)
      /\ sources[3] = scripts /\ sources[4] = init /\ sources[5] = Added(board)
  OBVIOUS
<1>5. /\ DOMAIN scripts = {"usr/local/sbin/slotctl"} /\ scripts["usr/local/sbin/slotctl"] = "techo5"
      /\ DOMAIN init = {"init"} /\ init["init"] = "techo5"
  BY DEF From
<1>6. Initramfs(board) = Archive(sources)
  BY DEF Initramfs
<1> HIDE DEF sources, scripts, init
<1>7. CASE path = "init"
  <2>1. Archive(sources)[path] = sources[4][path]
    BY <1>1, <1>3, <1>4, <1>5, <1>7, ArchiveKeepsFirst
  <2>2. QED
    BY <1>4, <1>5, <1>6, <1>7, <2>1
<1>8. CASE path = "usr/local/sbin/slotctl"
  <2>1. Archive(sources)[path] = sources[3][path]
    BY <1>1, <1>3, <1>4, <1>5, <1>8, ArchiveKeepsFirst
  <2>2. QED
    BY <1>4, <1>5, <1>6, <1>8, <2>1
<1>9. CASE path = Tool(board) /\ board = "donut"
  <2>1. Archive(sources)[path] = sources[2][path]
    BY <1>1, <1>3, <1>4, <1>9, ArchiveKeepsFirst DEF Tool
  <2>2. RescueApk(board)[path] = ReleaseRoot(board)[path]
    BY <1>2, <1>9 DEF RescueApk, WithMember, Tool
  <2>3. QED
    BY <1>4, <1>6, <1>9, <2>1, <2>2, ReleaseTool
<1>10. CASE path = Tool(board) /\ board # "donut"
  <2>1. path \in DOMAIN Added(board) /\ Added(board)[path] = ReleaseRoot(board)[path]
    BY <1>10 DEF Added, Tool
  <2>2. Archive(sources)[path] = sources[5][path]
    BY <1>1, <1>3, <1>4, <1>5, <1>10, <2>1, ArchiveKeepsFirst DEF Tool
  <2>3. QED
    BY <1>4, <1>6, <1>10, <2>1, <2>2, ReleaseTool
<1>11. QED
  BY <1>7, <1>8, <1>9, <1>10

\* For every board, the image that is built has this repository's init, slotctl
\* and tool, whichever of the sources come with files of the same names
\* (mkimage.py's archive, mkrootfs.py's tree, dotimage.py's with_member).
THEOREM ImagesAreOurs == Spec => []ImageIsOurs
<1>1. ImageIsOurs
  BY InitramfsOurs DEF ImageIsOurs
<1>2. QED
  BY <1>1, PTL

-----------------------------------------------------------------------------
(* What RetriesSucceed rests on.                                           *)

\* The steps a run has left at most.
Left ==
  CASE at = "idle"                -> 0
    [] at = "manifest"            -> 34
    [] at = "signature"           -> 33
    [] at = "files"               -> 4 * Len(todo) + 4
    [] at \in {"write", "derive"} -> 4 * Len(todo) + 3
    [] at = "hash"                -> 4 * Len(todo) + 2
    [] at = "replace"             -> 4 * Len(todo) + 1

\* A download that nothing went wrong with is right.
ReceivedInv == at \in {"hash", "replace"} /\ faults = 0 => partial[Place] = "right"

\* No plan has more than seven steps.
LEMMA PlanShort ==
  ASSUME NEW a \in Asks, NEW r \in Numbers
  PROVE  Len(Plan(a, r)) <= 7
<1> DEFINE k == IF a.kernel = "release" THEN KernelFor(a, r) ELSE "donor"
           p == First(a.board)
           q == MoreKernels(k)
<1>1. Plan(a, r) = p \o q
  BY DEF Plan, First
<1>2. p \in Seq(Steps) /\ Len(p) <= 6
  <2>1. p \in Seq(Steps)
    BY FirstShape
  <2>2. Len(<<"rootfs-donut">> \o <<"apks", "packages", "tools", "alpine">>) = 5
    OBVIOUS
  <2>3. Len(<<"rootfs", "kernel">> \o <<"apks", "packages", "tools", "alpine">>) = 6
    OBVIOUS
  <2>4. QED
    BY <2>1, <2>2, <2>3 DEF First
<1>3. q \in Seq(Kernels) /\ Len(q) <= 1
  <2>1. k \in Kernels
    <3>1. a.board \in {"biscuit", "radar", "donut"}
      BY DEF Asks
    <3>2. QED
      BY <3>1, KernelNamed DEF Kernels
  <2>2. /\ \A x \in Kernels : <<x>> \in Seq(Kernels) /\ Len(<<x>>) = 1
        /\ <<>> \in Seq(Kernels) /\ Len(<<>>) = 0
    OBVIOUS
  <2>3. q = <<>> \/ q = <<k>>
    BY Zenon DEF MoreKernels
  <2> HIDE DEF k, q
  <2>4. CASE q = <<>>
    BY <2>2, <2>4
  <2>5. CASE q = <<k>>
    BY <2>1, <2>2, <2>5
  <2>6. QED
    BY <2>3, <2>4, <2>5
<1>4. Len(p \o q) = Len(p) + Len(q)
  <2> HIDE DEF p, q
  <2>1. QED
    BY <1>2, <1>3
<1>5. QED
  BY <1>1, <1>2, <1>3, <1>4

\* A step of a run leaves less.
LEMMA StepsLeft ==
  ASSUME TypeOK, TypeOK', Step
  PROVE  Left' < Left
<1>1. Len(todo) \in Nat /\ Len(todo') \in Nat
  BY DEF TypeOK
<1>2. todo # <<>> => Len(todo) >= 1 /\ Len(Tail(todo)) = Len(todo) - 1
  BY DEF TypeOK
<1>3. ASSUME at' = "idle", at # "idle" PROVE Left' < Left
  <2>1. at \in {"manifest", "signature", "files", "write", "derive", "hash", "replace"}
    BY <1>3 DEF TypeOK, States
  <2>2. Left' = 0
    BY <1>3 DEF Left
  <2>3. Left > 0
    BY <1>1, <2>1 DEF Left
  <2>4. QED
    BY <1>1, <2>1, <2>2, <2>3 DEF Left
<1>4. CASE GetManifest
  BY <1>4 DEF GetManifest, Left
<1>5. CASE GetSignature
  <2>1. CASE at' = "files"
    <3>1. at = "signature" /\ todo' = Plan(ask, raw)
      BY <1>5, <2>1 DEF GetSignature, Stop, Ends
    <3>2. Len(todo') <= 7
      BY <3>1, PlanShort DEF TypeOK
    <3>3. QED
      BY <1>1, <2>1, <3>1, <3>2 DEF Left
  <2>2. CASE at' # "files"
    BY <1>3, <1>5, <2>2 DEF GetSignature, Stop, Ends
  <2>3. QED
    BY <2>1, <2>2
<1>6. CASE Reuse \/ Replace \/ TakenOut
  <2>1. at \in {"files", "replace", "derive"} /\ todo # <<>> /\ at' = "files" /\ todo' = Tail(todo)
    BY <1>6 DEF Reuse, Replace, TakenOut, AtFile, NextFile
  <2>2. QED
    BY <1>1, <1>2, <2>1 DEF Left
<1>7. CASE Download \/ Check
  <2>1. CASE at' = "idle"
    BY <1>3, <1>7, <2>1 DEF Download, Check, AtFile
  <2>2. CASE at' # "idle"
    <3>1. /\ \/ at = "files" /\ at' = "write"
             \/ at = "hash" /\ at' = "replace"
          /\ todo' = todo
      BY <1>7, <2>2 DEF Download, Check, AtFile, Stop, Ends, mind
    <3>2. QED
      BY <1>1, <3>1 DEF Left
  <2>3. QED
    BY <2>1, <2>2
<1>8. CASE Receive \/ TakeOut
  <2>1. /\ \/ at = "write" /\ at' = "hash"
           \/ at = "files" /\ at' = "derive"
        /\ todo' = todo
    BY <1>8 DEF Receive, TakeOut, AtFile, mind
  <2>2. QED
    BY <1>1, <2>1 DEF Left
<1>9. CASE Refuse \/ Build
  BY <1>3, <1>9 DEF Refuse, Build, AllThere, Stop, Ends
<1>10. QED
  BY <1>4, <1>5, <1>6, <1>7, <1>8, <1>9 DEF Step

\* Every step keeps what was received without a fault.
LEMMA ReceivedKept == TypeOK /\ ReceivedInv /\ [Next]_vars => ReceivedInv'
<1> SUFFICES ASSUME TypeOK, ReceivedInv, [Next]_vars, at' \in {"hash", "replace"}, faults' = 0
             PROVE  partial'[Place'] = "right"
  BY DEF ReceivedInv
<1>1. CASE Receive
  <2>1. faults = 0 \/ faults' # faults
    OBVIOUS
  <2>2. ~Fault
    BY DEF Fault, TypeOK
  <2>3. partial' = [partial EXCEPT ![Place] = "right"] /\ todo # <<>> /\ UNCHANGED <<rel, todo>>
    BY <1>1, <2>2 DEF Receive, AtFile, mind
  <2>4. Place \in Places /\ Place' = Place
    BY <2>3, PlaceTyped DEF Place
  <2>5. QED
    BY <2>3, <2>4 DEF TypeOK
<1>2. CASE Check
  <2>1. UNCHANGED <<partial, rel, todo>> /\ partial[Place] = "right"
    BY <1>2 DEF Check, Matches, Stop, Ends, mind
  <2>2. QED
    BY <2>1 DEF Place
<1>3. CASE UNCHANGED vars \/ Publish
  <2>1. UNCHANGED <<at, partial, rel, todo, faults>>
    BY <1>3 DEF Publish, vars, folder, mind
  <2>2. QED
    BY <2>1 DEF ReceivedInv, Place
<1>4. CASE PowerCut \/ Begin \/ Die \/ GetManifest \/ GetSignature
  BY <1>4 DEF PowerCut, Begin, Die, GetManifest, GetSignature, Stop, Ends
<1>5. CASE Reuse \/ Download \/ Replace \/ TakeOut \/ TakenOut \/ Refuse \/ Build
  BY <1>5 DEF Reuse, Download, Replace, TakeOut, TakenOut, Refuse, Build, NextFile, Stop, Ends
<1>6. QED
  BY <1>1, <1>2, <1>3, <1>4, <1>5 DEF Next, Step

\* A run that nothing goes wrong with ends early only where a release was
\* published between its two requests.
LEMMA EndsAllThere ==
  ASSUME TypeOK, ReceivedInv, Step, at' = "idle", faults' = 0
  PROVE  AllThere \/ (at = "signature" /\ raw # latest)
<1>1. ~Fault
  BY DEF Fault, TypeOK
<1>2. CASE GetSignature
  BY <1>1, <1>2 DEF GetSignature, Verified, TypeOK, Forged
<1>3. CASE Check
  <2>1. faults = 0 /\ partial[Place] = "right"
    BY <1>3 DEF Check, AtFile, ReceivedInv
  <2>2. QED
    BY <1>3, <2>1 DEF Check, Matches
<1>4. CASE Download
  BY <1>4 DEF Download, MayOpen
<1>5. CASE GetManifest \/ Reuse \/ Receive \/ Replace \/ TakeOut \/ TakenOut
  BY <1>5 DEF GetManifest, Reuse, Receive, Replace, TakeOut, TakenOut, NextFile
<1>6. CASE Refuse \/ Build
  BY <1>6 DEF Refuse, Build
<1>7. QED
  BY <1>2, <1>3, <1>4, <1>5, <1>6 DEF Step

\* However the folder was left, a run takes at most Left more steps, downloads
\* nothing for ever, and stops before it has everything only for something that
\* failed, or for a release published between its two requests
\* (download_checked, Release.__init__): what of RetriesSucceed does not rest
\* on the run going on.
THEOREM RunsEnd ==
  Spec => [][Step => /\ Left' < Left
                     /\ at' = "idle" /\ faults' = 0 =>
                          AllThere \/ (at = "signature" /\ raw # latest)]_vars
<1>1. Init => ReceivedInv
  BY DEF Init, ReceivedInv
<1>2. TypeOK /\ TypeOK' /\ ReceivedInv /\ [Next]_vars =>
        [Step => /\ Left' < Left
                 /\ at' = "idle" /\ faults' = 0 =>
                      AllThere \/ (at = "signature" /\ raw # latest)]_vars
  BY StepsLeft, EndsAllThere
<1>3. QED
  BY <1>1, <1>2, ReceivedKept, DownloadsTypes, PTL DEF Spec

-----------------------------------------------------------------------------
(* The runs implement TrustedImage.                                        *)

\* A run that works has a release, published by now, and one that does not has
\* none; and none that is on its way has an image.
RunInv ==
  /\ at \in Working => rel <= latest
  /\ at \notin Working => rel = Forged
  /\ at # "idle" => ~image.made

\* What is being fetched or taken out is not right yet, and what a power cut may
\* lose is a download that is.
ShelfInv ==
  /\ at \in {"write", "hash", "replace", "derive"} => kept[Place] # "right"
  /\ \A pl \in fresh : pl[2] \notin Derived /\ kept[pl] = "right"

\* All the refinement needs of a state.
TrustInv == FolderInv /\ RunInv /\ ShelfInv

\* A step keeps a run and what it knows together.
LEMMA RunKept == TypeOK /\ RunInv /\ [Next]_vars => RunInv'
<1> SUFFICES ASSUME TypeOK, RunInv, [Next]_vars PROVE RunInv'
    OBVIOUS
<1>1. CASE UNCHANGED vars
  BY <1>1 DEF vars, mind, RunInv, Working
<1>2. CASE Publish
  <2>1. latest' >= latest /\ UNCHANGED <<at, rel, image>> /\ latest \in Nat /\ latest' \in Nat
    BY <1>2 DEF Publish, mind, TypeOK
  <2>2. rel \in Nat
    BY DEF TypeOK, Numbers, Forged
  <2>3. QED
    BY <2>1, <2>2 DEF RunInv, Working
<1>3. CASE Begin
  BY <1>3, NoneMade DEF Begin, RunInv, Working
<1>4. CASE GetManifest
  BY <1>4 DEF GetManifest, RunInv, Working
<1>5. CASE GetSignature
  BY <1>5 DEF GetSignature, Verified, Published, Stop, Ends, RunInv, Working
<1>6. CASE Reuse \/ Replace \/ TakenOut
  BY <1>6 DEF Reuse, Replace, TakenOut, AtFile, NextFile, RunInv, Working
<1>7. CASE Download \/ Receive \/ Check \/ TakeOut
  BY <1>7 DEF Download, Receive, Check, TakeOut, AtFile, mind, Stop, Ends, RunInv, Working
<1>8. CASE Refuse \/ Build \/ Die \/ PowerCut
  BY <1>8 DEF Refuse, Build, Die, PowerCut, Stop, Ends, RunInv, Working
<1>9. QED
  BY <1>1, <1>2, <1>3, <1>4, <1>5, <1>6, <1>7, <1>8 DEF Next, Step

\* A step keeps the folder's downloads.
LEMMA ShelfKept == FolderInv /\ ShelfInv /\ [Next]_vars => ShelfInv'
<1> SUFFICES ASSUME FolderInv, ShelfInv, [Next]_vars PROVE ShelfInv'
    OBVIOUS
<1> USE DEF FolderInv
<1>1. CASE UNCHANGED vars \/ Publish
  BY <1>1 DEF vars, Publish, folder, mind, ShelfInv, Place
<1>2. CASE Begin \/ GetManifest \/ GetSignature \/ Refuse \/ Build \/ Die
  BY <1>2 DEF Begin, GetManifest, GetSignature, Refuse, Build, Die, Stop, Ends, folder, ShelfInv
<1>3. CASE PowerCut
  BY <1>3 DEF PowerCut, Stop, Ends, ShelfInv
<1>4. CASE Reuse
  BY <1>4 DEF Reuse, NextFile, folder, ShelfInv
<1>5. CASE Download
  BY <1>5 DEF Download, Reusable, Stop, Ends, mind, ShelfInv, Place
<1>6. CASE Receive
  BY <1>6 DEF Receive, AtFile, mind, ShelfInv, Place
<1>7. CASE Check
  BY <1>7 DEF Check, AtFile, Stop, Ends, mind, ShelfInv, Place
<1>8. CASE Replace
  <2>1. todo # <<>> /\ at' = "files" /\ fresh' = fresh \cup {Place} /\ Head(todo) \notin Derived
    BY <1>8 DEF Replace, AtFile, NextFile, InHand
  <2>2. kept' = [kept EXCEPT ![Place] = "right"] /\ kept \in [Places -> Contents]
    BY <1>8 DEF Replace, AtFile, InHand, TypeOK
  <2>3. Place \in Places /\ Place[2] \notin Derived
    BY <2>1, PlaceTyped
  <2>4. \A pl \in fresh : pl \in Places /\ pl[2] \notin Derived /\ kept[pl] = "right"
    BY DEF ShelfInv, TypeOK
  <2> HIDE DEF FolderInv
  <2>5. QED
    BY <2>1, <2>2, <2>3, <2>4 DEF ShelfInv
<1>9. CASE TakeOut \/ TakenOut
  <2>1. todo # <<>> /\ Head(todo) \in Derived /\ fresh' = fresh
    BY <1>9 DEF TakeOut, TakenOut, AtFile, InHand
  <2>2. Place \in Places /\ Place[2] \in Derived
    BY <2>1, PlaceTyped
  <2>3. \A pl \in Places : pl # Place => kept'[pl] = kept[pl]
    BY <1>9 DEF TakeOut, TakenOut, TypeOK
  <2>4. \A pl \in fresh' : pl[2] \notin Derived /\ kept'[pl] = "right"
    BY <2>1, <2>2, <2>3 DEF ShelfInv, TypeOK
  <2>5. CASE TakeOut
    <3>1. kept'[Place] = "half" /\ Place' = Place
      BY <2>2, <2>5 DEF TakeOut, mind, Place, TypeOK
    <3>2. QED
      BY <2>4, <3>1 DEF ShelfInv
  <2>6. CASE TakenOut
    BY <2>4, <2>6 DEF TakenOut, NextFile, ShelfInv
  <2>7. QED
    BY <1>9, <2>5, <2>6
<1>10. QED
  BY <1>1, <1>2, <1>3, <1>4, <1>5, <1>6, <1>7, <1>8, <1>9 DEF Next, Step

\* TrustedImage sees nothing else than these.
LEMMA OutOfSight ==
  ASSUME UNCHANGED <<latest, kept, ask, rel, image>>
  PROVE  UNCHANGED Trusted!tivars
BY DEF Trusted!tivars, Parts, KernelFile

\* A run that ends with nothing to show gives up.
LEMMA EndGivesUp ==
  ASSUME Ends, UNCHANGED <<latest, kept>>, image'.made = image.made, image.made => image' = image
  PROVE  Trusted!GiveUp
BY DEF Ends, Trusted!GiveUp, Trusted!Forget

\* A place of the release in hand is one of its parts.
LEMMA PartOfRun ==
  ASSUME TypeOK, todo # <<>>
  PROVE  Place \in Trusted!Of(rel) /\ Place \in Trusted!AllParts
<1>1. Place \in Places /\ (Place = <<Forged, "alpine">> \/ Place = <<rel, Head(todo)>>)
  BY PlaceTyped DEF Place
<1>2. Places = Trusted!AllParts
  BY DEF Places, Numbers, Steps, Trusted!AllParts, Trusted!Parts
<1>3. Head(todo) \in Steps
  BY PlaceTyped
<1>4. QED
  BY <1>1, <1>2, <1>3 DEF Trusted!Of, Steps

\* With a signature over its manifest, a release is trusted.
LEMMA SignatureTrusts ==
  ASSUME TrustInv, GetSignature
  PROVE  [Trusted!Next]_Trusted!tivars
<1> USE DEF TrustInv
<1>1. PICK sig \in Published :
        IF Verified(raw, sig)
        THEN at' = "files" /\ rel' = raw /\ todo' = Plan(ask, raw) /\ UNCHANGED <<raw, image>>
        ELSE Stop
  BY DEF GetSignature
<1>2. UNCHANGED <<latest, kept, ask>>
  BY DEF GetSignature, folder
<1>3. at = "signature" /\ rel = Forged /\ ~image.made
  BY DEF GetSignature, RunInv, Working
<1>4. CASE Verified(raw, sig)
  <2>1. raw \in Releases /\ raw <= latest /\ raw # Forged /\ rel' = raw /\ image' = image
    BY <1>1, <1>4 DEF Verified, Published
  <2>2. Parts' \subseteq Trusted!Of(rel') /\ Parts' # {}
    <3>1. <<Forged, "alpine">> \in Parts'
      BY DEF Parts
    <3>2. RootfsOf(ask.board)' \in Files
      BY DEF RootfsOf, Files
    <3>3. Parts' \subseteq Trusted!Of(rel')
      BY <3>2 DEF Parts, Trusted!Of, Derived
    <3>4. QED
      BY <3>1, <3>3
  <2>3. Trusted!Trust(raw)
    BY <1>2, <1>3, <2>1, <2>2 DEF Trusted!Trust
  <2>4. QED
    BY <2>1, <2>3 DEF Trusted!Next
<1>5. CASE ~Verified(raw, sig)
  BY <1>1, <1>2, <1>5, EndGivesUp DEF Stop, Trusted!Next
<1>6. QED
  BY <1>4, <1>5

\* A file renamed into its place is a part obtained.
LEMMA FileObtained ==
  ASSUME TrustInv, Reuse \/ Download \/ Receive \/ Check \/ Replace
  PROVE  [Trusted!Next]_Trusted!tivars
<1> USE DEF TrustInv, FolderInv
<1>1. CASE Reuse
  BY <1>1, OutOfSight DEF Reuse, folder
<1>2. CASE Receive
  BY <1>2, OutOfSight DEF Receive, mind
<1>3. CASE Download
  <2>1. UNCHANGED <<latest, kept, ask>>
    BY <1>3 DEF Download
  <2>2. CASE UNCHANGED mind
    BY <2>1, <2>2, OutOfSight DEF mind
  <2>3. CASE Stop
    BY <2>1, <2>3, EndGivesUp DEF Stop, Trusted!Next
  <2>4. QED
    BY <1>3, <2>2, <2>3 DEF Download
<1>4. CASE Check
  <2>1. UNCHANGED <<latest, kept, ask>>
    BY <1>4 DEF Check
  <2>2. CASE UNCHANGED mind
    BY <2>1, <2>2, OutOfSight DEF mind
  <2>3. CASE Stop
    BY <2>1, <2>3, EndGivesUp DEF Stop, Trusted!Next
  <2>4. QED
    BY <1>4, <2>2, <2>3 DEF Check
<1>5. CASE Replace
  <2>1. /\ at = "replace" /\ todo # <<>> /\ partial[Place] = "right" /\ kept[Place] # "right"
        /\ kept' = [kept EXCEPT ![Place] = partial[Place]]
        /\ UNCHANGED <<latest, ask, rel, image>>
    BY <1>5 DEF Replace, AtFile, InHand, ShelfInv
  <2>2. rel # Forged
    BY <2>1 DEF Behind, Working, Forged
  <2>3. (IF rel = Forged THEN {} ELSE Parts)' = (IF rel = Forged THEN {} ELSE Parts)
    BY <2>1 DEF Parts, KernelFile
  <2>4. Trusted!Obtain(Place) /\ Place \in Trusted!AllParts
    BY <2>1, <2>2, <2>3, PartOfRun DEF Trusted!Obtain
  <2>5. QED
    BY <2>4 DEF Trusted!Next
<1>6. QED
  BY <1>1, <1>2, <1>3, <1>4, <1>5

\* What is taken out is made anew, and obtained once it is out.
LEMMA DerivedObtained ==
  ASSUME TrustInv, TakeOut \/ TakenOut
  PROVE  [Trusted!Next]_Trusted!tivars
<1> USE DEF TrustInv, FolderInv
<1>1. todo # <<>> /\ Head(todo) \in Derived /\ at \in Working /\ UNCHANGED <<latest, ask, rel, image>>
  BY DEF TakeOut, TakenOut, AtFile, InHand, Working, mind
<1>2. rel # Forged
  BY <1>1 DEF Behind, Forged
<1>3. (IF rel = Forged THEN {} ELSE Parts)' = (IF rel = Forged THEN {} ELSE Parts)
  BY <1>1 DEF Parts, KernelFile
<1>4. Place \in Trusted!Of(rel) /\ Place \in Trusted!AllParts
  BY <1>1, PartOfRun
<1>5. CASE TakeOut
  <2>1. Place = <<rel, Head(todo)>> /\ rel \in Releases
    BY <1>1 DEF Place, Derived, Behind
  <2>2. Place \in Trusted!Parts(Derived)
    BY <1>1, <2>1 DEF Trusted!Parts
  <2>3. Trusted!MakeAnew(Place)
    BY <1>1, <1>2, <1>3, <1>4, <1>5 DEF TakeOut, Trusted!MakeAnew
  <2>4. QED
    BY <2>2, <2>3 DEF Trusted!Next
<1>6. CASE TakenOut
  <2>1. kept[Place] # "right" /\ kept' = [kept EXCEPT ![Place] = "right"]
    BY <1>1, <1>6, SourceRight DEF TakenOut, AtFile, ShelfInv
  <2>2. Trusted!Obtain(Place)
    BY <1>1, <1>2, <1>3, <1>4, <2>1 DEF Trusted!Obtain
  <2>3. QED
    BY <1>4, <2>2 DEF Trusted!Next
<1>7. QED
  BY <1>5, <1>6

\* An image is made, or the run gives up.
LEMMA BuildMakes ==
  ASSUME TrustInv, Build
  PROVE  Trusted!Next
<1> USE DEF TrustInv, FolderInv
<1>1. at # "idle" /\ ~image.made /\ Ends /\ UNCHANGED <<latest, kept, ask>>
  BY DEF Build, AllThere, RunInv, folder
<1>2. CASE image' = NoImage
  <2>1. ~image'.made
    BY <1>2, NoneMade
  <2>2. Trusted!GiveUp
    BY <1>1, <2>1 DEF Ends, Trusted!GiveUp, Trusted!Forget
  <2>3. QED
    BY <2>2 DEF Trusted!Next
<1>3. CASE image' # NoImage
  <2>1. image'.made /\ image'.rel = rel
    BY <1>3 DEF Build
  <2>2. rel \in Releases /\ \A pl \in Parts : kept[pl] = "right"
    BY PartsRight DEF Build
  <2>3. rel # Forged
    BY <2>2 DEF Forged
  <2>4. Trusted!MakeImage
    BY <1>1, <2>1, <2>2, <2>3 DEF Ends, Trusted!MakeImage, Trusted!Forget
  <2>5. QED
    BY <2>4 DEF Trusted!Next
<1>4. QED
  BY <1>2, <1>3

\* A power cut loses a part that was fetched, and right.
LEMMA PowerLost ==
  ASSUME TrustInv, PowerCut
  PROVE  Trusted!Next
<1> USE DEF TrustInv, FolderInv
<1>1. PICK lost \in fresh : kept' = [kept EXCEPT ![lost] = "half"]
  BY DEF PowerCut
<1>2. Ends /\ UNCHANGED <<latest, image>>
  BY DEF PowerCut, Stop
<1>3. lost \in Places /\ lost[2] \notin Derived /\ kept[lost] = "right"
  BY DEF ShelfInv, TypeOK
<1>4. lost \in Trusted!Parts(Files \cup {"alpine"})
  BY <1>3 DEF Places, Numbers, Steps, Trusted!Parts
<1>5. Trusted!LosePower(lost)
  BY <1>1, <1>2, <1>3 DEF Ends, Trusted!LosePower, Trusted!Forget
<1>6. QED
  BY <1>4, <1>5 DEF Trusted!Next

\* Every step of the tools is one TrustedImage allows, or changes nothing it can
\* see.
LEMMA StepTrusted == TrustInv /\ [Next]_vars => [Trusted!Next]_Trusted!tivars
<1> SUFFICES ASSUME TrustInv, [Next]_vars PROVE [Trusted!Next]_Trusted!tivars
    OBVIOUS
<1>1. CASE UNCHANGED vars
  BY <1>1, OutOfSight DEF vars, folder, mind
<1>2. CASE GetManifest
  BY <1>2, OutOfSight DEF GetManifest, folder
<1>3. CASE Publish
  <2>1. latest' = latest + 1 /\ latest' \in Releases /\ UNCHANGED <<kept, ask, rel, image>>
    BY <1>3 DEF Publish, folder, mind
  <2>2. (IF rel = Forged THEN {} ELSE Parts)' = (IF rel = Forged THEN {} ELSE Parts)
    BY <2>1 DEF Parts, KernelFile
  <2>3. Trusted!Publish
    BY <2>1, <2>2 DEF Trusted!Publish
  <2>4. QED
    BY <2>3 DEF Trusted!Next
<1>4. CASE Begin
  <2>1. rel = Forged /\ image' = NoImage /\ UNCHANGED <<latest, kept, ask, rel>>
    BY <1>4 DEF Begin, folder, TrustInv, RunInv, Working
  <2>2. ~image'.made
    BY <2>1, NoneMade
  <2>3. Trusted!Start
    BY <2>1, <2>2 DEF Trusted!Start
  <2>4. QED
    BY <2>3 DEF Trusted!Next
<1>5. CASE Refuse \/ Die
  <2>1. Ends /\ UNCHANGED <<latest, kept, image>>
    BY <1>5 DEF Refuse, Die, Stop, folder
  <2>2. QED
    BY <2>1, EndGivesUp DEF Trusted!Next
<1>6. QED
  BY <1>1, <1>2, <1>3, <1>4, <1>5, SignatureTrusts, FileObtained, DerivedObtained, BuildMakes, PowerLost
     DEF Next, Step

\* For every set of boards and releases and every number of faults, the tools
\* make an image only while all its parts are there as one published, signed
\* release names them, and lose a download to a power cut alone: the runs
\* implement TrustedImage (Release, download_checked, update-boot.py).
THEOREM TrustedImageKept == Spec => KeepsTrustedImage
<1>1. Init => RunInv /\ ShelfInv
  BY NoneMade DEF Init, RunInv, ShelfInv, Working
<1>2. FolderInv /\ RunInv /\ ShelfInv /\ [Next]_vars => RunInv' /\ ShelfInv'
  BY RunKept, ShelfKept DEF FolderInv
<1>3. Init => Trusted!Init
  <2> SUFFICES ASSUME Init PROVE Trusted!Init
      OBVIOUS
  <2>1. Places = Trusted!AllParts
    BY DEF Places, Numbers, Steps, Trusted!AllParts, Trusted!Parts
  <2>2. ~image.made
    BY NoneMade DEF Init
  <2>3. QED
    BY <2>1, <2>2 DEF Init, Trusted!Init
<1>4. FolderInv /\ RunInv /\ ShelfInv /\ [Next]_vars => [Trusted!Next]_Trusted!tivars
  BY StepTrusted DEF TrustInv
<1>5. Spec => []FolderInv
  BY FolderInvariant DEF FolderInv
<1>6. QED
  BY <1>1, <1>2, <1>3, <1>4, <1>5, PTL DEF Spec, KeepsTrustedImage, Trusted!Spec

-----------------------------------------------------------------------------
(* Every image's command line, whatever the donor's.                       *)

\* In every image that is made the kernel finds the donor's words without the
\* dropped ones, each other one whole and in its place, and the appended one:
\* lines of any length, with any number of quoted spaces (mkimage.py:128-168).
THEOREM CmdlineAlwaysClean == Spec => []CmdlineClean
<1>1. CmdlineClean
  BY CmdlineKept DEF CmdlineClean
<1>2. QED
  BY <1>1, PTL
=============================================================================
