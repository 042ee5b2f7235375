------------------------------ MODULE MkImage ------------------------------
(***************************************************************************)
(* How a boot image and a root filesystem are put together: mkimage.py's   *)
(* initramfs and command line, mkrootfs.py's tree, dotimage.py's           *)
(* with_member.                                                            *)
(*                                                                         *)
(* A tree maps a path to whose file is there, "alpine" for a file of the   *)
(* Alpine base or of one of its packages, "techo5" for one built from this *)
(* repository.  A command line is a sequence of pieces: a space, a quote,  *)
(* the start of a word that is dropped, or other text.                     *)
(***************************************************************************)
EXTENDS Naturals, Sequences, FiniteSetsExt

CONSTANTS
  MaxCmdline,    \* pieces that fit in the header (511 bytes in the code)
  MaxDonor       \* pieces in the longest command line tried

ASSUME CmdlineAssumption == {MaxCmdline, MaxDonor} \subseteq Nat

-----------------------------------------------------------------------------
(* Trees.                                                                  *)

Paths(sources) == UNION {DOMAIN sources[i] : i \in DOMAIN sources}

MetIn(sources, path) == {i \in DOMAIN sources : path \in DOMAIN sources[i]}

\* Sources are met in order.  mkimage.py's archive keeps the first copy of a
\* path, mkrootfs.py's tree the last.
Archive(sources) ==
  [path \in Paths(sources) |-> sources[Min(MetIn(sources, path))][path]]

Root(sources) ==
  [path \in Paths(sources) |-> sources[Max(MetIn(sources, path))][path]]

\* Mutant: the package is taken as it is.
WithMember_AsItIs(apk, member, file) == apk

\* One member of a package replaced, inside the package.
WithMember(apk, member, file) == [apk EXCEPT ![member] = file]

From(whose, paths) == [path \in paths |-> whose]

\* The Alpine base, the package of the supplicant, and what this repository
\* puts over them in a slot's root.
AlpineBase == From("alpine", {"bin/busybox", "sbin/init"})

SupplicantApk == From("alpine", {"sbin/wpa_supplicant"})

Overlay == From("techo5", {"sbin/init", "usr/local/sbin/slotctl"})

Tool(board) == IF board = "donut" THEN "sbin/wpa_supplicant" ELSE "usr/local/bin/wmtup"

\* The root filesystem a release publishes for the board.
ReleaseRoot(board) ==
  Root(<<AlpineBase, SupplicantApk,
         From("techo5", {"bin/busybox.static", Tool(board)}), Overlay>>)

\* The Dot 3's supplicant goes into its package; it could not come after it.
RescueApk(board) ==
  IF board = "donut"
  THEN WithMember(SupplicantApk, Tool(board), ReleaseRoot(board)[Tool(board)])
  ELSE SupplicantApk

Added(board) ==
  [path \in {"bin/busybox.static"} \cup (IF board = "donut" THEN {} ELSE {Tool(board)}) |->
     ReleaseRoot(board)[path]]

\* The initramfs: base, packages, scripts, init, added files, in that order.
Initramfs(board) ==
  Archive(<<AlpineBase, RescueApk(board), From("techo5", {"usr/local/sbin/slotctl"}),
            From("techo5", {"init"}), Added(board)>>)

\* mkimage.py goes no further without these.
Complete(tree) == {"init", "bin/busybox", "bin/busybox.static"} \subseteq DOMAIN tree

-----------------------------------------------------------------------------
(* The command line.                                                       *)

Space == " "

Quote == "\""

Chars == {Space, Quote, "dm=", "x"}

Stay == "techo5.stay_minutes=15"

\* The words so far, the word being read, and whether a quote is open.
ReadChar(s, c) ==
  IF c = Space /\ ~s.quoted
  THEN [s EXCEPT !.words = IF s.word = <<>> THEN @ ELSE Append(@, s.word), !.word = <<>>]
  ELSE [s EXCEPT !.word = Append(@, c), !.quoted = (@ # (c = Quote))]

NothingRead == [words |-> <<>>, word |-> <<>>, quoted |-> FALSE]

\* Mutant: split at every space.
Words_QuotesTorn(cmd) ==
  LET read[n \in 0..Len(cmd)] ==
        IF n = 0 THEN NothingRead
        ELSE ReadChar([read[n - 1] EXCEPT !.quoted = FALSE], cmd[n])
      s == read[Len(cmd)]
  IN  IF s.word = <<>> THEN s.words ELSE Append(s.words, s.word)

Words(cmd) ==
  LET read[n \in 0..Len(cmd)] ==
        IF n = 0 THEN NothingRead ELSE ReadChar(read[n - 1], cmd[n])
      s == read[Len(cmd)]
  IN  IF s.word = <<>> THEN s.words ELSE Append(s.words, s.word)

\* --cmdline-drop: a word goes by how it starts.
Dropped(word) == Head(word) = "dm="

Kept(words) ==
  LET left[n \in 0..Len(words)] ==
        IF n = 0 THEN <<>>
        ELSE IF Dropped(words[n]) THEN left[n - 1] ELSE Append(left[n - 1], words[n])
  IN  left[Len(words)]

Joined(words) ==
  LET line[n \in 0..Len(words)] ==
        IF n = 0 THEN <<>>
        ELSE IF n = 1 THEN words[1] ELSE line[n - 1] \o <<Space>> \o words[n]
  IN  line[Len(words)]

\* The donor's words but the dropped ones, and the appended one.
Cmdline(donor) == Joined(Append(Kept(Words(donor)), <<Stay>>))

Quotes(cmd, n) == Cardinality({i \in 1..n : cmd[i] = Quote})

\* A header's command line: its quotes come in pairs.
Donors ==
  {cmd \in UNION {[1..n -> Chars] : n \in 0..MaxDonor} : Quotes(cmd, Len(cmd)) % 2 = 0}

\* The words the kernel sees: the longest stretches free of a space with an
\* even number of quotes before it (lib/cmdline.c's next_arg), in their order.
Break(cmd, i) == cmd[i] = Space /\ Quotes(cmd, i) % 2 = 0

Starts(cmd, i) == ~Break(cmd, i) /\ (i = 1 \/ Break(cmd, i - 1))

WordEnd(cmd, i) ==
  CHOOSE j \in i..Len(cmd) :
    /\ \A k \in i..j : ~Break(cmd, k)
    /\ j = Len(cmd) \/ Break(cmd, j + 1)

KernelWords(cmd) ==
  LET words[n \in 0..Len(cmd)] ==
        IF n = 0 THEN <<>>
        ELSE IF Starts(cmd, n) THEN Append(words[n - 1], SubSeq(cmd, n, WordEnd(cmd, n)))
        ELSE words[n - 1]
  IN  words[Len(cmd)]

\* Whether a donor's command line leaves room: either may be.
CmdlineFits == {Len(Cmdline(donor)) <= MaxCmdline : donor \in Donors}

\* What is put together reads, to the kernel, as the donor's words without the
\* dropped ones and the appended one.
CmdlineKeepsWords ==
  \A donor \in Donors :
    KernelWords(Cmdline(donor)) =
      Append(Kept(KernelWords(donor)), <<Stay>>)
=============================================================================
