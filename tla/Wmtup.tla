------------------------------- MODULE Wmtup -------------------------------
(***************************************************************************)
(* wmtup, which brings up the combo chip in place of Amazon's launcher:    *)
(* main registers the chip's devices, configures the driver and powers the *)
(* Wi-Fi side, while serve answers the driver's searches for patches, on   *)
(* the same device.                                                        *)
(*                                                                         *)
(* The driver is external: whoever powers the chip, and the chip's reset,  *)
(* makes it post "srh_patch" and wait for an answer on that device.        *)
(***************************************************************************)
EXTENDS Naturals

CONSTANTS
  FileCounts,    \* how many *_hdr.bin files a unit may have
  MaxPatches,    \* main.go's maxPatches
  MaxFaults      \* calls of wmtup that may fail

ASSUME WmtupAssumption ==
  FileCounts \subseteq Nat /\ MaxPatches \in Nat \ {0} /\ MaxFaults \in Nat

VARIABLES
  files,         \* how many *_hdr.bin files this unit has
  registered,    \* /proc/devices has mtk_stp_wmt, and the nodes are made
  wmtup,         \* what main is at
  serve,         \* what serve is at, and the patches it announced
  asked,         \* what the driver waits for an answer to
  posted,        \* it has not been read yet
  given,         \* the patches the driver was given since
  chip,          \* the chip's power
  faults

answerer == <<wmtup, serve>>
driver   == <<asked, posted, given, chip>>
wmt      == <<files, registered, answerer, driver, faults>>

Nothing == "nothing"

WmtTypeOK ==
  /\ files \in FileCounts
  /\ registered \in BOOLEAN
  /\ wmtup \in {"start", "open", "configured", "powering", "written", "failed", "up", "exited"}
  /\ serve \in [at : {"off", "poll", "answer", "info", "ok", "fail", "gone"},
                num : 0..MaxPatches, next : 0..(MaxPatches + 1)]
  /\ asked \in {Nothing, "srh_patch", "other"}
  /\ posted \in BOOLEAN
  /\ given \subseteq [seq : 1..MaxPatches, file : 1..MaxPatches]
  /\ chip \in {"off", "waits", "on"}
  /\ faults \in 0..MaxFaults

WmtInit ==
  /\ files \in FileCounts
  /\ registered \in BOOLEAN
  /\ wmtup = "start"
  /\ serve = [at |-> "off", num |-> 0, next |-> 0]
  /\ asked = Nothing
  /\ posted = FALSE
  /\ given = {}
  /\ chip = "off"
  /\ faults = 0

Fault == faults < MaxFaults /\ faults' = faults + 1

-----------------------------------------------------------------------------
(* The driver.                                                             *)

\* It asks where the patches are, and holds up whoever made it.
Search ==
  /\ chip' = "waits"
  /\ asked' = "srh_patch"
  /\ posted' = TRUE
  /\ given' = {}

\* Something else it may ask of its launcher while the chip runs.
AskOther ==
  /\ chip = "on"
  /\ asked = Nothing
  /\ asked' = "other"
  /\ posted' = TRUE
  /\ UNCHANGED <<files, registered, answerer, given, chip, faults>>

\* What it can load: each number once, the patch named last first.
Loads(patches, num) ==
  num > 0 /\ patches = {[seq |-> s, file |-> num + 1 - s] : s \in 1..num}

\* A write on the device is the answer to what it waits for, if anything.
Take(reply) ==
  /\ asked' = Nothing
  /\ chip' = IF asked # "srh_patch" THEN chip
             ELSE IF reply = "ok" /\ Loads(given, serve.num) THEN "on" ELSE "off"
  /\ wmtup' = IF asked # "srh_patch" \/ wmtup # "powering" THEN wmtup
              ELSE IF chip' = "on" THEN "written" ELSE "failed"

-----------------------------------------------------------------------------
(* main.                                                                   *)

\* log.Fatalf: serve ends with the process.
Exit ==
  /\ wmtup' = "exited"
  /\ serve' = [serve EXCEPT !.at = "gone"]

\* Registers the devices, unless something did; any refusal but the module
\* init's own, or an init that registers nothing, is fatal.
Detect ==
  /\ wmtup = "start"
  /\ \/ /\ registered' = TRUE
        /\ wmtup' = "open"
        /\ UNCHANGED <<serve, faults>>
     \/ ~registered /\ Fault /\ Exit /\ UNCHANGED registered
  /\ UNCHANGED <<files, driver>>

\* Opens the device and sets the host interface; serve starts before the chip
\* is powered.
Configure ==
  /\ wmtup = "open"
  /\ \/ /\ wmtup' = "configured"
        /\ serve' = [serve EXCEPT !.at = "poll"]
        /\ UNCHANGED faults
     \/ Fault /\ Exit
  /\ UNCHANGED <<files, registered, driver>>

\* The write to /dev/wmtWifi, which returns when the chip is up.
PowerWifi ==
  /\ wmtup = "configured"
  /\ CASE chip = "on"    -> wmtup' = "written" /\ UNCHANGED driver
       [] chip = "waits" -> wmtup' = "powering" /\ UNCHANGED driver
       [] chip = "off"   -> wmtup' = "powering" /\ Search
  /\ UNCHANGED <<files, registered, serve, faults>>

\* The write failed: fatal, so that nobody answers the next search.  It may
\* fail on the Wi-Fi side alone, with the chip up.
WriteFails ==
  /\ \/ wmtup = "failed" /\ UNCHANGED faults
     \/ wmtup = "written" /\ Fault
  /\ Exit
  /\ UNCHANGED <<files, registered, driver>>

\* wlan0 is there or it never comes: it stays up all the same.
StayUp ==
  /\ wmtup = "written"
  /\ wmtup' = "up"
  /\ UNCHANGED <<files, registered, serve, driver, faults>>

Main == Detect \/ Configure \/ PowerWifi \/ WriteFails \/ StayUp

-----------------------------------------------------------------------------
(* serve.                                                                  *)

\* What a read gives: the device is readable with nothing to say, too.
Cmd == IF posted THEN asked ELSE ""

\* Mutant: what is not a search is refused, the empty read included.
Handle_EmptyRefused(cmd) == IF cmd = "srh_patch" THEN "answer" ELSE "fail"

\* What serve does with it.
Handle(cmd) ==
  CASE cmd = ""          -> "poll"
    [] cmd = "srh_patch" -> "answer"
    [] OTHER             -> "fail"

Read ==
  /\ serve.at = "poll"
  /\ serve' = [serve EXCEPT !.at = Handle(Cmd)]
  /\ posted' = FALSE
  /\ UNCHANGED <<files, registered, wmtup, asked, given, chip, faults>>

\* poll or read fails: serve returns, and main does not hear of it.
ReadFails ==
  /\ serve.at = "poll"
  /\ Fault
  /\ serve' = [serve EXCEPT !.at = "gone"]
  /\ UNCHANGED <<files, registered, wmtup, driver>>

\* Mutant: every patch there is.
Named_All(n) == n

\* answer: as many of the names as the driver takes.
Named(n) == IF n > MaxPatches THEN MaxPatches ELSE n

\* The directory and SET_PATCH_NUM; without either the answer is "fail".
Announce ==
  /\ serve.at = "answer"
  /\ \/ /\ Named(files) > 0
        /\ serve' = [at |-> "info", num |-> Named(files), next |-> 1]
        /\ given' = {}
        /\ UNCHANGED faults
     \/ /\ \/ Named(files) = 0 /\ UNCHANGED faults
           \/ Named(files) > 0 /\ Fault
        /\ serve' = [serve EXCEPT !.at = "fail", !.num = 0]
        /\ UNCHANGED given
  /\ UNCHANGED <<files, registered, wmtup, asked, posted, chip>>

\* One SET_PATCH_INFO, whose refusal is only logged.  The sequence runs
\* backwards through the sorted names.
Inform ==
  /\ serve.at = "info"
  /\ \/ /\ given' = given \cup {[seq |-> serve.num + 1 - serve.next, file |-> serve.next]}
        /\ UNCHANGED faults
     \/ Fault /\ UNCHANGED given
  /\ serve' = [serve EXCEPT !.next = @ + 1, !.at = IF serve.next = serve.num THEN "ok" ELSE "info"]
  /\ UNCHANGED <<files, registered, wmtup, asked, posted, chip>>

\* Mutant: the work is done once the chip is up.
AfterReply_Done == "off"

\* A chip reset asks again.
AfterReply == "poll"

Reply ==
  /\ serve.at \in {"ok", "fail"}
  /\ \/ Take(serve.at) /\ UNCHANGED faults
     \/ Fault /\ UNCHANGED <<asked, chip, wmtup>>
  /\ serve' = [serve EXCEPT !.at = AfterReply]
  /\ UNCHANGED <<files, registered, posted, given>>

Serve == Read \/ ReadFails \/ Announce \/ Inform \/ Reply
=============================================================================
