----------------------------- MODULE Bluetooth -----------------------------
(***************************************************************************)
(* Bluetooth on a running unit: techo5-bt, the bridge it restarts for ever *)
(* and the calls of "again" that put each new hci0 right, over the chip    *)
(* that wmtup serves (Wmtup).  External are the bridge itself, bluetoothd, *)
(* the daemon's pairing window, and the daemon as the other starter of the *)
(* system bus.                                                             *)
(*                                                                         *)
(* Waits are not timed.  Five seconds are long enough for bluetoothd to    *)
(* take up an hci0 that answers, and for a live holder of the lock to      *)
(* start the bus and let go; a dozen tries, two minutes, for an hci0 that  *)
(* comes back at all.                                                      *)
(***************************************************************************)
EXTENDS Wmtup

CONSTANT MaxEnds     \* ends of the bridge after which it is started again, and
                     \* failing calls of wmtup, together

ASSUME EndsAssumption == MaxEnds \in Nat

VARIABLES
  script,        \* what techo5-bt is at
  bridge,        \* btbridge
  ends,          \* how often it ended and was started again
  adapter,       \* hci0: it is there, bluetoothd took it up, its class and
                 \* whether it can be found
  bluetoothd,    \* it runs
  saved,         \* its saved setting: findable
  window,        \* the daemon has a pairing window open
  newest,        \* /run/techo5-bt-again
  calls,         \* of again, one for each end
  lock,          \* /run/techo5-dbus-starting is there
  buses,         \* system buses running
  starting,      \* what techo5-bt's and the daemon's starting of the bus is at
  takenOver      \* techo5-bt started the bus in the place of a dead holder

radio == <<bridge, ends, adapter>>
bluez == <<bluetoothd, saved, window>>
again == <<newest, calls>>
bus   == <<lock, buses, starting, takenOver>>
vars  == <<wmt, script, radio, bluez, again, bus>>

Calls   == 1..MaxEnds
NoHci   == [there |-> FALSE, known |-> FALSE, class |-> "default", findable |-> FALSE]
NewHci  == [NoHci EXCEPT !.there = TRUE]
NotYet  == [at |-> "off", g |-> 0]
Starters == {"script", "daemon"}
Holding  == {"held", "start", "release"}

TypeOK ==
  /\ WmtTypeOK
  /\ script \in {"start", "hci", "bus", "buswait", "bluetoothd", "power", "bluealsa", "done"}
  /\ bridge \in {"off", "opening", "waiting", "up", "ended"}
  /\ ends \in 0..MaxEnds
  /\ adapter \in [there : BOOLEAN, known : BOOLEAN, findable : BOOLEAN,
                  class : {"default", "loudspeaker"}]
  /\ bluetoothd \in BOOLEAN /\ saved \in BOOLEAN /\ window \in BOOLEAN
  /\ lock \in BOOLEAN /\ takenOver \in BOOLEAN
  /\ newest \in Nat
  /\ calls \in [Calls -> [at : {"off", "read", "write", "class", "second"}, g : Nat]]
  /\ buses \in 0..2
  /\ starting \in [Starters -> {"off", "mkdir", "wait", "takeover", "late"} \cup Holding]

Init ==
  /\ WmtInit
  /\ script = "start"
  /\ bridge = "off"
  /\ ends = 0
  /\ adapter = NoHci
  /\ bluetoothd = FALSE
  /\ saved = FALSE
  /\ window = FALSE
  /\ newest = 0
  /\ calls = [c \in Calls |-> NotYet]
  /\ lock = FALSE
  /\ buses = 0
  /\ starting = [p \in Starters |-> "off"]
  /\ takenOver = FALSE

-----------------------------------------------------------------------------
(* The bridge and its hci0.                                                *)

\* It opens /dev/stpbt, which powers the chip.
Open ==
  /\ bridge = "opening"
  /\ bridge' = CASE ~registered                     -> "ended"
                 [] registered /\ chip = "on"       -> "up"
                 [] registered /\ chip # "on"       -> "waiting"
  /\ adapter' = IF bridge' = "up" THEN NewHci ELSE NoHci
  /\ IF registered /\ chip = "off"
     THEN Search
     ELSE UNCHANGED driver
  /\ UNCHANGED <<files, registered, answerer, faults, script, ends, bluez, again, bus>>

\* The chip came up, or it did not.
Opened ==
  /\ bridge = "waiting"
  /\ chip # "waits"
  /\ bridge' = IF chip = "on" THEN "up" ELSE "ended"
  /\ adapter' = IF chip = "on" THEN NewHci ELSE NoHci
  /\ UNCHANGED <<wmt, script, ends, bluez, again, bus>>

BridgeEnds ==
  /\ bridge = "up"
  /\ bridge' = "ended"
  /\ adapter' = NoHci
  /\ UNCHANGED <<wmt, script, ends, bluez, again, bus>>

\* The chip is reset: the bridge ends, and the driver asks for the patches.
\* (While the bridge is opened again, one is only a longer search to it.)
Reset ==
  /\ chip = "on"
  /\ asked = Nothing
  /\ bridge \in {"off", "up"}
  /\ bridge' = IF bridge = "up" THEN "ended" ELSE bridge
  /\ adapter' = NoHci
  /\ Search
  /\ UNCHANGED <<files, registered, answerer, faults, script, ends, bluez, again, bus>>

\* Two seconds later it is started again, with a call of again beside it.
Restart ==
  /\ bridge = "ended"
  /\ ends + faults < MaxEnds
  /\ bridge' = "opening"
  /\ ends' = ends + 1
  /\ calls' = [calls EXCEPT ![ends'].at = "read"]
  /\ UNCHANGED <<wmt, script, adapter, bluez, newest, bus>>

Bridge == Open \/ Opened \/ Restart

-----------------------------------------------------------------------------
(* bluetoothd and the daemon's pairing window.                             *)

\* As an adapter registers, bluetoothd puts its own settings back.
Register ==
  /\ bluetoothd
  /\ adapter.there
  /\ ~adapter.known
  /\ adapter' = [there |-> TRUE, known |-> TRUE, class |-> "default", findable |-> saved]
  /\ UNCHANGED <<wmt, script, bridge, ends, bluez, again, bus>>

\* The daemon opens a window, or its timer ends it, through bluetoothd: no
\* word of it reaches a controller that is away.
Window ==
  /\ bluetoothd
  /\ window' = ~window
  /\ IF adapter.known
     THEN /\ saved' = window'
          /\ adapter' = [adapter EXCEPT !.findable = saved']
     ELSE UNCHANGED <<saved, adapter>>
  /\ UNCHANGED <<wmt, script, bridge, ends, bluetoothd, again, bus>>

-----------------------------------------------------------------------------
(* again.                                                                  *)

Step(c, to) == calls' = [calls EXCEPT ![c].at = to]

Number(c) ==
  /\ calls[c].at = "read"
  /\ calls' = [calls EXCEPT ![c].at = "write", ![c].g = newest + 1]
  /\ UNCHANGED <<wmt, script, radio, bluez, newest, bus>>

Announced(c) ==
  /\ calls[c].at = "write"
  /\ newest' = calls[c].g
  /\ Step(c, "class")
  /\ UNCHANGED <<wmt, script, radio, bluez, bus>>

Newest(c) == newest = calls[c].g

\* Superseded between two of its steps.
Superseded(c) ==
  /\ calls[c].at \in {"class", "second"}
  /\ ~Newest(c)
  /\ Step(c, "off")
  /\ UNCHANGED <<wmt, script, radio, bluez, newest, bus>>

\* A loudspeaker, and not findable.
Right(hci) == IF hci.there THEN [hci EXCEPT !.class = "loudspeaker", !.findable = FALSE] ELSE hci

\* Tried until it takes.
Class(c) ==
  /\ calls[c].at = "class"
  /\ Newest(c)
  /\ adapter.there
  /\ adapter' = Right(adapter)
  /\ Step(c, "second")
  /\ UNCHANGED <<wmt, script, bridge, ends, bluez, newest, bus>>

\* Mutant: once is enough.
SecondTime_Not(hci) == hci

\* Both again, after bluetoothd has put its own back.
SecondTime(hci) == Right(hci)

Settled == adapter.there /\ bluetoothd => adapter.known

Second(c) ==
  /\ calls[c].at = "second"
  /\ Newest(c)
  /\ Settled
  /\ adapter' = SecondTime(adapter)
  /\ Step(c, "off")
  /\ UNCHANGED <<wmt, script, bridge, ends, bluez, newest, bus>>

Again(c) == Number(c) \/ Announced(c) \/ Superseded(c) \/ Class(c) \/ Second(c)

-----------------------------------------------------------------------------
(* The system bus, started by whichever holds the lock.                    *)

Go(p, to) == starting' = [starting EXCEPT ![p] = to]

Mkdir(p) ==
  /\ starting[p] = "mkdir"
  /\ lock' = TRUE
  /\ Go(p, CASE ~lock                 -> "held"
             [] lock /\ p = "script"  -> "wait"
             [] lock /\ p = "daemon"  -> "off")
  /\ UNCHANGED <<wmt, script, radio, bluez, again, buses, takenOver>>

\* Mutant: it was looked for before the lock was taken.
NoBus_Unasked == TRUE

\* Looked for once more with the lock held.
NoBus == buses = 0

LookAgain(p) ==
  /\ starting[p] = "held"
  /\ Go(p, IF NoBus THEN "start" ELSE "release")
  /\ UNCHANGED <<wmt, script, radio, bluez, again, lock, buses, takenOver>>

\* techo5-bt starts it in the background, beside a second's sleep before it lets
\* go: a second is taken to be enough for it to be there.
StartBus(p) ==
  /\ starting[p] = "start"
  /\ buses' = buses + 1
  /\ Go(p, "release")
  /\ UNCHANGED <<wmt, script, radio, bluez, again, lock, takenOver>>

LetGo(p) ==
  /\ starting[p] = "release"
  /\ lock' = FALSE
  /\ Go(p, "off")
  /\ UNCHANGED <<wmt, script, radio, bluez, again, buses, takenOver>>

\* The bus the other started is there.
Waited ==
  /\ starting["script"] = "wait"
  /\ buses > 0
  /\ Go("script", "off")
  /\ UNCHANGED <<wmt, script, radio, bluez, again, lock, buses, takenOver>>

\* It is not, after five seconds: whoever held the lock died holding it.
WaitsNoMore ==
  /\ starting["script"] = "wait"
  /\ buses = 0
  /\ starting["daemon"] \notin Holding
  /\ Go("script", "takeover")
  /\ UNCHANGED <<wmt, script, radio, bluez, again, lock, buses, takenOver>>

TakeOver ==
  /\ starting["script"] = "takeover"
  /\ lock' = FALSE
  /\ takenOver' = TRUE
  /\ Go("script", "late")
  /\ UNCHANGED <<wmt, script, radio, bluez, again, buses>>

StartLate ==
  /\ starting["script"] = "late"
  /\ buses' = buses + 1
  /\ Go("script", "off")
  /\ UNCHANGED <<wmt, script, radio, bluez, again, lock, takenOver>>

\* The daemon wants a bus for AirPlay and Spotify Connect: boot.sh lets it
\* start after techo5-bt.  It may die at any time, with the lock or without.
DaemonBegins ==
  /\ script \notin {"start", "done"}
  /\ starting["daemon"] = "off"
  /\ buses = 0
  /\ Go("daemon", "mkdir")
  /\ UNCHANGED <<wmt, script, radio, bluez, again, lock, buses, takenOver>>

DaemonDies ==
  /\ starting["daemon"] \in Holding
  /\ Go("daemon", "off")
  /\ UNCHANGED <<wmt, script, radio, bluez, again, lock, buses, takenOver>>

LockStep(p) == Mkdir(p) \/ LookAgain(p) \/ StartBus(p) \/ LetGo(p)

-----------------------------------------------------------------------------
(* techo5-bt.                                                              *)

ScriptGoes(from, to) == script = from /\ script' = to

\* boot.sh starts it after it waited for wlan0.  Nothing to do on a kernel or
\* in a slot without Bluetooth.
Begin ==
  /\ wmtup \notin {"start", "open"}
  /\ \/ ScriptGoes("start", "done") /\ UNCHANGED bridge
     \/ ScriptGoes("start", "hci") /\ bridge' = "opening"
  /\ UNCHANGED <<wmt, ends, adapter, bluez, again, bus>>

WaitHci ==
  /\ adapter.there
  /\ ScriptGoes("hci", "bus")
  /\ UNCHANGED <<wmt, radio, bluez, again, bus>>

\* "bridge up but no hci0": it ends, the bridge is started on and on.
NoHciCame ==
  /\ ~adapter.there
  /\ ScriptGoes("hci", "done")
  /\ UNCHANGED <<wmt, radio, bluez, again, bus>>

FirstLook ==
  /\ \/ buses > 0 /\ ScriptGoes("bus", "bluetoothd") /\ UNCHANGED starting
     \/ buses = 0 /\ ScriptGoes("bus", "buswait") /\ Go("script", "mkdir")
  /\ UNCHANGED <<wmt, radio, bluez, again, lock, buses, takenOver>>

BusSettled ==
  /\ starting["script"] = "off"
  /\ ScriptGoes("buswait", "bluetoothd")
  /\ UNCHANGED <<wmt, radio, bluez, again, bus>>

\* The daemon, whose steps have nothing in common with the rest of the
\* script's, is let finish with the bus first.
StartBluetoothd ==
  /\ starting["daemon"] = "off"
  /\ ScriptGoes("bluetoothd", "power")
  /\ bluetoothd' = TRUE
  /\ UNCHANGED <<wmt, radio, saved, window, again, bus>>

\* Powered on, off and on, then the class, once.
PowerCycle ==
  /\ Settled
  /\ ScriptGoes("power", "bluealsa")
  /\ adapter' = IF adapter.there THEN [adapter EXCEPT !.class = "loudspeaker"] ELSE adapter
  /\ UNCHANGED <<wmt, bridge, ends, bluez, again, bus>>

\* bluealsa is on the bus, or was waited for, and Bluetooth counts as settled.
StartBluealsa ==
  /\ ScriptGoes("bluealsa", "done")
  /\ UNCHANGED <<wmt, radio, bluez, again, bus>>

Script ==
  \/ Begin \/ WaitHci \/ FirstLook \/ BusSettled \/ StartBluetoothd \/ PowerCycle \/ StartBluealsa
  \/ Waited \/ WaitsNoMore \/ TakeOver \/ StartLate \/ LockStep("script")

-----------------------------------------------------------------------------
\* What else the driver may ask, it asks here before Bluetooth is started.
WmtupStep ==
  /\ Main \/ Serve \/ (script = "start" /\ AskOther)
  /\ ends + faults' <= MaxEnds
  /\ UNCHANGED <<script, radio, bluez, again, bus>>

Next ==
  \/ WmtupStep \/ Script \/ NoHciCame
  \/ Bridge \/ BridgeEnds \/ Reset
  \/ Register \/ Window
  \/ \E c \in Calls : Again(c)
  \/ LockStep("daemon") \/ DaemonBegins \/ DaemonDies

\* What runs goes on, and a bluetoothd that runs takes up a new adapter.
Fairness ==
  /\ WF_vars(Main /\ UNCHANGED <<script, radio, bluez, again, bus>>)
  /\ WF_vars((Read \/ Announce \/ Inform \/ Reply) /\ UNCHANGED <<script, radio, bluez, again, bus>>)
  /\ WF_vars(Script)
  /\ WF_vars(Bridge)
  /\ WF_vars(Register)
  /\ \A c \in Calls : WF_vars(Again(c))

Spec == Init /\ [][Next]_vars /\ Fairness

-----------------------------------------------------------------------------
(* Properties.                                                             *)

\* The chip's search is answered with every patch wmtup announces (all there
\* are, or as many as the driver takes), last name first, whenever the unit has
\* any: nothing but a missing patch or a call that failed is told
\* as a failure, however the driver's question falls between serve's reads
\* (serve, "an empty read is nothing rather than a request").
AnswerIsTrue ==
  [][asked = "srh_patch" /\ asked' = Nothing /\ faults' = 0 => (chip' = "on" <=> files > 0)]_vars

\* The driver waits for ever only where wmtup ended, or a call of it failed:
\* every search is answered, after a chip reset too (main, "has to outlive the
\* bring-up").
SearchAnswered ==
  asked = "srh_patch" ~> asked = Nothing \/ serve.at = "gone" \/ (~posted /\ faults > 0)

\* bluetoothd starts on a bus that is there, whoever was to start it, and while
\* no holder of the lock died there is one bus only (techo5-bt, "whichever
\* holds /run/techo5-dbus-starting starts it, and the other waits for it").
OneBus ==
  /\ bluetoothd \/ script = "bluetoothd" => buses > 0
  /\ buses > 1 => takenOver

\* However often and however fast the bridge ends, the hci0 that stays is a
\* loudspeaker, and no pairing window that ended meanwhile leaves it findable
\* (again, "the hci0 that matters is the last one").
LastAdapterRight ==
  <>[](adapter.there /\ bluetoothd) =>
    <>[](adapter.class = "loudspeaker" /\ (adapter.findable => window))
=============================================================================
