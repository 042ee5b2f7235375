------------------------------ MODULE NetJoin ------------------------------
(***************************************************************************)
(* A unit's way onto Wi-Fi: techo5-net, which boot.sh, the rescue init and *)
(* wifi-set run, and which none of them keeps from running twice; wifi-set *)
(* itself; the supplicant and udhcpc that outlive both; and rescue's watch *)
(* for a late address.                                                     *)
(*                                                                         *)
(* A file is its networks and its time of writing, an empty one has none.  *)
(* The clock is in seconds from where a power cut may send it back to.     *)
(***************************************************************************)
EXTENDS Naturals, FiniteSets

CONSTANTS
  Nets,          \* the networks wifi-set and the setup page may be given
  FireOs,        \* the network Fire OS saved
  MaxEvents      \* runs of wifi-set, setup pages and power cuts, together

ASSUME NetsAssumption ==
  /\ FireOs \notin Nets
  /\ {"none", "forget"} \cap (Nets \cup {FireOs}) = {}
  /\ MaxEvents \in Nat

VARIABLES
  disk,          \* wifi.conf (own) and wpa_supplicant.conf (conf) as read now
  survivors,     \* what a power cut may leave of them
  clock,
  scripts,       \* techo5-net run at boot, and wifi-set with its techo5-net
  wpa,           \* the networks the supplicant was started with, {} when none runs
  joined,        \* the network it is associated with
  dhcp,          \* udhcpc runs
  address,       \* the network wlan0's address is from
  rescue,        \* the unit is in rescue
  networkUp,     \* rescue's /tmp/network-up
  ssh,           \* rescue's SSH server runs
  choice,        \* what the unit was last told to join
  pending,       \* what it is being told, not yet saved
  events

files  == <<disk, survivors>>
radio  == <<wpa, joined, dhcp, address>>
net    == <<rescue, networkUp, ssh>>
told   == <<choice, pending>>
unit   == <<files, clock, scripts, radio, net, told, events>>

None    == "none"
Known   == Nets \cup {FireOs}
Orders  == Nets \cup {"forget"}
Scripts == {"boot", "set"}
Pcs     == {"off", "save", "sync", "kill", "decide", "write", "start", "associate", "lease"}
Missing == [nets |-> {}, at |-> 0]
Stores  == [own : [nets : SUBSET Nets, at : Nat], conf : [nets : SUBSET Known, at : Nat]]
Excuses == {"clock", "forget", "race", "meanwhile"}
Choices == [net : Known, but : SUBSET Excuses]

Wanted(order) == IF order = "forget" THEN FireOs ELSE order

UnitTypeOK ==
  /\ disk \in Stores
  /\ survivors \subseteq Stores
  /\ disk \in survivors
  /\ clock \in Nat
  /\ scripts \in [Scripts -> [at : Pcs, arg : Orders \cup {FireOs, None}]]
  /\ wpa \in SUBSET Known
  /\ joined \in Known \cup {None}
  /\ dhcp \in BOOLEAN
  /\ address \in Known \cup {None}
  /\ rescue \in BOOLEAN
  /\ networkUp \in BOOLEAN
  /\ ssh \in BOOLEAN
  /\ choice \in Choices
  /\ pending \in Choices
  /\ events \in 0..MaxEvents

Off == [at |-> "off", arg |-> None]

\* A unit as installed, with a network given or not, at its first boot.
UnitInit ==
  /\ \E n \in Known :
       /\ disk = [own |-> [nets |-> {n} \ {FireOs}, at |-> 0], conf |-> Missing]
       /\ choice = [net |-> n, but |-> {}]
  /\ survivors = {disk}
  /\ clock = 0
  /\ scripts = [boot |-> [Off EXCEPT !.at = "decide"], set |-> Off]
  /\ wpa = {}
  /\ joined = None
  /\ dhcp = FALSE
  /\ address = None
  /\ rescue \in BOOLEAN
  /\ networkUp = FALSE
  /\ ssh = FALSE
  /\ pending = choice
  /\ events = 0

-----------------------------------------------------------------------------
(* The files.                                                              *)

\* The configuration already built is used unless wifi-set wrote since.
UseKept(s) == s.conf.nets # {} /\ (s.own.nets = {} \/ s.conf.at > s.own.at)

\* The networks techo5-net gives the supplicant from these files.
Tried(s) ==
  IF UseKept(s) THEN s.conf.nets
  ELSE IF s.own.nets # {} THEN s.own.nets
  ELSE {FireOs}

\* A power cut takes changes of the directory back from the last one on, and
\* may empty a file written over: what may be left with every change made.
Newest == {s \in survivors : s.own = disk.own /\ s.conf \in {disk.conf, Missing}}

\* A new OWN is renamed into place: until a sync the old one may come back.
PutOwn(nets, at) ==
  LET Put(s) == [s EXCEPT !.own = [nets |-> nets, at |-> at]]
  IN  /\ disk' = Put(disk)
      /\ survivors' = survivors \cup {Put(s) : s \in Newest}

\* CONF is written over: until a sync the old one may come back, or nothing.
PutConf(nets, at) ==
  LET Put(s) == [s EXCEPT !.conf = [nets |-> nets, at |-> at]]
  IN  /\ disk' = Put(disk)
      /\ survivors' = survivors \cup UNION {{[s EXCEPT !.conf = Missing], Put(s)} : s \in Newest}

Happens == events < MaxEvents /\ events' = events + 1

Go(p, to) == scripts' = [scripts EXCEPT ![p].at = to]

\* Two at once: why what was told may not be what is done.
But(why) ==
  /\ choice' = [choice EXCEPT !.but = @ \cup why]
  /\ pending' = [pending EXCEPT !.but = @ \cup why]

\* wifi-set has renamed OWN and not built CONF of it, or has built it and not
\* ended.
Unbuilding == scripts["set"].at \in {"sync", "kill", "decide", "write"}
Joining    == scripts["set"].at \in {"start", "associate", "lease"}

\* What the unit was told, for one who sees these files after a power cut.
Told(s) == IF scripts["set"].at = "sync" /\ s.own = disk.own THEN pending ELSE choice

-----------------------------------------------------------------------------
(* wifi-set, up to its techo5-net restart.                                 *)

\* Somebody at the console runs it: rescue's is there before the network, a
\* slot's once boot.sh is through.
WifiSet(order) ==
  /\ rescue \/ scripts["boot"].at = "off"
  /\ scripts["set"].at = "off"
  /\ scripts' = [scripts EXCEPT !["set"] = [at |-> "save", arg |-> order]]
  /\ UNCHANGED <<files, clock, radio, net, told>>

\* Mutant: the switch is taken for a name.
OwnOf_Named(order) == {order}

\* The network OWN is to hold.
OwnOf(order) == IF order = "forget" THEN {} ELSE {order}

\* OWN written aside and renamed, or removed.  A clock that went back makes it
\* older than a CONF from before; a kept CONF outlives a forgotten OWN.
Save ==
  LET order == scripts["set"].arg
      nets  == OwnOf(order)
      but   == IF order = "forget"
               THEN IF disk.conf.nets # {} THEN {"forget"} ELSE {}
               ELSE IF \E s \in survivors : s.conf.nets # {} /\ s.conf.at > clock
                    THEN {"clock"} ELSE {}
  IN  /\ scripts["set"].at = "save"
      /\ PutOwn(nets, IF nets = {} THEN 0 ELSE clock)
      /\ pending' = [net |-> Wanted(order), but |-> but]
      /\ Go("set", "sync")
      /\ UNCHANGED <<clock, radio, net, choice, events>>

\* Mutant: nothing is flushed.
Flushed_Not == survivors

Flushed == {disk}

\* sync, and only then is it "saved".
Sync ==
  /\ scripts["set"].at = "sync"
  /\ survivors' = Flushed
  /\ choice' = pending
  /\ scripts' = [scripts EXCEPT !["set"] = [at |-> "kill", arg |-> None]]
  /\ UNCHANGED <<disk, clock, radio, net, pending, events>>

-----------------------------------------------------------------------------
(* techo5-net.                                                             *)

\* restart: killed, a second, and the address taken off, as one step: what a
\* boot's techo5-net starts meanwhile it starts after it as well.
Kill ==
  /\ scripts["set"].at = "kill"
  /\ wpa' = {}
  /\ joined' = None
  /\ dhcp' = FALSE
  /\ address' = None
  /\ clock' = clock + 1
  /\ Go("set", "decide")
  /\ UNCHANGED <<files, net, told, events>>

\* Which configuration it is to be; one to be built is read here.
Decide(p) ==
  /\ scripts[p].at = "decide"
  /\ IF UseKept(disk)
     THEN scripts' = [scripts EXCEPT ![p] = [at |-> "start", arg |-> None]]
     ELSE \E n \in Tried(disk) : scripts' = [scripts EXCEPT ![p] = [at |-> "write", arg |-> n]]
  /\ UNCHANGED <<files, clock, radio, net, told, events>>

\* What techo5-net reads without a CONF.
Unbuilt(s) == Tried([s EXCEPT !.conf = Missing])

\* A new CONF, with the one network read before; wifi-set may have saved
\* another since.
Write(p) ==
  /\ scripts[p].at = "write"
  /\ clock' \in {clock, clock + 1}
  /\ PutConf({scripts[p].arg}, clock')
  /\ scripts' = [scripts EXCEPT ![p] = [at |-> "start", arg |-> None]]
  /\ But(IF Unbuilt(disk) = {scripts[p].arg} THEN {} ELSE {"race"})
  /\ UNCHANGED <<radio, net, events>>

\* A supplicant that runs already keeps the interface, and its networks.
Start(p) ==
  /\ scripts[p].at = "start"
  /\ wpa' = IF wpa = {} THEN disk.conf.nets ELSE wpa
  /\ Go(p, "associate")
  /\ But(IF p = "boot" /\ wpa = {} /\ scripts["set"].at \in {"decide", "write", "start"}
         THEN {"meanwhile"} ELSE {})
  /\ UNCHANGED <<files, clock, joined, dhcp, address, net, events>>

\* wpa_state is COMPLETED within 45 s, whoever's supplicant it is; udhcpc next.
Associated(p) ==
  /\ scripts[p].at = "associate"
  /\ joined # None
  /\ dhcp' = TRUE
  /\ Go(p, "lease")
  /\ UNCHANGED <<files, clock, wpa, joined, address, net, told, events>>

\* Mutant: the network is taken for up whatever techo5-net said.
Reached_Anyway(has) == TRUE

Reached(has) == has

\* rescue's network(): an address is followed by SSH, none by the loop.
RescueGoesOn(has) ==
  IF rescue /\ Reached(has)
  THEN networkUp' = TRUE /\ ssh' = (ssh \/ has) /\ UNCHANGED rescue
  ELSE UNCHANGED net

\* The script ends; has says whether it printed an address.
End(p, has) ==
  /\ scripts' = [scripts EXCEPT ![p] = Off]
  /\ IF p = "boot" THEN RescueGoesOn(has) ELSE UNCHANGED net

\* The chip has not come up, and there is no wlan0.
NoWlan(p) ==
  /\ scripts[p].at = "decide"
  /\ wpa = {}
  /\ End(p, FALSE)
  /\ UNCHANGED <<files, clock, radio, told, events>>

\* Not associated in 45 s: udhcpc is never started, the supplicant stays.
NotAssociated(p) ==
  /\ scripts[p].at = "associate"
  /\ joined = None
  /\ End(p, FALSE)
  /\ UNCHANGED <<files, clock, radio, told, events>>

\* An address within 30 s, or none: udhcpc stays and asks on.
Leased(p) ==
  /\ scripts[p].at = "lease"
  /\ End(p, address # None)
  /\ UNCHANGED <<files, clock, radio, told, events>>

-----------------------------------------------------------------------------
(* What runs beside them.                                                  *)

\* The supplicant associates with a network in reach, if ever.
Associate ==
  /\ wpa # {}
  /\ joined = None
  /\ joined' \in wpa
  /\ UNCHANGED <<files, clock, scripts, wpa, dhcp, address, net, told, events>>

\* udhcpc has its lease, in the 30 s or after.
Lease ==
  /\ dhcp
  /\ joined # None
  /\ address = None
  /\ address' = joined
  /\ UNCHANGED <<files, clock, scripts, wpa, joined, dhcp, net, told, events>>

\* An address lets ntpd set the clock: later than anything on the disk.
Ntp ==
  LET times == {s.own.at : s \in survivors} \cup {s.conf.at : s \in survivors}
  IN  /\ address # None
      /\ \E last \in times :
           /\ \A t \in times : t <= last
           /\ last > clock
           /\ clock' = last + 1
      /\ UNCHANGED <<files, scripts, radio, net, told, events>>

\* Once the boot is over, the setup page adds a network to CONF and has the supplicant read it again.
SetupPage ==
  /\ ~rescue /\ scripts["boot"].at = "off"
  /\ Happens
  /\ wpa # {} /\ disk.conf.nets # {}
  /\ \E n \in Nets \ disk.conf.nets :
       /\ clock' \in {clock, clock + 1}
       /\ PutConf(disk.conf.nets \cup {n}, clock')
       /\ wpa' = wpa \cup {n}
  /\ But(CASE Unbuilding -> {"race"} [] Joining -> {"meanwhile"} [] OTHER -> {})
  /\ UNCHANGED <<scripts, joined, dhcp, address, net>>

\* Rescue's loop, each half minute.
RescueLoop ==
  /\ rescue
  /\ scripts["boot"].at = "off"
  /\ ~networkUp
  /\ address # None
  /\ networkUp' = TRUE
  /\ ssh' = TRUE
  /\ UNCHANGED <<files, clock, scripts, radio, rescue, told, events>>

\* The power is pulled, or the unit reset: the clock may start over, and
\* another boot runs techo5-net.
Pull ==
  /\ Happens
  /\ disk' \in survivors
  /\ survivors' = {disk'}
  /\ clock' \in {0, clock}
  /\ scripts' = [boot |-> [Off EXCEPT !.at = "decide"], set |-> Off]
  /\ wpa' = {}
  /\ joined' = None
  /\ dhcp' = FALSE
  /\ address' = None
  /\ rescue' \in BOOLEAN
  /\ networkUp' = FALSE
  /\ ssh' = FALSE
  /\ choice' = Told(disk')
  /\ pending' = choice'

SetStep  == Save \/ Sync \/ Kill
JoinStep(p) ==
  NoWlan(p) \/ Decide(p) \/ Write(p) \/ Start(p) \/ Associated(p) \/ NotAssociated(p) \/ Leased(p)
World == Associate \/ Lease \/ Ntp \/ SetupPage \/ RescueLoop

\* Scripts run on, rescue looks again, a DHCP server that is asked answers.
UnitFair ==
  /\ WF_unit(SetStep) /\ \A p \in Scripts : WF_unit(JoinStep(p))
  /\ WF_unit(RescueLoop) /\ WF_unit(Lease)

\* The unit on its own, with somebody at its shell.
UnitNext ==
  \/ Happens /\ \E order \in Orders : WifiSet(order)
  \/ SetStep \/ (\E p \in Scripts : JoinStep(p)) \/ World \/ Pull

UnitSpec == UnitInit /\ [][UnitNext]_unit /\ UnitFair

-----------------------------------------------------------------------------
(* Properties.                                                             *)

\* A network once saved is the one techo5-net tries at every later boot,
\* wherever the power fails and whichever of the two files a cut takes back
\* (wifi-set: "join this network from now on").  It is not when the clock was
\* behind, when a configuration built before outlives a --forget, or when
\* another writer comes between the rename and the look at the times.
ChoiceKept ==
  \A s \in survivors :
    Told(s).but \cap {"clock", "forget", "race"} = {} => Told(s).net \in Tried(s)

\* In rescue an address, however late, is followed by SSH (init: "A lease that
\* arrives after the first try (udhcpc keeps asking in the background) still
\* gets SSH started"): once udhcpc runs and the supplicant is associated, SSH
\* comes, unless they are stopped.
LateLeaseGetsSsh ==
  (rescue /\ dhcp /\ joined # None) ~> (ssh \/ ~rescue \/ ~dhcp \/ joined = None)

\* "wifi-set --forget: go back to the network Fire OS saved" (wifi-set), once
\* the scripts are through.
ForgetGoesBack ==
  \A s \in survivors :
    (\A p \in Scripts : scripts[p].at = "off") /\
    Told(s).net = FireOs /\ Told(s).but \subseteq {"forget"} => FireOs \in Tried(s)
=============================================================================
