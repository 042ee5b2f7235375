------------------------------ MODULE SetWifi ------------------------------
(***************************************************************************)
(* set-wifi.py and the unit it changes the network of: the console on USB  *)
(* that techo5lib.py finds and talks to, another unit on the same computer,*)
(* the shell that runs what is typed into it line by line, however late,   *)
(* and NetJoin for what wifi-set does there.                               *)
(***************************************************************************)
EXTENDS NetJoin, Sequences

CONSTANTS Ports    \* the serial ports of the computer

ASSUME PortsAssumption == Ports # {}

VARIABLES
  usb,        \* the unit on each port
  pc,         \* set-wifi.py: how far it is, its port, order and tag
  typed,      \* lines in the unit's terminal, not yet read by its shell
  busy,       \* the line its shell runs
  joinedSaid  \* set-wifi.py ended with "Joined"

console == <<usb, pc, typed, busy, joinedSaid>>
vars    == <<unit, console>>

Units == {"dot", "other"}
Tags  == 1..MaxEvents
Lines == [tag : Tags, order : Orders]
NoLine == [tag |-> 0, order |-> None]
Idle   == [at |-> "off", port |-> None, tag |-> 0, order |-> None]

TypeOK ==
  /\ UnitTypeOK
  /\ usb \in [Ports -> Units \cup {None}]
  /\ pc \in [at : {"off", "found", "reading"}, port : Ports \cup {None},
             tag : Tags \cup {0}, order : Orders \cup {None}]
  /\ typed \in Seq(Lines)
  /\ busy \in Lines \cup {NoLine}
  /\ joinedSaid \in BOOLEAN

Init ==
  /\ UnitInit
  /\ usb \in [Ports -> Units \cup {None}]
  /\ \A p, q \in Ports : p # q /\ usb[p] # None => usb[p] # usb[q]
  /\ \E p \in Ports : usb[p] = "dot"
  /\ pc = Idle
  /\ typed = <<>>
  /\ busy = NoLine
  /\ joinedSaid = FALSE

-----------------------------------------------------------------------------
(* The computer.                                                           *)

\* Console.find: the port with the unit's USB serial, or the one whose shell
\* answers that it is the unit; the user is then asked for the passphrase.
Find ==
  /\ pc.at = "off"
  /\ \E p \in Ports :
       /\ usb[p] = "dot"
       /\ pc' = [Idle EXCEPT !.at = "found", !.port = p]
  /\ joinedSaid' = FALSE
  /\ UNCHANGED <<unit, usb, typed, busy>>

Ends(has) == pc' = Idle /\ joinedSaid' = has

\* Mutant: the markers are the same for every command.
FreshTag_Same == 1

\* Random markers (token_hex): no other command has them.
FreshTag == events + 1

\* The command is typed with the test that this is the unit asked for.
Runs(u) == u = "dot"

\* Console.run with the port found: console_exchange types the command to
\* whatever is on that port by now.  Another unit that ran it might answer that
\* it has an address.
Send(order) ==
  /\ pc.at = "found"
  /\ Happens
  /\ CASE usb[pc.port] = "dot" ->
            /\ pc' = [pc EXCEPT !.at = "reading", !.tag = FreshTag, !.order = order]
            /\ typed' = Append(typed, [tag |-> FreshTag, order |-> order])
            /\ UNCHANGED joinedSaid
       [] usb[pc.port] = "other" ->
            /\ \E has \in BOOLEAN : (has => Runs("other")) /\ Ends(has)
            /\ UNCHANGED typed
       [] OTHER ->
            /\ Ends(FALSE)
            /\ UNCHANGED typed
  /\ UNCHANGED <<files, clock, scripts, radio, net, told, usb, busy>>

\* The wait is over, or the user gives up; the command stays with the unit.
Deadline ==
  /\ pc.at = "reading"
  /\ Ends(FALSE)
  /\ UNCHANGED <<unit, usb, typed, busy>>

-----------------------------------------------------------------------------
(* The units.                                                              *)

\* The shell takes the next line.
Shell ==
  /\ busy = NoLine
  /\ typed # <<>>
  /\ WifiSet(Head(typed).order)
  /\ busy' = Head(typed)
  /\ typed' = Tail(typed)
  /\ UNCHANGED <<events, usb, pc, joinedSaid>>

\* What wifi-set printed goes to whoever reads, who takes what is between its
\* own markers.
Reply ==
  IF scripts["set"].at # "off" /\ scripts'["set"].at = "off"
  THEN /\ busy' = NoLine
       /\ IF pc.at = "reading" /\ pc.tag = busy.tag
          THEN Ends(scripts["set"].at = "lease" /\ address # None)
          ELSE UNCHANGED <<pc, joinedSaid>>
       /\ UNCHANGED <<usb, typed>>
  ELSE UNCHANGED console

OffUsb(u) == usb' = [p \in Ports |-> IF usb[p] = u THEN None ELSE usb[p]]

\* The unit loses power, and its console goes under whoever reads it.
Pulled ==
  /\ Pull
  /\ OffUsb("dot")
  /\ typed' = <<>>
  /\ busy' = NoLine
  /\ IF pc.at = "reading" THEN Ends(FALSE) ELSE UNCHANGED <<pc, joinedSaid>>

\* A unit's console comes up, on a port that is free; the other's may go.
Plugged ==
  /\ \/ \E u \in Units, p \in Ports :
          /\ \A q \in Ports : usb[q] # u
          /\ usb[p] = None
          /\ usb' = [usb EXCEPT ![p] = u]
     \/ OffUsb("other")
  /\ UNCHANGED <<unit, pc, typed, busy, joinedSaid>>

Next ==
  \/ (\E order \in Orders : Send(order))
  \/ Find \/ Deadline \/ Shell \/ Pulled \/ Plugged
  \/ (SetStep \/ (\E p \in Scripts : JoinStep(p)) \/ World) /\ Reply

Spec == Init /\ [][Next]_vars /\ UnitFair

-----------------------------------------------------------------------------
(* Properties.                                                             *)

\* "Joined: <unit> is at <address>" (set-wifi.py) is said of the network that
\* was asked for in that run, never on the late answer to an earlier one nor on
\* another unit's, whose console came up on the port that was found, and the
\* unit has an address there.
JoinedIsChosen ==
  [][~joinedSaid /\ joinedSaid' =>
       /\ choice.net = Wanted(pc.order)
       /\ choice.but = {} => address = choice.net]_vars
=============================================================================
