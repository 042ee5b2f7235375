-------------------------- MODULE BluetoothProofs --------------------------
(***************************************************************************)
(* Theorems about wmtup and Bluetooth, for every set of units, every       *)
(* number of patches the driver takes, and every number of failing calls   *)
(* and ends of the bridge.                                                 *)
(***************************************************************************)
EXTENDS Bluetooth, TLAPS

USE WmtupAssumption, EndsAssumption

-----------------------------------------------------------------------------
(* The chip's searches.                                                    *)

\* What the driver waits for goes with the chip's power, and a question that
\* is not read yet is one it waits for.
DriverInv ==
  /\ asked = "srh_patch" <=> chip = "waits"
  /\ asked = "other" => chip = "on"
  /\ posted => asked # Nothing

\* The files given by the time the next one is due.
GivenBefore(next) == {[seq |-> serve.num + 1 - f, file |-> f] : f \in 1..(next - 1)}

\* serve is at an answer only while the driver waits for it, and for that one;
\* what it has told the driver is every announced patch before the next.
AnswerInv ==
  /\ serve.at \in {"answer", "info", "ok", "fail"} => asked # Nothing /\ ~posted
  /\ serve.at \in {"answer", "info", "ok"} => asked = "srh_patch"
  /\ serve.at = "info" => serve.num > 0 /\ serve.next \in 1..serve.num
  /\ serve.at \in {"info", "ok"} => files > 0
  /\ faults = 0 =>
       /\ serve.at = "info" => given = GivenBefore(serve.next)
       /\ serve.at = "ok" => Loads(given, serve.num)
       /\ serve.at = "fail" => asked = "other" \/ files = 0

(* The system bus.                                                         *)

\* The lock is there while anybody holds it, it has one holder, and who is to
\* start a bus found none.
LockInv ==
  ~takenOver =>
    /\ \A p \in Starters : starting[p] \in Holding => lock
    /\ ~(starting["script"] \in Holding /\ starting["daemon"] \in Holding)
    /\ \A p \in Starters : starting[p] = "start" => buses = 0
    /\ buses < 2
    /\ starting["script"] = "wait" /\ buses = 0 => lock
    /\ starting["script"] = "takeover" => lock /\ buses = 0 /\ starting["daemon"] \notin Holding
    /\ starting["script"] # "late"

\* After a takeover each of the two starts at most one more.
TakenInv ==
  takenOver =>
    /\ starting["script"] \in {"late", "off"}
    /\ starting["script"] = "late" =>
         buses < 2 /\ (starting["daemon"] = "start" => buses = 0)
    /\ starting["script"] = "off" =>
         buses > 0 /\ (starting["daemon"] = "start" => buses < 2)

\* The script goes on to bluetoothd only with a bus.
ScriptInv ==
  /\ \A p \in Starters : starting[p] = "release" => buses > 0
  /\ starting["script"] # "off" \/ takenOver => script \notin {"start", "hci", "bus"}
  /\ starting["script"] # "off" => script = "buswait"
  /\ script = "buswait" /\ starting["script"] = "off" => buses > 0
  /\ script \in {"bluetoothd", "power", "bluealsa"} \/ bluetoothd => buses > 0

BusInv == LockInv /\ TakenInv /\ ScriptInv

Inv == TypeOK /\ DriverInv /\ AnswerInv /\ BusInv

-----------------------------------------------------------------------------
(* Types.                                                                  *)

\* The steps of wmtup and its driver keep the types of both.
LEMMA WmtupTypes ==
  ASSUME WmtTypeOK, AnswerInv, Main \/ Serve \/ AskOther
  PROVE  WmtTypeOK'
<1> USE DEF WmtTypeOK, Nothing, Fault, driver, answerer
<1>1. CASE Detect
  <2>1. CASE wmtup' = "open"
    BY <1>1, <2>1 DEF Detect, Exit
  <2>2. CASE Fault /\ Exit /\ UNCHANGED registered
    <3>1. UNCHANGED <<files, asked, posted, given, chip>>
      BY <1>1 DEF Detect
    <3>2. QED
      BY <2>2, <3>1 DEF Exit
  <2>3. QED
    BY <1>1, <2>1, <2>2 DEF Detect
<1>2. CASE Configure
  BY <1>2 DEF Configure, Exit
<1>3. CASE PowerWifi
  BY <1>3 DEF PowerWifi, Search
<1>4. CASE WriteFails
  BY <1>4 DEF WriteFails, Exit
<1>5. CASE StayUp
  BY <1>5 DEF StayUp
<1>6. CASE Read
  BY <1>6 DEF Read, Handle
<1>7. CASE ReadFails
  BY <1>7 DEF ReadFails
<1>8. CASE Announce
  <2>1. files \in Nat /\ Named(files) \in 0..MaxPatches
    BY DEF Named
  <2>2. serve' \in [at : {"off", "poll", "answer", "info", "ok", "fail", "gone"},
                    num : 0..MaxPatches, next : 0..(MaxPatches + 1)]
    <3>1. 0 \in 0..MaxPatches /\ 1 \in 0..(MaxPatches + 1)
      OBVIOUS
    <3>2. CASE serve' = [at |-> "info", num |-> Named(files), next |-> 1]
      BY <2>1, <3>1, <3>2
    <3>3. CASE serve' = [serve EXCEPT !.at = "fail", !.num = 0]
      BY <3>1, <3>3
    <3>4. QED
      BY <1>8, <3>2, <3>3 DEF Announce
  <2>3. faults' \in 0..MaxFaults /\ given' \subseteq [seq : 1..MaxPatches, file : 1..MaxPatches]
    BY <1>8 DEF Announce
  <2>4. UNCHANGED <<files, registered, wmtup, asked, posted, chip>>
    BY <1>8 DEF Announce
  <2>5. QED
    BY <2>2, <2>3, <2>4
<1>9. CASE Inform
  <2>1. serve.num \in 1..MaxPatches /\ serve.next \in 1..serve.num
    BY <1>9 DEF Inform, AnswerInv
  <2>2. /\ serve.num + 1 - serve.next \in 1..MaxPatches
        /\ serve.next \in 1..MaxPatches /\ serve.next + 1 \in 0..(MaxPatches + 1)
    BY <2>1
  <2>3. given' \subseteq [seq : 1..MaxPatches, file : 1..MaxPatches]
    BY <1>9, <2>2 DEF Inform
  <2>4. faults' \in 0..MaxFaults
    BY <1>9 DEF Inform
  <2>5. serve' \in [at : {"off", "poll", "answer", "info", "ok", "fail", "gone"},
                    num : 0..MaxPatches, next : 0..(MaxPatches + 1)]
    BY <1>9, <2>2 DEF Inform
  <2>6. QED
    BY <1>9, <2>3, <2>4, <2>5 DEF Inform
<1>10. CASE Reply
  BY <1>10 DEF Reply, AfterReply, Take
<1>11. CASE AskOther
  BY <1>11 DEF AskOther
<1>12. QED
  BY <1>1, <1>2, <1>3, <1>4, <1>5, <1>6, <1>7, <1>8, <1>9, <1>10, <1>11 DEF Main, Serve

\* A search posted by the bridge or the chip's reset keeps wmtup's types.
LEMMA SearchTypes ==
  ASSUME WmtTypeOK, Search \/ UNCHANGED driver, UNCHANGED <<files, registered, answerer, faults>>
  PROVE  WmtTypeOK'
<1>1. CASE Search
  BY <1>1 DEF WmtTypeOK, Search, answerer, Nothing
<1>2. CASE UNCHANGED driver
  BY <1>2 DEF WmtTypeOK, driver, answerer
<1>3. QED
  BY <1>1, <1>2

\* The first state has the types.
LEMMA TypesInit == Init => TypeOK
<1> SUFFICES ASSUME Init PROVE TypeOK
  OBVIOUS
<1>1. WmtTypeOK
  <2>1. serve \in [at : {"off", "poll", "answer", "info", "ok", "fail", "gone"},
                   num : 0..MaxPatches, next : 0..(MaxPatches + 1)]
    BY DEF Init, WmtInit
  <2>2. registered \in BOOLEAN /\ posted \in BOOLEAN
    BY DEF Init, WmtInit
  <2>3. QED
    BY <2>1, <2>2 DEF Init, WmtInit, WmtTypeOK, Nothing
<1>2. adapter \in [there : BOOLEAN, known : BOOLEAN, findable : BOOLEAN,
                   class : {"default", "loudspeaker"}]
  BY DEF Init, NoHci
<1>3. calls \in [Calls -> [at : {"off", "read", "write", "class", "second"}, g : Nat]]
  BY DEF Init, NotYet
<1>4. starting \in [Starters -> {"off", "mkdir", "wait", "takeover", "late"} \cup Holding]
  BY DEF Init, Starters
<1>5. /\ bluetoothd \in BOOLEAN /\ saved \in BOOLEAN /\ window \in BOOLEAN
      /\ lock \in BOOLEAN /\ takenOver \in BOOLEAN
  BY DEF Init
<1>6. /\ script \in {"start", "hci", "bus", "buswait", "bluetoothd", "power", "bluealsa", "done"}
      /\ bridge \in {"off", "opening", "waiting", "up", "ended"}
      /\ ends \in 0..MaxEnds /\ newest \in Nat /\ buses \in 0..2
  BY DEF Init
<1>7. QED
  BY <1>1, <1>2, <1>3, <1>4, <1>5, <1>6 DEF TypeOK

\* What the bridge, bluetoothd and again do to an hci0, and the calls of again.
LEMMA RadioTypes ==
  ASSUME TypeOK,
         Bridge \/ BridgeEnds \/ Reset \/ Register \/ Window \/ \E c \in Calls : Again(c)
  PROVE  TypeOK'
<1> DEFINE Hcis == [there : BOOLEAN, known : BOOLEAN, findable : BOOLEAN,
                    class : {"default", "loudspeaker"}]
<1> DEFINE AllCalls == [Calls -> [at : {"off", "read", "write", "class", "second"}, g : Nat]]
<1>1. /\ NoHci \in Hcis /\ NewHci \in Hcis
      /\ \A hci \in Hcis : Right(hci) \in Hcis /\ SecondTime(hci) \in Hcis
  BY DEF NoHci, NewHci, Right, SecondTime
<1>2. ASSUME NEW c \in Calls, NEW to \in {"off", "read", "write", "class", "second"}, Step(c, to)
      PROVE  calls' \in AllCalls
  BY <1>2 DEF TypeOK, Step
<1>3. \A e \in 0..MaxEnds : e < MaxEnds => e + 1 \in Calls /\ e + 1 \in 0..MaxEnds
  BY DEF Calls
<1>4. CASE Open
  <2>1. WmtTypeOK'
    BY <1>4, SearchTypes DEF Open, TypeOK
  <2>2. bridge' \in {"off", "opening", "waiting", "up", "ended"} /\ adapter' \in Hcis
    <3> HIDE DEF Hcis
    <3>1. adapter' \in Hcis
      BY <1>1, <1>4 DEF Open
    <3>2. bridge' \in {"ended", "up", "waiting"}
      <4>1. CASE ~registered
        BY <1>4, <4>1 DEF Open
      <4>2. CASE registered /\ chip = "on"
        BY <1>4, <4>2 DEF Open
      <4>3. CASE registered /\ chip # "on"
        BY <1>4, <4>3 DEF Open
      <4>4. QED
        BY <4>1, <4>2, <4>3
    <3>3. QED
      BY <3>1, <3>2
  <2>3. QED
    BY <1>4, <2>1, <2>2 DEF Open, TypeOK, bluez, again, bus
<1>5. CASE Opened
  BY <1>1, <1>5 DEF Opened, TypeOK, WmtTypeOK, wmt, answerer, driver, bluez, again, bus
<1>6. CASE Restart
  <2>1. ends \in 0..MaxEnds /\ faults \in Nat /\ ends < MaxEnds
    BY <1>6 DEF Restart, TypeOK, WmtTypeOK
  <2>2. ends' \in Calls /\ ends' \in 0..MaxEnds
    BY <1>3, <1>6, <2>1 DEF Restart
  <2>3. calls' \in AllCalls
    BY <1>2, <1>6, <2>2 DEF Restart, Step
  <2>4. QED
    BY <1>6, <2>2, <2>3 DEF Restart, TypeOK, WmtTypeOK, wmt, answerer, driver, bluez, bus
<1>7. CASE BridgeEnds
  BY <1>1, <1>7 DEF BridgeEnds, TypeOK, WmtTypeOK, wmt, answerer, driver, bluez, again, bus
<1>8. CASE Reset
  <2>1. WmtTypeOK'
    BY <1>8, SearchTypes DEF Reset, TypeOK
  <2>2. QED
    BY <1>1, <1>8, <2>1 DEF Reset, TypeOK, bluez, again, bus
<1>9. CASE Register
  BY <1>9 DEF Register, TypeOK, WmtTypeOK, wmt, answerer, driver, bluez, again, bus
<1>10. CASE Window
  <2>1. (~window) \in BOOLEAN /\ window' = ~window
    BY <1>10 DEF Window
  <2>2. CASE adapter.known
    <3>1. saved' = window' /\ adapter' = [adapter EXCEPT !.findable = saved']
      BY <1>10, <2>2 DEF Window
    <3>2. window' \in BOOLEAN /\ saved' \in BOOLEAN
      BY <2>1, <3>1
    <3>3. adapter' \in Hcis
      BY <3>1, <3>2 DEF TypeOK
    <3>4. UNCHANGED <<wmt, script, bridge, ends, bluetoothd, again, bus>>
      BY <1>10 DEF Window
    <3>5. QED
      BY <3>2, <3>3, <3>4 DEF TypeOK, WmtTypeOK, wmt, answerer, driver, again, bus
  <2>3. CASE ~adapter.known
    BY <1>10, <2>1, <2>3 DEF Window, TypeOK, WmtTypeOK, wmt, answerer, driver, again, bus
  <2>4. QED
    BY <2>2, <2>3
<1>11. ASSUME NEW c \in Calls, Again(c)
       PROVE  TypeOK'
  <2>1. calls[c].g \in Nat /\ newest \in Nat
    BY DEF TypeOK
  <2>1a. calls[c] \in [at : {"off", "read", "write", "class", "second"}, g : Nat]
    BY DEF TypeOK
  <2>1b. newest + 1 \in Nat
    BY <2>1
  <2>1c. [calls[c] EXCEPT !.at = "write", !.g = newest + 1]
          \in [at : {"off", "read", "write", "class", "second"}, g : Nat]
    BY <2>1a, <2>1b
  <2> USE DEF TypeOK, WmtTypeOK, wmt, answerer, driver, radio, bluez, bus
  <2>2. CASE Number(c)
    <3>1. calls' \in AllCalls
      BY <2>1c, <2>2 DEF Number
    <3>2. QED
      BY <2>2, <3>1 DEF Number
  <2>3. CASE Announced(c)
    BY <1>2, <2>1, <2>3 DEF Announced
  <2>4. CASE Superseded(c)
    BY <1>2, <2>4 DEF Superseded
  <2>5. CASE Class(c)
    BY <1>1, <1>2, <2>5 DEF Class
  <2>6. CASE Second(c)
    BY <1>1, <1>2, <2>6 DEF Second
  <2>7. QED
    BY <1>11, <2>2, <2>3, <2>4, <2>5, <2>6 DEF Again
<1>12. QED
  BY <1>4, <1>5, <1>6, <1>7, <1>8, <1>9, <1>10, <1>11 DEF Bridge

\* The bus has one more starter's step, or the script goes on.
BusStep ==
  \/ \E p \in Starters : LockStep(p)
  \/ Waited \/ WaitsNoMore \/ TakeOver \/ StartLate \/ DaemonBegins \/ DaemonDies

ScriptStep ==
  \/ Begin \/ WaitHci \/ NoHciCame \/ FirstLook \/ BusSettled \/ StartBluetoothd
  \/ PowerCycle \/ StartBluealsa

\* No third bus is started.
LEMMA BusTypes ==
  ASSUME TypeOK, BusInv, BusStep
  PROVE  TypeOK'
<1> DEFINE At == {"off", "mkdir", "wait", "takeover", "late"} \cup Holding
<1>1. ASSUME NEW p \in Starters, NEW to \in At, Go(p, to)
      PROVE  starting' \in [Starters -> At]
  BY <1>1 DEF Go, TypeOK
<1>2. "script" \in Starters /\ "daemon" \in Starters
  BY DEF Starters
<1>3. {"off", "mkdir", "wait", "takeover", "late", "held", "start", "release"} \subseteq At
  BY DEF Holding
<1>4. UNCHANGED <<wmt, script, radio, bluez, again>>
  BY DEF BusStep, LockStep, Mkdir, LookAgain, StartBus, LetGo, Waited, WaitsNoMore, TakeOver,
         StartLate, DaemonBegins, DaemonDies
<1>5. starting' \in [Starters -> At]
  <2>1. CASE \E p \in Starters : LockStep(p)
    <3>1. PICK p \in Starters : LockStep(p)
      BY <2>1
    <3> HIDE DEF At
    <3>2. \/ Go(p, "held") \/ Go(p, "wait") \/ Go(p, "off") \/ Go(p, "start") \/ Go(p, "release")
      <4>1. CASE Mkdir(p)
        <5>1. CASE ~lock
          BY <4>1, <5>1 DEF Mkdir
        <5>2. CASE lock /\ p = "script"
          BY <4>1, <5>2 DEF Mkdir
        <5>3. CASE lock /\ p = "daemon"
          BY <4>1, <5>3 DEF Mkdir
        <5>4. QED
          BY <5>1, <5>2, <5>3 DEF Starters
      <4>2. QED
        BY <3>1, <4>1 DEF LockStep, LookAgain, StartBus, LetGo
    <3>3. QED
      BY <1>1, <1>3, <3>2
  <2>2. CASE Waited \/ WaitsNoMore \/ TakeOver \/ StartLate \/ DaemonBegins \/ DaemonDies
    <3> HIDE DEF At
    <3>1. QED
      BY <1>1, <1>2, <1>3, <2>2 DEF Waited, WaitsNoMore, TakeOver, StartLate, DaemonBegins, DaemonDies
  <2>3. QED
    BY <2>1, <2>2 DEF BusStep
<1>6. buses' \in 0..2
  <2>1. ASSUME NEW p \in Starters, starting[p] = "start"
        PROVE  buses < 2
    <3>1. CASE takenOver
      BY <2>1, <3>1 DEF BusInv, TakenInv, Starters, TypeOK
    <3>2. CASE ~takenOver
      BY <2>1, <3>2 DEF BusInv, LockInv
    <3>3. QED
      BY <3>1, <3>2
  <2>2. starting["script"] = "late" => buses < 2
    BY DEF BusInv, LockInv, TakenInv
  <2>3. buses' = buses \/ (buses' = buses + 1 /\ buses < 2)
    BY <2>1, <2>2 DEF BusStep, LockStep, Mkdir, LookAgain, StartBus, LetGo, Waited, WaitsNoMore,
                      TakeOver, StartLate, DaemonBegins, DaemonDies
  <2>4. QED
    BY <2>3 DEF TypeOK
<1>7. lock' \in BOOLEAN /\ takenOver' \in BOOLEAN
  BY DEF BusStep, LockStep, Mkdir, LookAgain, StartBus, LetGo, Waited, WaitsNoMore, TakeOver,
         StartLate, DaemonBegins, DaemonDies, TypeOK
<1>8. QED
  BY <1>4, <1>5, <1>6, <1>7 DEF TypeOK, WmtTypeOK, wmt, answerer, driver, radio, bluez, again

\* techo5-bt's own steps.
LEMMA ScriptTypes ==
  ASSUME TypeOK, ScriptStep
  PROVE  TypeOK'
<1> USE DEF TypeOK, WmtTypeOK, wmt, answerer, driver, radio, bluez, again, bus, ScriptGoes
<1>1. CASE Begin
  BY <1>1 DEF Begin
<1>2. CASE WaitHci
  BY <1>2 DEF WaitHci
<1>3. CASE NoHciCame
  BY <1>3 DEF NoHciCame
<1>4. CASE FirstLook
  BY <1>4 DEF FirstLook, Go, Starters
<1>5. CASE BusSettled
  BY <1>5 DEF BusSettled
<1>6. CASE StartBluetoothd
  BY <1>6 DEF StartBluetoothd
<1>7. CASE PowerCycle
  BY <1>7 DEF PowerCycle
<1>8. CASE StartBluealsa
  BY <1>8 DEF StartBluealsa
<1>9. QED
  BY <1>1, <1>2, <1>3, <1>4, <1>5, <1>6, <1>7, <1>8 DEF ScriptStep

-----------------------------------------------------------------------------
(* The bus.                                                                *)

\* Every step of a starter keeps the lock's meaning and the count of buses.
LEMMA BusKept ==
  ASSUME TypeOK, BusInv, BusStep
  PROVE  BusInv'
<1> USE DEF BusInv, LockInv, TakenInv, ScriptInv, Holding, Go
<1>1. /\ "script" \in Starters /\ "daemon" \in Starters
      /\ starting \in [Starters -> {"off", "mkdir", "wait", "takeover", "late"} \cup Holding]
      /\ \A p \in Starters : p = "script" \/ p = "daemon"
  BY DEF Starters, TypeOK
<1>2. buses \in 0..2 /\ lock \in BOOLEAN /\ takenOver \in BOOLEAN
  BY DEF TypeOK
<1>3. UNCHANGED <<script, bluetoothd>>
  BY DEF BusStep, LockStep, Mkdir, LookAgain, StartBus, LetGo, Waited, WaitsNoMore, TakeOver,
         StartLate, DaemonBegins, DaemonDies, bluez
<1>4. ASSUME NEW p \in Starters, Mkdir(p)
      PROVE  BusInv'
  BY <1>1, <1>2, <1>3, <1>4 DEF Mkdir
<1>5. ASSUME NEW p \in Starters, LookAgain(p)
      PROVE  BusInv'
  BY <1>1, <1>2, <1>3, <1>5 DEF LookAgain, NoBus
<1>6. ASSUME NEW p \in Starters, StartBus(p)
      PROVE  BusInv'
  BY <1>1, <1>2, <1>3, <1>6 DEF StartBus
<1>7. ASSUME NEW p \in Starters, LetGo(p)
      PROVE  BusInv'
  BY <1>1, <1>2, <1>3, <1>7 DEF LetGo
<1>8. CASE Waited
  BY <1>1, <1>2, <1>3, <1>8 DEF Waited
<1>9. CASE WaitsNoMore
  BY <1>1, <1>2, <1>3, <1>9 DEF WaitsNoMore
<1>10. CASE TakeOver
  BY <1>1, <1>2, <1>3, <1>10 DEF TakeOver
<1>11. CASE StartLate
  BY <1>1, <1>2, <1>3, <1>11 DEF StartLate
<1>12. CASE DaemonBegins
  BY <1>1, <1>2, <1>3, <1>12 DEF DaemonBegins
<1>13. CASE DaemonDies
  BY <1>1, <1>2, <1>3, <1>13 DEF DaemonDies
<1>14. QED
  BY <1>4, <1>5, <1>6, <1>7, <1>8, <1>9, <1>10, <1>11, <1>12, <1>13 DEF BusStep, LockStep

\* So does every step of techo5-bt: bluetoothd is started once there is a bus.
LEMMA ScriptKept ==
  ASSUME TypeOK, BusInv, ScriptStep
  PROVE  BusInv'
<1> USE DEF BusInv, LockInv, TakenInv, ScriptInv, ScriptGoes, bus, bluez
<1>1. /\ "script" \in Starters /\ "daemon" \in Starters
      /\ starting \in [Starters -> {"off", "mkdir", "wait", "takeover", "late"} \cup Holding]
      /\ \A p \in Starters : p = "script" \/ p = "daemon"
  BY DEF Starters, TypeOK
<1>2. buses \in 0..2
  BY DEF TypeOK
<1>3. CASE Begin
  BY <1>3 DEF Begin
<1>4. CASE WaitHci
  BY <1>4 DEF WaitHci
<1>5. CASE NoHciCame
  BY <1>5 DEF NoHciCame
<1>6. CASE FirstLook
  BY <1>1, <1>2, <1>6 DEF FirstLook, Go, Holding
<1>7. CASE BusSettled
  BY <1>7 DEF BusSettled
<1>8. CASE StartBluetoothd
  BY <1>8 DEF StartBluetoothd
<1>9. CASE PowerCycle
  BY <1>9 DEF PowerCycle
<1>10. CASE StartBluealsa
  BY <1>10 DEF StartBluealsa
<1>11. QED
  BY <1>3, <1>4, <1>5, <1>6, <1>7, <1>8, <1>9, <1>10 DEF ScriptStep

-----------------------------------------------------------------------------
(* The searches.                                                           *)

\* Every step of wmtup, and every question, keeps the driver's state and what
\* serve has told it in step.
LEMMA AnswersKept ==
  ASSUME WmtTypeOK, DriverInv, AnswerInv, Main \/ Serve \/ AskOther
  PROVE  DriverInv' /\ AnswerInv'
<1> USE DEF WmtTypeOK, DriverInv, AnswerInv, Nothing, driver, answerer
<1>1. CASE Detect
  BY <1>1 DEF Detect, Exit, Fault, GivenBefore, Loads
<1>2. CASE Configure
  BY <1>2 DEF Configure, Exit, Fault, GivenBefore, Loads
<1>3. CASE PowerWifi
  BY <1>3 DEF PowerWifi, Search, GivenBefore, Loads
<1>4. CASE WriteFails
  BY <1>4 DEF WriteFails, Exit, Fault, GivenBefore, Loads
<1>5. CASE StayUp
  BY <1>5 DEF StayUp, GivenBefore, Loads
<1>6. CASE Read
  BY <1>6 DEF Read, Handle, Cmd, GivenBefore, Loads
<1>7. CASE ReadFails
  BY <1>7 DEF ReadFails, Fault, GivenBefore, Loads
<1>8. CASE Announce
  <2>1. files \in Nat /\ Named(files) \in 0..MaxPatches /\ (Named(files) = 0 <=> files = 0)
    BY DEF Named
  <2>2. UNCHANGED <<files, asked, posted, chip>> /\ serve.at = "answer"
    BY <1>8 DEF Announce
  <2>3. CASE /\ Named(files) > 0
             /\ serve' = [at |-> "info", num |-> Named(files), next |-> 1]
             /\ given' = {}
    BY <2>1, <2>2, <2>3 DEF GivenBefore
  <2>4. CASE /\ serve' = [serve EXCEPT !.at = "fail", !.num = 0]
             /\ (Named(files) = 0 \/ Fault)
    BY <2>1, <2>2, <2>4 DEF Fault
  <2>5. QED
    BY <1>8, <2>3, <2>4 DEF Announce
<1>9. CASE Inform
  <2>1. UNCHANGED <<files, asked, posted, chip>> /\ serve.at = "info"
    BY <1>9 DEF Inform
  <2>2. /\ serve.num \in Nat /\ serve.next \in 1..serve.num
        /\ serve'.num = serve.num /\ serve'.next = serve.next + 1
        /\ serve'.at = IF serve.next = serve.num THEN "ok" ELSE "info"
    BY <1>9, <2>1 DEF Inform
  <2>3. ASSUME faults' = 0
        PROVE  given' = {[seq |-> serve.num + 1 - f, file |-> f] : f \in 1..serve.next}
    <3>1. faults = 0
      BY <1>9, <2>3 DEF Inform, Fault
    <3>2. given' = GivenBefore(serve.next)
                     \cup {[seq |-> serve.num + 1 - serve.next, file |-> serve.next]}
      BY <1>9, <2>1, <2>3, <3>1 DEF Inform, Fault
    <3>3. \A f : f \in 1..serve.next <=> f \in 1..(serve.next - 1) \/ f = serve.next
      BY <2>2
    <3>4. QED
      BY <3>2, <3>3 DEF GivenBefore
  <2>4. CASE serve.next = serve.num
    <3>1. ASSUME faults' = 0
          PROVE  Loads(given', serve'.num)
      <4>1. given' = {[seq |-> s, file |-> serve.num + 1 - s] : s \in 1..serve.num}
        <5>1. \A f \in 1..serve.num :
                serve.num + 1 - f \in 1..serve.num /\ serve.num + 1 - (serve.num + 1 - f) = f
          BY <2>2
        <5> DEFINE sq(f) == serve.num + 1 - f
        <5>2. given' = {[seq |-> sq(f), file |-> f] : f \in 1..serve.num}
          BY <2>3, <2>4, <3>1
        <5>3. \A f \in 1..serve.num : sq(f) \in 1..serve.num /\ sq(sq(f)) = f
          BY <5>1
        <5> HIDE DEF sq
        <5>4. {[seq |-> sq(f), file |-> f] : f \in 1..serve.num}
                = {[seq |-> s, file |-> sq(s)] : s \in 1..serve.num}
          BY <5>3
        <5>5. QED
          BY <5>2, <5>4 DEF sq
      <4>2. QED
        BY <2>2, <4>1 DEF Loads
    <3>2. QED
      BY <2>1, <2>2, <2>4, <3>1
  <2>5. CASE serve.next # serve.num
    <3>1. serve'.next \in 1..serve'.num /\ serve'.next - 1 = serve.next
      BY <2>2, <2>5
    <3>2. faults' = 0 => given' = GivenBefore(serve.next)'
      BY <2>2, <2>3, <3>1 DEF GivenBefore
    <3>3. QED
      BY <2>1, <2>2, <2>5, <3>1, <3>2
  <2>6. QED
    BY <2>4, <2>5
<1>10. CASE Reply
  BY <1>10 DEF Reply, Take, AfterReply, Fault, GivenBefore, Loads
<1>11. CASE AskOther
  BY <1>11 DEF AskOther, GivenBefore, Loads
<1>12. QED
  BY <1>1, <1>2, <1>3, <1>4, <1>5, <1>6, <1>7, <1>8, <1>9, <1>10, <1>11 DEF Main, Serve

\* A search is posted only while the driver waits for nothing, so that it is no
\* answer's middle.
LEMMA SearchKept ==
  ASSUME WmtTypeOK, DriverInv, AnswerInv,
         (Search /\ (chip = "off" \/ asked = Nothing)) \/ UNCHANGED driver,
         UNCHANGED <<files, registered, answerer, faults>>
  PROVE  DriverInv' /\ AnswerInv'
  BY DEF WmtTypeOK, DriverInv, AnswerInv, Search, Nothing, driver, answerer, GivenBefore, Loads

-----------------------------------------------------------------------------
(* The specification.                                                      *)

\* A step is wmtup's, techo5-bt's, a starter's of the bus, or the radio's.
LEMMA Steps ==
  ASSUME Next
  PROVE  \/ WmtupStep \/ BusStep \/ ScriptStep
         \/ Bridge \/ BridgeEnds \/ Reset \/ Register \/ Window
         \/ \E c \in Calls : Again(c)
  BY DEF Next, Script, BusStep, ScriptStep, Starters

\* The radio's steps leave the bus alone, and post a search or nothing.
LEMMA RadioLeaves ==
  ASSUME Bridge \/ BridgeEnds \/ Reset \/ Register \/ Window \/ \E c \in Calls : Again(c)
  PROVE  /\ UNCHANGED <<bus, script, bluetoothd>>
         /\ UNCHANGED <<files, registered, answerer, faults>>
         /\ (Search /\ (chip = "off" \/ asked = Nothing)) \/ UNCHANGED driver
<1>1. CASE Open
  BY <1>1 DEF Open, bluez
<1>2. CASE Reset
  BY <1>2 DEF Reset, bluez
<1>3. CASE Opened \/ Restart \/ BridgeEnds \/ Register \/ Window
  BY <1>3 DEF Opened, Restart, BridgeEnds, Register, Window, bluez, wmt
<1>4. CASE \E c \in Calls : Again(c)
  BY <1>4 DEF Again, Number, Announced, Superseded, Class, Second, bluez, radio, wmt
<1>5. QED
  BY <1>1, <1>2, <1>3, <1>4 DEF Bridge

\* The invariant holds at first.
LEMMA InvInit == Init => Inv
<1> SUFFICES ASSUME Init PROVE Inv
  OBVIOUS
<1>1. DriverInv /\ AnswerInv
  BY DEF Init, WmtInit, DriverInv, AnswerInv, Nothing
<1>2. BusInv
  BY DEF Init, BusInv, LockInv, TakenInv, ScriptInv, Starters, Holding
<1>3. QED
  BY <1>1, <1>2, TypesInit DEF Inv

\* Every step keeps it.
LEMMA InvKept == Inv /\ [Next]_vars => Inv'
<1> SUFFICES ASSUME Inv, [Next]_vars PROVE Inv'
  OBVIOUS
<1>1. CASE WmtupStep
  <2>1. WmtTypeOK /\ (Main \/ Serve \/ AskOther)
    BY <1>1 DEF WmtupStep, Inv, TypeOK
  <2>2. WmtTypeOK' /\ DriverInv' /\ AnswerInv'
    BY <2>1, WmtupTypes, AnswersKept DEF Inv
  <2>3. UNCHANGED <<script, radio, bluez, again, bus>>
    BY <1>1 DEF WmtupStep
  <2>4. TypeOK'
    BY <2>2, <2>3 DEF Inv, TypeOK, radio, bluez, again, bus
  <2>5. BusInv'
    BY <2>3 DEF Inv, BusInv, LockInv, TakenInv, ScriptInv, bus, bluez
  <2>6. QED
    BY <2>2, <2>4, <2>5 DEF Inv
<1>2. ASSUME UNCHANGED wmt
      PROVE  DriverInv' /\ AnswerInv'
  BY <1>2 DEF Inv, DriverInv, AnswerInv, GivenBefore, Loads, wmt, answerer, driver
<1>3. CASE BusStep
  <2>1. UNCHANGED wmt
    BY <1>3 DEF BusStep, LockStep, Mkdir, LookAgain, StartBus, LetGo, Waited, WaitsNoMore,
                TakeOver, StartLate, DaemonBegins, DaemonDies
  <2>2. QED
    BY <1>2, <1>3, <2>1, BusTypes, BusKept DEF Inv
<1>4. CASE ScriptStep
  <2>1. UNCHANGED wmt
    BY <1>4 DEF ScriptStep, Begin, WaitHci, NoHciCame, FirstLook, BusSettled, StartBluetoothd,
                PowerCycle, StartBluealsa
  <2>2. QED
    BY <1>2, <1>4, <2>1, ScriptTypes, ScriptKept DEF Inv
<1>5. CASE Bridge \/ BridgeEnds \/ Reset \/ Register \/ Window \/ \E c \in Calls : Again(c)
  <2>1. TypeOK'
    BY <1>5, RadioTypes DEF Inv
  <2>2. DriverInv' /\ AnswerInv'
    BY <1>5, RadioLeaves, SearchKept DEF Inv, TypeOK
  <2>3. BusInv'
    BY <1>5, RadioLeaves DEF Inv, BusInv, LockInv, TakenInv, ScriptInv, bus
  <2>4. QED
    BY <2>1, <2>2, <2>3 DEF Inv
<1>6. CASE UNCHANGED vars
  <2>1. UNCHANGED <<wmt, script, radio, bluez, again, bus>>
    BY <1>6 DEF vars
  <2>2. TypeOK'
    BY <2>1 DEF Inv, TypeOK, WmtTypeOK, wmt, answerer, driver, radio, bluez, again, bus
  <2>3. BusInv'
    BY <2>1 DEF Inv, BusInv, LockInv, TakenInv, ScriptInv, bus, bluez
  <2>4. QED
    BY <1>2, <2>1, <2>2, <2>3 DEF Inv
<1>7. QED
  BY <1>1, <1>3, <1>4, <1>5, <1>6, Steps

\* So it holds in every behaviour.
LEMMA Invariant == Spec => []Inv
  BY InvInit, InvKept, PTL DEF Spec

\* wmtup, the driver, the bridge, the calls of again and the starters of the bus
\* keep their types: no third bus, and no patch beyond what the driver takes.
THEOREM RadioTypeCorrect == Spec => []TypeOK
<1>1. Inv => TypeOK
  BY DEF Inv
<1>2. QED
  BY <1>1, Invariant, PTL

\* bluetoothd starts on a bus that is there, and there is one bus as long as no
\* holder of the lock died (techo5-bt's lock and the daemon's).
THEOREM OneBusOnly == Spec => []OneBus
<1>1. Inv => OneBus
  BY DEF Inv, TypeOK, BusInv, LockInv, ScriptInv, OneBus
<1>2. QED
  BY <1>1, Invariant, PTL

\* With no call failing, a search is answered with every patch the driver takes,
\* in its order, if there is any, and with "fail" if there is none (wmtup's serve).
THEOREM AnswersTrue == Spec => AnswerIsTrue
<1> DEFINE True == asked = "srh_patch" /\ asked' = Nothing /\ faults' = 0 => (chip' = "on" <=> files > 0)
<1>1. Inv /\ [Next]_vars => [True]_vars
  <2> SUFFICES ASSUME Inv, Next, asked = "srh_patch", asked' = Nothing, faults' = 0
               PROVE  chip' = "on" <=> files > 0
    OBVIOUS
  <2>1. Reply
    <3>1. CASE WmtupStep
      <4>1. Main \/ Serve \/ AskOther
        BY <3>1 DEF WmtupStep
      <4>2. ~PowerWifi
        BY DEF PowerWifi, Search, driver, Nothing, Inv, TypeOK, WmtTypeOK
      <4>3. QED
        BY <4>1, <4>2 DEF Main, Serve, Detect, Configure, WriteFails, StayUp, Read, ReadFails,
                    Announce, Inform, AskOther, Exit, Search, driver, Nothing
    <3>2. CASE BusStep \/ ScriptStep
      BY <3>2 DEF BusStep, LockStep, Mkdir, LookAgain, StartBus, LetGo, Waited, WaitsNoMore,
                  TakeOver, StartLate, DaemonBegins, DaemonDies, ScriptStep, Begin, WaitHci,
                  NoHciCame, FirstLook, BusSettled, StartBluetoothd, PowerCycle, StartBluealsa,
                  wmt, driver, Nothing
    <3>3. CASE Bridge \/ BridgeEnds \/ Reset \/ Register \/ Window \/ \E c \in Calls : Again(c)
      BY <3>3, RadioLeaves DEF Search, driver, Nothing
    <3>4. QED
      BY <3>1, <3>2, <3>3, Steps
  <2>2. faults = 0 /\ Take(serve.at) /\ serve.at \in {"ok", "fail"}
    BY <2>1 DEF Reply, Fault, Nothing, Inv, TypeOK, WmtTypeOK
  <2>3. CASE serve.at = "ok"
    BY <2>2, <2>3 DEF Take, Inv, AnswerInv
  <2>4. CASE serve.at = "fail"
    BY <2>2, <2>4 DEF Take, Inv, AnswerInv
  <2>5. QED
    BY <2>2, <2>3, <2>4
<1>2. QED
  BY <1>1, Invariant, PTL DEF Spec, AnswerIsTrue

-----------------------------------------------------------------------------
(* What SearchAnswered rests on: no search of the driver's gets lost.      *)

\* wmtup's serve is there from the time that anything can be asked, and has in
\* hand what it has read, unless a call failed.
ServeInv ==
  /\ serve.at = "off" <=> wmtup \in {"start", "open"}
  /\ serve.at = "off" => script = "start" /\ bridge = "off" /\ chip = "off"
  /\ asked # Nothing /\ ~posted /\ faults = 0 /\ serve.at # "gone" =>
       serve.at \in {"answer", "info", "ok", "fail"}

\* wmtup's own steps, and other questions, keep that.
LEMMA ServeWmtup ==
  ASSUME Inv, ServeInv, WmtupStep
  PROVE  ServeInv'
<1> USE DEF ServeInv, Nothing, driver, answerer, Exit, Fault, radio
<1>1. /\ WmtTypeOK /\ DriverInv /\ AnswerInv /\ UNCHANGED <<script, bridge>>
      /\ Main \/ Serve \/ (script = "start" /\ AskOther)
  BY DEF Inv, TypeOK, WmtupStep
<1>2. /\ faults \in Nat /\ (posted => asked # Nothing) /\ asked \in {Nothing, "srh_patch", "other"}
      /\ serve \in [at : {"off", "poll", "answer", "info", "ok", "fail", "gone"},
                    num : 0..MaxPatches, next : 0..(MaxPatches + 1)]
      /\ chip = "off" => asked = Nothing
  BY <1>1 DEF WmtTypeOK, DriverInv
<1>3. CASE Detect \/ Configure
  BY <1>1, <1>2, <1>3 DEF Detect, Configure
<1>4. CASE PowerWifi
  <2>1. wmtup' \in {"written", "powering"} /\ (UNCHANGED <<asked, posted>> \/ Search)
    <3>1. chip \in {"off", "waits", "on"}
      BY <1>1 DEF WmtTypeOK
    <3>2. QED
      BY <1>4, <3>1 DEF PowerWifi
  <2>2. wmtup = "configured" /\ UNCHANGED <<serve, faults>>
    BY <1>4 DEF PowerWifi
  <2>3. QED
    BY <1>1, <2>1, <2>2 DEF Search
<1>5. CASE WriteFails \/ StayUp
  BY <1>1, <1>2, <1>5 DEF WriteFails, StayUp
<1>6. CASE Read
  BY <1>1, <1>2, <1>6 DEF Read, Handle, Cmd
<1>7. CASE ReadFails
  BY <1>1, <1>2, <1>7 DEF ReadFails
<1>8. CASE Announce \/ Inform
  <2>1. serve.at \in {"answer", "info"} /\ UNCHANGED wmtup
    BY <1>8 DEF Announce, Inform
  <2>2. serve'.at \in {"info", "ok", "fail"}
    <3>1. CASE Announce
      <4>1. \/ serve' = [at |-> "info", num |-> Named(files), next |-> 1]
            \/ serve' = [serve EXCEPT !.at = "fail", !.num = 0]
        BY <3>1 DEF Announce
      <4>2. [serve EXCEPT !.at = "fail", !.num = 0].at = "fail"
        BY <1>2
      <4>3. CASE serve' = [at |-> "info", num |-> Named(files), next |-> 1]
        BY <4>3
      <4>4. CASE serve' = [serve EXCEPT !.at = "fail", !.num = 0]
        BY <4>2, <4>4
      <4>5. QED
        BY <4>1, <4>3, <4>4
    <3>2. CASE Inform
      BY <1>2, <3>2 DEF Inform
    <3>3. QED
      BY <1>8, <3>1, <3>2
  <2>3. QED
    BY <1>1, <2>1, <2>2
<1>9. CASE Reply
  <2>1. wmtup \notin {"start", "open"} /\ wmtup' \notin {"start", "open"}
    BY <1>2, <1>9 DEF Reply, Take
  <2>2. QED
    BY <1>1, <1>2, <1>9, <2>1 DEF Reply, Take, AfterReply
<1>10. CASE script = "start" /\ AskOther
  BY <1>1, <1>2, <1>10 DEF AskOther
<1>11. QED
  BY <1>1, <1>3, <1>4, <1>5, <1>6, <1>7, <1>8, <1>9, <1>10 DEF Main, Serve

\* So does every other step: it asks, or leaves wmtup alone.
LEMMA ServeKept == Inv /\ ServeInv /\ [Next]_vars => ServeInv'
<1> SUFFICES ASSUME Inv, ServeInv, [Next]_vars PROVE ServeInv'
  OBVIOUS
<1> USE DEF ServeInv, answerer, driver
<1>1. CASE BusStep
  BY <1>1 DEF BusStep, LockStep, Mkdir, LookAgain, StartBus, LetGo, Waited, WaitsNoMore, TakeOver,
              StartLate, DaemonBegins, DaemonDies, wmt, radio
<1>2. CASE ScriptStep
  <2>1. UNCHANGED wmt /\ (UNCHANGED bridge \/ Begin)
    BY <1>2 DEF ScriptStep, Begin, WaitHci, NoHciCame, FirstLook, BusSettled, StartBluetoothd,
                PowerCycle, StartBluealsa, radio
  <2>2. script # "start" \/ Begin
    BY <1>2 DEF ScriptStep, Begin, WaitHci, NoHciCame, FirstLook, BusSettled, StartBluetoothd,
                PowerCycle, StartBluealsa, ScriptGoes
  <2>3. CASE Begin
    BY <2>1, <2>3 DEF Begin, wmt
  <2>4. CASE ~Begin
    BY <2>1, <2>2, <2>4 DEF wmt
  <2>5. QED
    BY <2>3, <2>4
<1>3. CASE Bridge \/ BridgeEnds \/ Reset \/ Register \/ Window \/ \E c \in Calls : Again(c)
  <2>1. /\ UNCHANGED <<script, wmtup, serve, faults>>
        /\ Search \/ UNCHANGED <<asked, posted, given, chip>>
    BY <1>3, RadioLeaves
  <2>2. CASE serve.at = "off"
    <3>1. bridge = "off" /\ chip = "off" /\ chip # "on"
      BY <2>2
    <3>2. UNCHANGED <<bridge, chip>>
      BY <1>3, <3>1 DEF Bridge, Open, Opened, Restart, BridgeEnds, Reset, Register, Window, Again,
           Number, Announced, Superseded, Class, Second, radio, wmt
    <3>3. QED
      BY <2>1, <2>2, <3>2 DEF Search
  <2>3. CASE serve.at # "off"
    BY <2>1, <2>3 DEF Search
  <2>4. QED
    BY <2>2, <2>3
<1>4. CASE UNCHANGED vars
  BY <1>4 DEF vars, wmt, radio
<1>5. QED
  BY <1>1, <1>2, <1>3, <1>4, ServeWmtup, Steps

\* A search the driver waits on is with somebody: not read yet, with serve about
\* to read, or read and being answered.
SearchInHand ==
  asked = "srh_patch" =>
    \/ posted /\ serve.at = "poll"
    \/ ~posted /\ serve.at \in {"answer", "info", "ok", "fail"}
    \/ serve.at = "gone" \/ (~posted /\ faults > 0)

\* However the driver's searches fall between serve's reads and main's steps,
\* none gets lost: each is still to be read or being answered, unless wmtup ended
\* or a call of it failed (serve; main, "has to outlive the bring-up").
THEOREM SearchesInHand == Spec => []SearchInHand
<1>1. Init => ServeInv
  BY DEF Init, WmtInit, ServeInv
<1>2. Inv /\ ServeInv => SearchInHand
  <2> SUFFICES ASSUME Inv, ServeInv, asked = "srh_patch" PROVE SearchInHand
    BY DEF SearchInHand
  <2>1. /\ serve.at \in {"off", "poll", "answer", "info", "ok", "fail", "gone"}
        /\ faults \in Nat /\ chip = "waits"
        /\ serve.at \in {"answer", "info", "ok", "fail"} => ~posted
    BY DEF Inv, TypeOK, WmtTypeOK, DriverInv, AnswerInv
  <2>2. serve.at # "off"
    BY <2>1 DEF ServeInv
  <2>3. QED
    BY <2>1, <2>2 DEF ServeInv, SearchInHand, Nothing
<1>3. QED
  BY <1>1, <1>2, ServeKept, Invariant, PTL DEF Spec

-----------------------------------------------------------------------------
(* The hci0 that stays.                                                    *)

\* A call that will still give the adapter its class, and one that has given it
\* and will once more.
Due(c) == calls[c].at \in {"read", "write"} \/ (calls[c].at = "class" /\ Newest(c))
Finishing(c) == calls[c].at = "second" /\ Newest(c)

\* Nothing but techo5-bt's own power cycle is left to put right.
Quiet ==
  /\ bluetoothd /\ ~adapter.known => script = "power" /\ ~saved
  /\ adapter.known => /\ adapter.findable => window
                      /\ adapter.class = "loudspeaker" \/ script = "power"

\* There is an hci0 as long as the bridge is up, and bluetoothd starts after the
\* first one.
HciInv ==
  /\ adapter.there <=> bridge = "up"
  /\ adapter.known => adapter.there /\ bluetoothd
  /\ adapter.findable => adapter.known
  /\ script = "start" => bridge = "off" /\ ends = 0
  /\ script = "power" => bluetoothd
  /\ bluetoothd => script \in {"power", "bluealsa", "done"}
  /\ ~bluetoothd => ~saved /\ ~window
  /\ ends = 0 /\ bridge \in {"off", "opening", "waiting"} => script \in {"start", "hci", "done"} /\ ~bluetoothd

\* Each new hci0 finds a call that is due, and is right once none is.
CallsInv ==
  /\ bridge \in {"opening", "waiting"} /\ ends > 0 => \E c \in Calls : Due(c)
  /\ bridge = "up" => (\E c \in Calls : Due(c) \/ Finishing(c)) \/ Quiet

HciTypes ==
  /\ adapter \in [there : BOOLEAN, known : BOOLEAN, findable : BOOLEAN,
                  class : {"default", "loudspeaker"}]
  /\ bluetoothd \in BOOLEAN /\ saved \in BOOLEAN /\ window \in BOOLEAN
  /\ ends \in 0..MaxEnds /\ faults \in Nat /\ newest \in Nat
  /\ calls \in [Calls -> [at : {"off", "read", "write", "class", "second"}, g : Nat]]

\* The fields of the adapter a step may leave behind.
LEMMA Adapters ==
  ASSUME HciTypes
  PROVE  /\ ~NoHci.there /\ ~NoHci.known /\ ~NoHci.findable
         /\ NewHci.there /\ ~NewHci.known /\ ~NewHci.findable
         /\ Right(adapter).there = adapter.there
         /\ Right(adapter).known = adapter.known
         /\ adapter.there => ~Right(adapter).findable /\ Right(adapter).class = "loudspeaker"
         /\ ~adapter.there => Right(adapter) = adapter
<1>1. NewHci.there /\ ~NewHci.known /\ ~NewHci.findable
  <2>1. \A hci \in [there : BOOLEAN, known : BOOLEAN, findable : BOOLEAN, class : {"default"}] :
          LET new == [hci EXCEPT !.there = TRUE]
          IN  new.there = TRUE /\ new.known = hci.known /\ new.findable = hci.findable
    OBVIOUS
  <2>2. NoHci \in [there : BOOLEAN, known : BOOLEAN, findable : BOOLEAN, class : {"default"}]
    BY DEF NoHci
  <2>3. NewHci.there /\ NewHci.known = NoHci.known /\ NewHci.findable = NoHci.findable
    BY <2>1, <2>2 DEF NewHci
  <2>4. QED
    BY <2>3 DEF NoHci
<1>2. CASE adapter.there
  <2>1. Right(adapter) = [there |-> TRUE, known |-> adapter.known, class |-> "loudspeaker",
                          findable |-> FALSE]
    BY <1>2, ZenonT(20) DEF Right, HciTypes
  <2>2. QED
    BY <1>1, <1>2, <2>1 DEF NoHci
<1>3. CASE ~adapter.there
  BY <1>1, <1>3 DEF Right, NoHci
<1>4. QED
  BY <1>2, <1>3

\* The bridge and the chip: a new hci0 comes with a call that is due, but for
\* the first, which bluetoothd has not seen.
LEMMA HciBridge ==
  ASSUME HciTypes, HciInv, CallsInv, UNCHANGED <<script, bluez>>,
         Open \/ Opened \/ Restart \/ BridgeEnds \/ Reset
  PROVE  HciInv' /\ CallsInv'
<1>1. CASE Restart
  <2>1. /\ bridge = "ended" /\ bridge' = "opening" /\ ends + faults < MaxEnds /\ ends' = ends + 1
        /\ UNCHANGED <<script, adapter, bluez>>
    BY <1>1 DEF Restart
  <2>2. PICK c \in Calls : calls' = [calls EXCEPT ![c].at = "read"]
    <3>1. ends' \in Calls
      BY <2>1 DEF HciTypes, Calls
    <3>2. QED
      BY <1>1, <3>1, Zenon DEF Restart
  <2>3. CallsInv'
    <3>1. calls'[c].at = "read"
      BY <2>2 DEF HciTypes
    <3>2. QED
      BY <2>1, <3>1 DEF CallsInv, Due, Calls
  <2>4. HciInv'
    BY <2>1 DEF HciInv, HciTypes, bluez
  <2>5. QED
    BY <2>3, <2>4
<1>2. CASE Open \/ Opened \/ BridgeEnds \/ Reset
  <2>1. UNCHANGED <<script, bluez, again, ends>>
    BY <1>2 DEF Open, Opened, BridgeEnds, Reset
  <2>2. \/ /\ bridge \in {"opening", "waiting"}
           /\ bridge' \in {"ended", "waiting", "up"}
           /\ adapter' = IF bridge' = "up" THEN NewHci ELSE NoHci
        \/ /\ \/ bridge = "up" /\ bridge' = "ended"
              \/ bridge = "off" /\ bridge' = "off"
           /\ adapter' = NoHci
    <3>1. CASE Open
      <4>1. bridge' \in {"ended", "waiting", "up"}
        BY <3>1 DEF Open
      <4>2. QED
        BY <3>1, <4>1 DEF Open
    <3>2. CASE Opened
      BY <3>2 DEF Opened
    <3>3. CASE BridgeEnds \/ Reset
      BY <3>3 DEF BridgeEnds, Reset
    <3>4. QED
      BY <1>2, <3>1, <3>2, <3>3
  <2>3. \A c \in Calls : Due(c) => Due(c)'
    BY <2>1 DEF Due, Newest, again
  <2>4. HciInv'
    BY <2>1, <2>2, Adapters DEF HciInv, HciTypes, bluez
  <2>5. CallsInv'
    <3>1. CASE bridge \in {"opening", "waiting"} /\ ends > 0
      BY <2>3, <3>1 DEF CallsInv, Calls
    <3>2. CASE bridge \in {"opening", "waiting"} /\ ~(ends > 0)
      <4>1. ~bluetoothd' /\ ~(ends' > 0) /\ ~adapter'.known
        BY <2>1, <2>2, <3>2, Adapters DEF HciInv, HciTypes, bluez
      <4>2. QED
        BY <4>1 DEF CallsInv, Quiet
    <3>3. CASE bridge' \in {"ended", "off"}
      BY <3>3 DEF CallsInv
    <3>4. QED
      BY <2>2, <3>1, <3>2, <3>3
  <2>6. QED
    BY <2>4, <2>5
<1>3. QED
  BY <1>1, <1>2

\* bluetoothd's own and the daemon's window: what one of them puts back is not
\* findable without a window, unless a call is still to come.
LEMMA HciDaemons ==
  ASSUME HciTypes, HciInv, CallsInv, Register \/ Window
  PROVE  HciInv' /\ CallsInv'
<1>1. UNCHANGED <<script, bridge, ends, bluetoothd, again>>
  BY DEF Register, Window, bluez
<1>2. \A c \in Calls : (Due(c) => Due(c)') /\ (Finishing(c) => Finishing(c)')
  BY <1>1 DEF Due, Finishing, Newest, again
<1>3. HciInv' /\ (Quiet /\ adapter.there => Quiet')
  <2>1. CASE Register
    BY <1>1, <2>1 DEF Register, bluez, HciInv, Quiet, HciTypes
  <2>2. CASE Window /\ adapter.known
    <3>1. /\ window' = ~window /\ saved' = window' /\ bluetoothd
          /\ adapter' = [adapter EXCEPT !.findable = saved']
      BY <2>2 DEF Window
    <3>2. adapter' = [there |-> adapter.there, known |-> adapter.known, class |-> adapter.class,
                      findable |-> saved']
      BY <3>1 DEF HciTypes
    <3>3. QED
      BY <1>1, <2>2, <3>1, <3>2 DEF HciInv, Quiet
  <2>3. CASE Window /\ ~adapter.known
    BY <1>1, <2>3 DEF Window, HciInv, Quiet
  <2>4. QED
    BY <2>1, <2>2, <2>3
<1>4. CallsInv'
  BY <1>1, <1>2, <1>3 DEF CallsInv, HciInv, Calls
<1>5. QED
  BY <1>3, <1>4


\* techo5-bt: bluetoothd finds no window and nothing saved, and the power cycle
\* ends with a loudspeaker.
LEMMA HciScript ==
  ASSUME HciTypes, HciInv, CallsInv, ScriptStep
  PROVE  HciInv' /\ CallsInv'
<1>1. UNCHANGED <<ends, saved, window, again>>
  BY DEF ScriptStep, Begin, WaitHci, NoHciCame, FirstLook, BusSettled, StartBluetoothd,
         PowerCycle, StartBluealsa, radio, bluez
<1>2. \A c \in Calls : (Due(c) => Due(c)') /\ (Finishing(c) => Finishing(c)')
  BY <1>1 DEF Due, Finishing, Newest, again
<1>3. HciInv' /\ (Quiet /\ adapter.there => Quiet') /\ (bridge' = bridge \/ Begin)
  <2> USE DEF HciInv, Quiet, ScriptGoes, HciTypes
  <2>1. CASE Begin
    BY <1>1, <2>1 DEF Begin, bluez
  <2>2. CASE WaitHci \/ NoHciCame
    BY <1>1, <2>2 DEF WaitHci, NoHciCame, radio, bluez
  <2>3. CASE FirstLook \/ BusSettled
    BY <1>1, <2>3 DEF FirstLook, BusSettled, radio, bluez
  <2>4. CASE StartBluetoothd \/ StartBluealsa
    BY <1>1, <2>4 DEF StartBluetoothd, StartBluealsa, radio, bluez
  <2>5. CASE PowerCycle
    <3>1. /\ adapter'.there = adapter.there /\ adapter'.known = adapter.known
          /\ adapter'.findable = adapter.findable
          /\ adapter.there => adapter'.class = "loudspeaker"
      BY <2>5 DEF PowerCycle
    <3>2. /\ Settled /\ script = "power" /\ script' = "bluealsa"
          /\ UNCHANGED <<bridge, bluetoothd>>
      BY <2>5 DEF PowerCycle, bluez
    <3>3. QED
      BY <1>1, <3>1, <3>2 DEF Settled
  <2>6. QED
    BY <2>1, <2>2, <2>3, <2>4, <2>5 DEF ScriptStep
<1>4. CASE Begin /\ bridge' # bridge
  <2>1. bridge' = "opening" /\ script = "start"
    BY <1>4 DEF Begin, ScriptGoes
  <2>2. CallsInv'
    BY <1>1, <2>1 DEF CallsInv, HciInv
  <2>3. QED
    BY <1>3, <2>2
<1>5. CASE bridge' = bridge
  BY <1>1, <1>2, <1>3, <1>5 DEF CallsInv, HciInv, Calls
<1>6. QED
  BY <1>3, <1>4, <1>5


\* A call of again leaves off only when there is a newer one, or with the
\* adapter put right a second time.
LEMMA HciCalls ==
  ASSUME HciTypes, HciInv, CallsInv, NEW c \in Calls, Again(c)
  PROVE  HciInv' /\ CallsInv'
<1>1. UNCHANGED <<script, bridge, ends, bluetoothd, saved, window>>
  BY DEF Again, Number, Announced, Superseded, Class, Second, radio, bluez
<1>2. \A d \in Calls \ {c} : calls'[d] = calls[d]
  BY DEF Again, Number, Announced, Superseded, Class, Second, Step, HciTypes
<1>3. CASE Number(c)
  <2>1. UNCHANGED adapter /\ Due(c)'
    <3>1. \A n : [calls EXCEPT ![c].at = "write", ![c].g = n][c].at = "write"
      BY DEF HciTypes
    <3>2. UNCHANGED adapter /\ calls'[c].at = "write"
      BY <1>3, <3>1 DEF Number, radio
    <3>3. QED
      BY <3>2 DEF Due
  <2>2. QED
    BY <1>1, <2>1 DEF HciInv, CallsInv
<1>4. CASE Announced(c)
  <2>1. calls'[c].at = "class" /\ calls'[c].g = calls[c].g
    BY <1>4 DEF Announced, Step, HciTypes
  <2>2. UNCHANGED adapter /\ newest' = calls[c].g
    BY <1>4 DEF Announced, radio
  <2>3. Due(c)'
    BY <2>1, <2>2 DEF Due, Newest
  <2>4. QED
    BY <1>1, <2>2, <2>3 DEF HciInv, CallsInv
<1>5. CASE Superseded(c)
  <2>1. UNCHANGED <<adapter, newest>> /\ ~Due(c) /\ ~Finishing(c)
    BY <1>5 DEF Superseded, radio, Due, Finishing
  <2>2. \A d \in Calls : (Due(d) => Due(d)') /\ (Finishing(d) => Finishing(d)')
    BY <1>2, <2>1 DEF Due, Finishing, Newest
  <2>3. Quiet => Quiet'
    BY <1>1, <2>1 DEF Quiet
  <2>4. QED
    BY <1>1, <2>1, <2>2, <2>3 DEF HciInv, CallsInv
<1>6. CASE Class(c)
  <2>1. /\ adapter.there /\ newest = calls[c].g /\ UNCHANGED newest
        /\ adapter' = Right(adapter)
        /\ calls'[c].at = "second" /\ calls'[c].g = calls[c].g
    BY <1>6 DEF Class, Newest, Step, HciTypes
  <2>2. Finishing(c)'
    BY <2>1 DEF Finishing, Newest
  <2>3. bridge' = "up"
    BY <1>1, <2>1 DEF HciInv
  <2>4. CallsInv'
    BY <2>2, <2>3 DEF CallsInv
  <2>5. HciInv'
    BY <1>1, <2>1, Adapters DEF HciInv
  <2>6. QED
    BY <2>4, <2>5
<1>7. CASE Second(c)
  <2>1. UNCHANGED newest /\ Settled /\ adapter' = Right(adapter) /\ calls[c].at = "second"
    BY <1>7 DEF Second, SecondTime
  <2>2. HciInv'
    BY <1>1, <2>1, Adapters DEF HciInv
  <2>3. bridge = "up" => Quiet'
    BY <1>1, <2>1, Adapters DEF HciInv, Quiet, Settled
  <2>4. \A d \in Calls : Due(d) => Due(d)'
    BY <1>2, <2>1 DEF Due, Newest
  <2>5. CallsInv'
    BY <1>1, <2>3, <2>4 DEF CallsInv
  <2>6. QED
    BY <2>2, <2>5
<1>8. QED
  BY <1>3, <1>4, <1>5, <1>6, <1>7 DEF Again

\* Every step keeps both.
LEMMA HciKept == Inv /\ HciInv /\ CallsInv /\ [Next]_vars => HciInv' /\ CallsInv'
<1> SUFFICES ASSUME Inv, HciInv, CallsInv, [Next]_vars PROVE HciInv' /\ CallsInv'
  OBVIOUS
<1>1. HciTypes
  BY DEF Inv, TypeOK, WmtTypeOK, HciTypes
<1>2. ASSUME UNCHANGED <<script, radio, bluez, again>>
      PROVE  HciInv' /\ CallsInv'
  <2>1. UNCHANGED <<script, bridge, ends, adapter, bluetoothd, saved, window, newest, calls>>
    BY <1>2 DEF radio, bluez, again
  <2>2. HciInv'
    BY <2>1 DEF HciInv
  <2>3. CallsInv'
    BY <2>1 DEF CallsInv, Due, Finishing, Quiet, Newest
  <2>4. QED
    BY <2>2, <2>3
<1>3. CASE WmtupStep \/ UNCHANGED vars
  BY <1>2, <1>3 DEF WmtupStep, vars
<1>4. CASE BusStep
  BY <1>2, <1>4 DEF BusStep, LockStep, Mkdir, LookAgain, StartBus, LetGo, Waited, WaitsNoMore,
                    TakeOver, StartLate, DaemonBegins, DaemonDies
<1>5. CASE ScriptStep
  BY <1>1, <1>5, HciScript
<1>6. CASE Bridge \/ BridgeEnds \/ Reset
  <2>1. UNCHANGED <<script, bluez>>
    BY <1>6 DEF Bridge, Open, Opened, Restart, BridgeEnds, Reset
  <2>2. QED
    BY <1>1, <1>6, <2>1, HciBridge DEF Bridge
<1>7. CASE Register \/ Window
  BY <1>1, <1>7, HciDaemons
<1>8. CASE \E c \in Calls : Again(c)
  BY <1>1, <1>8, HciCalls
<1>9. QED
  BY <1>3, <1>4, <1>5, <1>6, <1>7, <1>8, Steps

\* With no call of again left and the power cycle done, the hci0 that is there
\* is known to bluetoothd, a loudspeaker, and findable only in a pairing window.
QuietIsRight ==
  adapter.there /\ bluetoothd /\ script # "power" /\ (\A c \in Calls : calls[c].at = "off") =>
    adapter.known /\ adapter.class = "loudspeaker" /\ (adapter.findable => window)

\* However the ends of the bridge, the calls they start, bluetoothd's own
\* settings and the daemon's windows fall together, no call leaves an adapter
\* behind that is not right (again, "the hci0 that matters is the last one"):
\* what of LastAdapterRight does not rest on the calls going on.
THEOREM QuietAdapterRight == Spec => []QuietIsRight
<1>1. Init => HciInv /\ CallsInv
  BY DEF Init, HciInv, CallsInv, NoHci
<1>2. HciInv /\ CallsInv => QuietIsRight
  BY DEF HciInv, CallsInv, QuietIsRight, Quiet, Due, Finishing
<1>3. QED
  BY <1>1, <1>2, HciKept, Invariant, PTL DEF Spec
=============================================================================
