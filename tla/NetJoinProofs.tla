--------------------------- MODULE NetJoinProofs ---------------------------
(***************************************************************************)
(* The network a unit was told last is the one it tries, a lease in rescue *)
(* leads to SSH however late it comes, and what is typed at a console is   *)
(* answered truly: for every set of networks, number of events and set of  *)
(* ports, on the unit by itself and over its console.                      *)
(***************************************************************************)
EXTENDS SetWifi, SequenceTheorems, TLAPS

-----------------------------------------------------------------------------
(* The unit's steps, without the bound on how often somebody acts.         *)

Scripted == SetStep \/ \E p \in Scripts : JoinStep(p)

UnitStep ==
  \/ \E order \in Orders : WifiSet(order)
  \/ Scripted
  \/ World
  \/ Pull

\* What the unit was told stays as it is but for its excuses.
Clean(c) == c.but \cap {"clock", "forget", "race"} = {}

-----------------------------------------------------------------------------
(* The invariant.                                                          *)

\* wifi-set saves an order; only one that has not got as far can be running
\* beside a boot's techo5-net in a slot, which begins with no supplicant.
ScriptsInv ==
  /\ scripts["set"].at = "save" => scripts["set"].arg \in Orders
  /\ \A p \in Scripts : scripts[p].at = "write" => scripts[p].arg \in Known
  /\ ~rescue =>
       /\ scripts["boot"].at = "off" \/ scripts["set"].at = "off"
       /\ scripts["boot"].at \in {"decide", "write"} => wpa = {}

\* OWN alone says what the unit was told, on every store that may be left.
OwnInv ==
  \A s \in survivors : Unbuilt(s) = {Told(s).net}

\* CONF is missing on a store that may be left if there has never been one.
ConfInv ==
  disk.conf.nets = {} => \A s \in survivors : s.conf.nets = {}

\* A CONF that is used before OWN has what the unit was told.
KeptInv ==
  \A s \in survivors :
    Clean(Told(s)) /\ UseKept(s) => Told(s).net \in s.conf.nets

\* So does one that a supplicant in a slot was given, so that the setup page
\* may write it anew.
BuiltInv ==
  /\ ~rescue /\ ~Unbuilding /\ Clean(choice)
  /\ wpa # {} \/ \E p \in Scripts : scripts[p].at \in {"start", "associate", "lease"}
  => choice.net \in disk.conf.nets

FilesInv == OwnInv /\ ConfInv /\ KeptInv

Inv == UnitTypeOK /\ ScriptsInv /\ FilesInv /\ BuiltInv

-----------------------------------------------------------------------------
(* The files.                                                              *)

\* What techo5-net reads without a CONF is OWN's, or Fire OS's network.
LEMMA UnbuiltIsOwn ==
  ASSUME NEW s \in Stores
  PROVE  Unbuilt(s) = IF s.own.nets # {} THEN s.own.nets ELSE {FireOs}
  BY DEF Unbuilt, Tried, UseKept, Missing, Stores

\* A CONF that is not used leaves what OWN says.
LEMMA TriedUnkept ==
  ASSUME NEW s \in Stores
  PROVE  Tried(s) = IF UseKept(s) THEN s.conf.nets ELSE Unbuilt(s)
  BY UnbuiltIsOwn DEF Tried

\* The invariant keeps the choice.
LEMMA InvKeepsChoice == Inv => ChoiceKept
  <1> SUFFICES ASSUME Inv, NEW s \in survivors, Clean(Told(s))
               PROVE  Told(s).net \in Tried(s)
    BY DEF ChoiceKept, Clean
  <1>1. s \in Stores
    BY DEF Inv, UnitTypeOK
  <1>2. Unbuilt(s) = {Told(s).net}
    BY DEF Inv, FilesInv, OwnInv
  <1>3. UseKept(s) => Told(s).net \in s.conf.nets
    BY DEF Inv, FilesInv, KeptInv
  <1> QED
    BY <1>1, <1>2, <1>3, TriedUnkept

\* What an OWN or a CONF put on the disk may leave.
LEMMA PutOwnStores ==
  ASSUME UnitTypeOK, NEW nets \in SUBSET Nets, NEW at \in Nat, PutOwn(nets, at)
  PROVE  /\ disk' \in survivors' /\ disk' \in Stores /\ survivors' \subseteq Stores
         /\ disk'.own = [nets |-> nets, at |-> at] /\ disk'.conf = disk.conf
         /\ \A x \in survivors' : x \in survivors \/ x.own = disk'.own
         /\ \A x \in survivors' : \E s \in survivors : x.conf = s.conf
  <1> DEFINE Put(s) == [s EXCEPT !.own = [nets |-> nets, at |-> at]]
  <1>1. \A s \in Stores : /\ Put(s) \in Stores /\ Put(s).conf = s.conf
                          /\ Put(s).own = [nets |-> nets, at |-> at]
    BY DEF Stores
  <1>2. disk' = Put(disk) /\ survivors' = survivors \cup {Put(s) : s \in Newest}
    BY DEF PutOwn
  <1>3. Newest \subseteq survivors /\ disk \in Newest /\ survivors \subseteq Stores /\ disk \in Stores
    BY DEF Newest, UnitTypeOK
  <1> HIDE DEF Put
  <1> QED
    BY <1>1, <1>2, <1>3

LEMMA PutConfStores ==
  ASSUME UnitTypeOK, NEW nets \in SUBSET Known, NEW at \in Nat, PutConf(nets, at)
  PROVE  /\ disk' \in survivors' /\ disk' \in Stores /\ survivors' \subseteq Stores
         /\ disk'.own = disk.own /\ disk'.conf = [nets |-> nets, at |-> at]
         /\ \A x \in survivors' :
              \/ x \in survivors
              \/ x.own = disk.own /\ (x.conf.nets = {} \/ x.conf.nets = nets)
  <1> DEFINE Put(s) == [s EXCEPT !.conf = [nets |-> nets, at |-> at]]
             Emptied(s) == [s EXCEPT !.conf = Missing]
  <1>1. \A s \in Stores : /\ Put(s) \in Stores /\ Put(s).own = s.own
                          /\ Put(s).conf = [nets |-> nets, at |-> at]
    BY DEF Stores
  <1>2. \A s \in Stores : /\ Emptied(s) \in Stores /\ Emptied(s).own = s.own
                          /\ Emptied(s).conf.nets = {}
    BY DEF Stores, Missing
  <1>3. /\ disk' = Put(disk)
        /\ survivors' = survivors \cup UNION {{Emptied(s), Put(s)} : s \in Newest}
    BY DEF PutConf
  <1>4. /\ Newest \subseteq survivors /\ disk \in Newest /\ survivors \subseteq Stores
        /\ disk \in Stores /\ \A s \in Newest : s.own = disk.own
    BY DEF Newest, UnitTypeOK
  <1> HIDE DEF Put, Emptied
  <1>5. \A x \in survivors' : x \in survivors \/ \E s \in Newest : x = Emptied(s) \/ x = Put(s)
    BY <1>3
  <1>6. disk' \in survivors'
    BY <1>3, <1>4
  <1>7. disk' \in Stores /\ disk'.own = disk.own /\ disk'.conf = [nets |-> nets, at |-> at]
    BY <1>1, <1>3, <1>4
  <1>8. ASSUME NEW x \in survivors', x \notin survivors
        PROVE  x \in Stores /\ x.own = disk.own /\ (x.conf.nets = {} \/ x.conf.nets = nets)
    <2>1. PICK s \in Newest : x = Emptied(s) \/ x = Put(s)
      BY <1>5, <1>8
    <2>2. s \in Stores /\ s.own = disk.own
      BY <1>4
    <2> QED
      BY <1>1, <1>2, <2>1, <2>2
  <1> QED
    BY <1>4, <1>6, <1>7, <1>8

-----------------------------------------------------------------------------
(* Types.                                                                  *)

ScriptStates == [at : Pcs, arg : Orders \cup {FireOs, None}]

\* A script that goes on or ends is well typed, and leaves the other alone.
LEMMA ScriptTypes ==
  ASSUME UnitTypeOK, NEW p \in Scripts, NEW to \in Pcs
  PROVE  /\ [scripts EXCEPT ![p].at = to] \in [Scripts -> ScriptStates]
         /\ \A arg \in Orders \cup {FireOs, None} :
              [scripts EXCEPT ![p] = [at |-> to, arg |-> arg]] \in [Scripts -> ScriptStates]
         /\ [scripts EXCEPT ![p] = Off] \in [Scripts -> ScriptStates]
  BY DEF UnitTypeOK, ScriptStates, Off, Pcs

\* An excuse more is a choice still.
LEMMA ButTypes ==
  ASSUME UnitTypeOK, NEW why \in SUBSET Excuses, But(why)
  PROVE  choice' \in Choices /\ pending' \in Choices
  BY DEF UnitTypeOK, Choices, But

LEMMA ScriptedTypes == UnitTypeOK /\ ScriptsInv /\ Scripted => UnitTypeOK'
  <1> SUFFICES ASSUME UnitTypeOK, ScriptsInv, Scripted PROVE UnitTypeOK'
    OBVIOUS
  <1> USE DEF ScriptStates
  <1>1. CASE Save
    <2> DEFINE order == scripts["set"].arg
               nets == OwnOf(order)
    <2>1. order \in Orders /\ nets \in SUBSET Nets /\ Wanted(order) \in Known
      BY <1>1 DEF Save, ScriptsInv, OwnOf, Orders, Wanted, Known
    <2>2. /\ disk' \in survivors' /\ disk' \in Stores /\ survivors' \subseteq Stores
      BY <1>1, <2>1, PutOwnStores DEF Save, UnitTypeOK
    <2>3. pending' \in Choices
      BY <1>1, <2>1 DEF Save, Choices, Excuses
    <2>4. scripts' \in [Scripts -> ScriptStates]
      BY <1>1, ScriptTypes DEF Save, Go, Scripts, Pcs
    <2> QED
      BY <1>1, <2>2, <2>3, <2>4 DEF Save, UnitTypeOK, radio, net
  <1>2. CASE Sync
    <2>1. scripts' \in [Scripts -> ScriptStates]
      BY <1>2, ScriptTypes DEF Sync, Scripts, Pcs
    <2> QED
      BY <1>2, <2>1 DEF Sync, Flushed, UnitTypeOK, radio, net
  <1>3. CASE Kill
    <2>1. scripts' \in [Scripts -> ScriptStates]
      BY <1>3, ScriptTypes DEF Kill, Go, Scripts, Pcs
    <2>2. clock' \in Nat
      BY <1>3 DEF Kill, UnitTypeOK
    <2>3. UNCHANGED <<disk, survivors, rescue, networkUp, ssh, choice, pending, events>>
      BY <1>3 DEF Kill, files, net, told
    <2>4. wpa' = {} /\ joined' = None /\ dhcp' = FALSE /\ address' = None
      BY <1>3 DEF Kill
    <2> QED
      BY <2>1, <2>2, <2>3, <2>4 DEF UnitTypeOK
  <1>4. ASSUME NEW p \in Scripts, Decide(p)
        PROVE  UnitTypeOK'
    <2>1. disk \in Stores
      BY DEF UnitTypeOK
    <2>2. ~UseKept(disk) => Tried(disk) \subseteq Nets \cup {FireOs}
      BY <2>1 DEF Tried, Stores
    <2>3. scripts' \in [Scripts -> ScriptStates]
      <3>1. CASE UseKept(disk)
        <4>1. scripts' = [scripts EXCEPT ![p] = [at |-> "start", arg |-> None]]
          BY <1>4, <3>1 DEF Decide
        <4>2. "start" \in Pcs
          BY DEF Pcs
        <4> QED
          BY <4>1, <4>2, ScriptTypes
      <3>2. CASE ~UseKept(disk)
        <4>1. PICK n \in Tried(disk) : scripts' = [scripts EXCEPT ![p] = [at |-> "write", arg |-> n]]
          BY <1>4, <3>2 DEF Decide
        <4>2. n \in Orders \cup {FireOs, None}
          BY <2>2, <3>2 DEF Orders
        <4>3. "write" \in Pcs
          BY DEF Pcs
        <4> QED
          BY <4>1, <4>2, <4>3, ScriptTypes
      <3> QED
        BY <3>1, <3>2
    <2> QED
      BY <1>4, <2>3 DEF Decide, UnitTypeOK, files, radio, net, told
  <1>5. ASSUME NEW p \in Scripts, Write(p)
        PROVE  UnitTypeOK'
    <2>1. scripts[p].arg \in Known
      BY <1>5 DEF Write, ScriptsInv
    <2>2. clock' \in Nat
      BY <1>5 DEF Write, UnitTypeOK
    <2>3. /\ disk' \in survivors' /\ disk' \in Stores /\ survivors' \subseteq Stores
      BY <1>5, <2>1, <2>2, PutConfStores DEF Write
    <2>4. choice' \in Choices /\ pending' \in Choices
      <3>1. {} \in SUBSET Excuses /\ {"race"} \in SUBSET Excuses
        BY DEF Excuses
      <3> QED
        BY <1>5, <3>1, ButTypes DEF Write
    <2>5. scripts' \in [Scripts -> ScriptStates]
      BY <1>5, ScriptTypes DEF Write, Pcs
    <2> QED
      BY <1>5, <2>2, <2>3, <2>4, <2>5 DEF Write, UnitTypeOK, radio, net
  <1>6. ASSUME NEW p \in Scripts, Start(p)
        PROVE  UnitTypeOK'
    <2>1. choice' \in Choices /\ pending' \in Choices
      <3>1. {} \in SUBSET Excuses /\ {"meanwhile"} \in SUBSET Excuses
        BY DEF Excuses
      <3> QED
        BY <1>6, <3>1, ButTypes DEF Start
    <2>2. wpa' \in SUBSET Known
      BY <1>6 DEF Start, UnitTypeOK, Stores
    <2>3. scripts' \in [Scripts -> ScriptStates]
      BY <1>6, ScriptTypes DEF Start, Go, Pcs
    <2> QED
      BY <1>6, <2>1, <2>2, <2>3 DEF Start, UnitTypeOK, files, net
  <1>7. ASSUME NEW p \in Scripts, NEW has \in BOOLEAN, End(p, has)
        PROVE  /\ scripts' \in [Scripts -> ScriptStates] /\ rescue' \in BOOLEAN
               /\ networkUp' \in BOOLEAN /\ ssh' \in BOOLEAN
    <2>1. "off" \in Pcs
      BY DEF Pcs
    <2>2. scripts' \in [Scripts -> ScriptStates]
      BY <1>7, <2>1, ScriptTypes DEF End
    <2>3. rescue \in BOOLEAN /\ networkUp \in BOOLEAN /\ ssh \in BOOLEAN
      BY DEF UnitTypeOK
    <2> QED
      BY <1>7, <2>2, <2>3 DEF End, RescueGoesOn, net
  <1>8. ASSUME NEW p \in Scripts, NoWlan(p) \/ NotAssociated(p) \/ Leased(p)
        PROVE  UnitTypeOK'
    <2>1. /\ End(p, FALSE) \/ End(p, address # None)
          /\ UNCHANGED <<files, clock, radio, told, events>>
      BY <1>8 DEF NoWlan, NotAssociated, Leased
    <2>2. (address # None) \in BOOLEAN /\ FALSE \in BOOLEAN
      OBVIOUS
    <2>3. /\ scripts' \in [Scripts -> ScriptStates] /\ rescue' \in BOOLEAN
          /\ networkUp' \in BOOLEAN /\ ssh' \in BOOLEAN
      BY <1>7, <2>1, <2>2
    <2> QED
      BY <2>1, <2>3 DEF UnitTypeOK, files, radio, told
  <1>9. ASSUME NEW p \in Scripts, Associated(p)
        PROVE  UnitTypeOK'
    <2>1. scripts' \in [Scripts -> ScriptStates]
      BY <1>9, ScriptTypes DEF Associated, Go, Pcs
    <2> QED
      BY <1>9, <2>1 DEF Associated, UnitTypeOK, files, net, told
  <1> QED
    BY <1>1, <1>2, <1>3, <1>4, <1>5, <1>6, <1>8, <1>9 DEF Scripted, SetStep, JoinStep

LEMMA WorldTypes == UnitTypeOK /\ World => UnitTypeOK'
  <1> SUFFICES ASSUME UnitTypeOK, World PROVE UnitTypeOK'
    OBVIOUS
  <1>1. CASE Associate
    BY <1>1 DEF Associate, UnitTypeOK, files, net, told
  <1>2. CASE Lease
    BY <1>2 DEF Lease, UnitTypeOK, files, net, told
  <1>3. CASE Ntp
    <2> DEFINE times == {s.own.at : s \in survivors} \cup {s.conf.at : s \in survivors}
    <2>1. times \subseteq Nat
      BY DEF UnitTypeOK, Stores
    <2>2. PICK last \in times : clock' = last + 1
      BY <1>3 DEF Ntp
    <2>3. last \in Nat
      BY <2>1
    <2> HIDE DEF times
    <2>4. clock' \in Nat
      BY <2>2, <2>3
    <2> QED
      BY <1>3, <2>4 DEF Ntp, UnitTypeOK, files, radio, net, told
  <1>4. CASE SetupPage
    <2>1. PICK n \in Nets \ disk.conf.nets :
            /\ clock' \in {clock, clock + 1}
            /\ PutConf(disk.conf.nets \cup {n}, clock')
            /\ wpa' = wpa \cup {n}
      BY <1>4 DEF SetupPage
    <2>2. clock' \in Nat
      BY <2>1 DEF UnitTypeOK
    <2>3. disk.conf.nets \cup {n} \in SUBSET Known /\ wpa' \in SUBSET Known
      BY <2>1 DEF UnitTypeOK, Stores, Known
    <2>4. /\ disk' \in survivors' /\ disk' \in Stores /\ survivors' \subseteq Stores
      BY <2>1, <2>2, <2>3, PutConfStores
    <2>5. choice' \in Choices /\ pending' \in Choices
      <3>1. /\ {} \in SUBSET Excuses /\ {"race"} \in SUBSET Excuses
            /\ {"meanwhile"} \in SUBSET Excuses
        BY DEF Excuses
      <3> QED
        BY <1>4, <3>1, ButTypes DEF SetupPage
    <2>6. events' \in 0..MaxEvents
      BY <1>4, NetsAssumption DEF SetupPage, Happens, UnitTypeOK
    <2> QED
      BY <1>4, <2>2, <2>3, <2>4, <2>5, <2>6 DEF SetupPage, UnitTypeOK, net
  <1>5. CASE RescueLoop
    BY <1>5 DEF RescueLoop, UnitTypeOK, files, radio, told
  <1> QED
    BY <1>1, <1>2, <1>3, <1>4, <1>5 DEF World

LEMMA PullTypes == UnitTypeOK /\ Pull => UnitTypeOK'
  <1> SUFFICES ASSUME UnitTypeOK, Pull PROVE UnitTypeOK'
    OBVIOUS
  <1>1. disk' \in survivors' /\ disk' \in Stores /\ survivors' \subseteq Stores
    BY DEF Pull, UnitTypeOK
  <1>2. choice' \in Choices /\ pending' \in Choices
    BY DEF Pull, UnitTypeOK, Told
  <1>3. clock' \in Nat /\ events' \in 0..MaxEvents
    BY NetsAssumption DEF Pull, Happens, UnitTypeOK
  <1>4. scripts' \in [Scripts -> ScriptStates]
    BY DEF Pull, Off, Scripts, ScriptStates, Pcs
  <1>5. /\ wpa' = {} /\ joined' = None /\ address' = None
        /\ dhcp' = FALSE /\ rescue' \in BOOLEAN /\ networkUp' = FALSE /\ ssh' = FALSE
    BY DEF Pull
  <1> QED
    BY <1>1, <1>2, <1>3, <1>4, <1>5 DEF UnitTypeOK, ScriptStates

-----------------------------------------------------------------------------
(* Every step keeps the invariant.                                         *)

\* What the unit was told stays, for whoever sees a store that was there or
\* shares its OWN with the disk.
LEMMA TellingKept ==
  ASSUME NEW why, But(why), NEW x, NEW y, disk'.own = disk.own,
         x.own = disk.own <=> y.own = disk.own,
         scripts["set"].at = "sync" <=> scripts'["set"].at = "sync",
         choice \in Choices, pending \in Choices
  PROVE  /\ Told(y)'.net = Told(x).net
         /\ Clean(Told(y)') => Clean(Told(x)) /\ why \cap {"clock", "forget", "race"} = {}
  BY DEF Told, But, Choices, Clean

\* A CONF written by techo5-net or the setup page: with no excuse, it has what
\* OWN says.
LEMMA PutConfFiles ==
  ASSUME UnitTypeOK, FilesInv, NEW nets \in SUBSET Known, NEW at \in Nat, NEW why,
         PutConf(nets, at), But(why), nets # {},
         scripts["set"].at = "sync" <=> scripts'["set"].at = "sync",
         "race" \notin why /\ Clean(Told(disk)) => Told(disk).net \in nets
  PROVE  FilesInv'
  <1>1. /\ disk' \in survivors' /\ survivors' \subseteq Stores /\ disk \in survivors
        /\ disk'.own = disk.own /\ disk'.conf.nets = nets /\ survivors \subseteq Stores
        /\ \A x \in survivors' :
             \/ x \in survivors
             \/ x.own = disk.own /\ (x.conf.nets = {} \/ x.conf.nets = nets)
    <2>1. /\ disk' \in survivors' /\ survivors' \subseteq Stores
          /\ disk'.own = disk.own /\ disk'.conf = [nets |-> nets, at |-> at]
          /\ \A x \in survivors' :
               \/ x \in survivors
               \/ x.own = disk.own /\ (x.conf.nets = {} \/ x.conf.nets = nets)
      BY PutConfStores
    <2> QED
      BY <2>1 DEF UnitTypeOK
  <1>2. choice \in Choices /\ pending \in Choices
    BY DEF UnitTypeOK
  <1>3. ASSUME NEW x \in survivors', NEW y \in survivors, x.own = y.own
        PROVE  /\ Told(x)'.net = Told(y).net
               /\ Clean(Told(x)') => Clean(Told(y)) /\ why \cap {"clock", "forget", "race"} = {}
    BY <1>1, <1>2, <1>3, TellingKept
  <1>4. \A x \in survivors' : \E y \in survivors : x.own = y.own
    BY <1>1
  <1>5. OwnInv'
    <2>1. ASSUME NEW x \in survivors'
          PROVE  Unbuilt(x) = {Told(x)'.net}
      <3>1. PICK y \in survivors : x.own = y.own
        BY <1>4
      <3>2. Unbuilt(x) = Unbuilt(y)
        BY <1>1, <3>1, UnbuiltIsOwn
      <3> QED
        BY <1>3, <3>1, <3>2 DEF FilesInv, OwnInv
    <2> QED
      BY <2>1 DEF OwnInv
  <1>6. ConfInv'
    BY <1>1 DEF ConfInv
  <1>7. KeptInv'
    <2>1. ASSUME NEW x \in survivors', Clean(Told(x)'), UseKept(x)
          PROVE  Told(x)'.net \in x.conf.nets
      <3>1. CASE x \in survivors
        BY <1>3, <2>1, <3>1 DEF FilesInv, KeptInv
      <3>2. CASE x.own = disk.own /\ (x.conf.nets = {} \/ x.conf.nets = nets)
        <4>1. x.conf.nets = nets
          BY <2>1, <3>2 DEF UseKept
        <4> QED
          BY <1>1, <1>3, <2>1, <3>2, <4>1
      <3> QED
        BY <1>1, <3>1, <3>2
    <2> QED
      BY <2>1 DEF KeptInv
  <1> QED
    BY <1>5, <1>6, <1>7 DEF FilesInv

\* Nothing is written, and what was told gets excuses at most.
LEMMA UntouchedFiles ==
  ASSUME UnitTypeOK, FilesInv, NEW why, But(why), UNCHANGED files,
         scripts["set"].at = "sync" <=> scripts'["set"].at = "sync"
  PROVE  FilesInv'
  <1>1. choice \in Choices /\ pending \in Choices /\ UNCHANGED <<disk, survivors>>
    BY DEF UnitTypeOK, files
  <1>2. ASSUME NEW x
        PROVE  Told(x)'.net = Told(x).net /\ (Clean(Told(x)') => Clean(Told(x)))
    BY <1>1, TellingKept
  <1>3. OwnInv'
    BY <1>1, <1>2 DEF FilesInv, OwnInv
  <1>4. ConfInv'
    BY <1>1 DEF FilesInv, ConfInv
  <1>5. KeptInv'
    BY <1>1, <1>2 DEF FilesInv, KeptInv
  <1> QED
    BY <1>3, <1>4, <1>5 DEF FilesInv

\* What was told, left as it is, has no excuse more.
LEMMA NoBut ==
  ASSUME UnitTypeOK, UNCHANGED told
  PROVE  But({})
  BY DEF UnitTypeOK, Choices, told, But

\* wifi-set's rename: what it saves is what OWN says, and used before a CONF
\* unless there is an excuse.
LEMMA SaveFiles == UnitTypeOK /\ ScriptsInv /\ FilesInv /\ Save => FilesInv'
  <1> SUFFICES ASSUME UnitTypeOK, ScriptsInv, FilesInv, Save PROVE FilesInv'
    OBVIOUS
  <1> DEFINE order == scripts["set"].arg
             nets == OwnOf(order)
             at == IF nets = {} THEN 0 ELSE clock
  <1>1. order \in Orders /\ nets \in SUBSET Nets /\ at \in Nat
    BY DEF Save, ScriptsInv, OwnOf, Orders, UnitTypeOK
  <1>2. PutOwn(nets, at) /\ scripts["set"].at = "save" /\ scripts'["set"].at = "sync"
        /\ UNCHANGED <<clock, choice>>
    BY DEF Save, Go, UnitTypeOK, Scripts
  <1>3. /\ disk' \in survivors' /\ disk' \in Stores /\ survivors' \subseteq Stores
        /\ disk'.own = [nets |-> nets, at |-> at] /\ disk'.conf = disk.conf
        /\ \A x \in survivors' : x \in survivors \/ x.own = disk'.own
        /\ \A x \in survivors' : \E s \in survivors : x.conf = s.conf
    BY <1>1, <1>2, PutOwnStores
  <1>4. pending'.net = Wanted(order)
    BY DEF Save
  <1>5. \A x : Told(x)' = IF x.own = disk'.own THEN pending' ELSE choice
    BY <1>2 DEF Told
  <1>6. \A x : Told(x) = choice
    BY <1>2 DEF Told
  <1>7. ASSUME NEW x \in survivors', x.own = disk'.own
        PROVE  Unbuilt(x) = {pending'.net}
    <2>1. Unbuilt(x) = IF nets # {} THEN nets ELSE {FireOs}
      BY <1>3, <1>7, UnbuiltIsOwn
    <2> QED
      BY <1>1, <1>4, <2>1 DEF OwnOf, Wanted, Orders
  <1>8. ASSUME NEW x \in survivors', x.own = disk'.own, Clean(pending')
        PROVE  ~UseKept(x)
    <2>1. PICK s \in survivors : x.conf = s.conf
      BY <1>3
    <2>2. CASE order = "forget"
      <3>1. disk.conf.nets = {}
        BY <1>8, <2>2 DEF Save, Clean
      <3> QED
        BY <2>1, <3>1 DEF FilesInv, ConfInv, UseKept
    <2>3. CASE order # "forget"
      <3>1. nets # {} /\ x.own.nets = nets /\ x.own.at = clock
        BY <1>3, <1>8, <2>3 DEF OwnOf
      <3>2. ~(s.conf.nets # {} /\ s.conf.at > clock)
        BY <1>8, <2>3 DEF Save, Clean
      <3> QED
        BY <2>1, <3>1, <3>2 DEF UseKept
    <2> QED
      BY <2>2, <2>3
  <1>9. OwnInv'
    <2>1. ASSUME NEW x \in survivors'
          PROVE  Unbuilt(x) = {Told(x)'.net}
      <3>1. CASE x.own = disk'.own
        BY <1>5, <1>7, <3>1
      <3>2. CASE x.own # disk'.own
        BY <1>3, <1>5, <1>6, <3>2 DEF FilesInv, OwnInv
      <3> QED
        BY <3>1, <3>2
    <2> QED
      BY <2>1 DEF OwnInv
  <1>10. ConfInv'
    BY <1>3 DEF FilesInv, ConfInv
  <1>11. KeptInv'
    <2>1. ASSUME NEW x \in survivors', Clean(Told(x)'), UseKept(x)
          PROVE  Told(x)'.net \in x.conf.nets
      <3>1. CASE x.own = disk'.own
        BY <1>5, <1>8, <2>1, <3>1
      <3>2. CASE x.own # disk'.own
        BY <1>3, <1>5, <1>6, <2>1, <3>2 DEF FilesInv, KeptInv
      <3> QED
        BY <3>1, <3>2
    <2> QED
      BY <2>1 DEF KeptInv
  <1> QED
    BY <1>9, <1>10, <1>11 DEF FilesInv

\* One store is left, and what its reader was told is what the unit was.
LEMMA OneStoreFiles ==
  ASSUME UnitTypeOK, FilesInv, disk' \in survivors, survivors' = {disk'},
         scripts'["set"].at # "sync", choice' = Told(disk')
  PROVE  FilesInv'
  <1>1. \A x : Told(x)' = Told(disk')
    BY DEF Told
  <1>2. OwnInv'
    BY <1>1 DEF FilesInv, OwnInv
  <1>3. ConfInv'
    BY DEF ConfInv
  <1>4. KeptInv'
    BY <1>1 DEF FilesInv, KeptInv
  <1> QED
    BY <1>2, <1>3, <1>4 DEF FilesInv

\* How far the scripts are after a step of one of them.
LEMMA ScriptGoes ==
  ASSUME UnitTypeOK, NEW p \in Scripts
  PROVE  /\ \A to : Go(p, to) =>
               /\ scripts'[p].at = to /\ scripts'[p].arg = scripts[p].arg
               /\ \A q \in Scripts \ {p} : scripts'[q] = scripts[q]
         /\ \A to : scripts' = [scripts EXCEPT ![p] = to] =>
               /\ scripts'[p] = to
               /\ \A q \in Scripts \ {p} : scripts'[q] = scripts[q]
  BY DEF Go, UnitTypeOK

LEMMA FilesKept == Inv /\ UnitStep => FilesInv'
  <1> SUFFICES ASSUME Inv, UnitStep PROVE FilesInv'
    OBVIOUS
  <1>0. UnitTypeOK /\ ScriptsInv /\ FilesInv /\ BuiltInv
    BY DEF Inv
  <1>a. "set" \in Scripts /\ "boot" \in Scripts /\ \A p \in Scripts : p = "set" \/ p = "boot"
    BY DEF Scripts
  <1>1. ASSUME NEW order \in Orders, WifiSet(order)
        PROVE  FilesInv'
    BY <1>0, <1>1, <1>a, ScriptGoes, NoBut, UntouchedFiles DEF WifiSet
  <1>2. CASE Save
    BY <1>0, <1>2, SaveFiles
  <1>3. CASE Sync
    <2>1. scripts["set"].at = "sync" /\ scripts'["set"].at = "kill"
      <3>1. scripts'["set"] = [at |-> "kill", arg |-> None]
        BY <1>0, <1>3, <1>a, ScriptGoes DEF Sync
      <3> QED
        BY <1>3, <3>1 DEF Sync
    <2>2. survivors' = {disk} /\ disk' = disk /\ disk \in survivors /\ choice' = pending
      BY <1>0, <1>3 DEF Sync, Flushed, UnitTypeOK
    <2> QED
      BY <1>0, <2>1, <2>2, OneStoreFiles DEF Told
  <1>4. CASE Kill
    BY <1>0, <1>4, <1>a, ScriptGoes, NoBut, UntouchedFiles DEF Kill
  <1>5. ASSUME NEW p \in Scripts, Decide(p)
        PROVE  FilesInv'
    <2>1. scripts[p].at = "decide" /\ scripts'[p].at \in {"start", "write"}
          /\ \A q \in Scripts \ {p} : scripts'[q] = scripts[q]
      BY <1>0, <1>5, ScriptGoes DEF Decide
    <2>2. scripts["set"].at = "sync" <=> scripts'["set"].at = "sync"
      BY <1>a, <2>1
    <2> QED
      BY <1>0, <1>5, <2>2, NoBut, UntouchedFiles DEF Decide
  <1>6. ASSUME NEW p \in Scripts, Write(p)
        PROVE  FilesInv'
    <2> DEFINE n == scripts[p].arg
               why == IF Unbuilt(disk) = {n} THEN {} ELSE {"race"}
    <2>1. scripts[p].at = "write" /\ scripts'[p].at = "start"
          /\ \A q \in Scripts \ {p} : scripts'[q] = scripts[q]
      <3>1. /\ scripts'[p] = [at |-> "start", arg |-> None]
            /\ \A q \in Scripts \ {p} : scripts'[q] = scripts[q]
        BY <1>0, <1>6, ScriptGoes DEF Write
      <3> QED
        BY <1>6, <3>1 DEF Write
    <2>2. scripts["set"].at = "sync" <=> scripts'["set"].at = "sync"
      BY <1>a, <2>1
    <2>3. {n} \in SUBSET Known /\ {n} # {} /\ clock' \in Nat
      BY <1>0, <1>6, <2>1 DEF ScriptsInv, Write, UnitTypeOK
    <2>4. PutConf({n}, clock') /\ But(why)
      BY <1>6 DEF Write
    <2>5. "race" \notin why => Told(disk).net \in {n}
      BY <1>0 DEF FilesInv, OwnInv, UnitTypeOK
    <2> QED
      BY <1>0, <2>2, <2>3, <2>4, <2>5, PutConfFiles
  <1>7. ASSUME NEW p \in Scripts, Start(p) \/ Associated(p)
        PROVE  FilesInv'
    <2>1. scripts[p].at # "sync" /\ scripts'[p].at # "sync"
          /\ \A q \in Scripts \ {p} : scripts'[q] = scripts[q]
      BY <1>0, <1>7, ScriptGoes DEF Start, Associated
    <2>2. scripts["set"].at = "sync" <=> scripts'["set"].at = "sync"
      BY <1>a, <2>1
    <2>3. UNCHANGED files /\ \E why : But(why)
      BY <1>0, <1>7, NoBut DEF Start, Associated
    <2> QED
      BY <1>0, <2>2, <2>3, UntouchedFiles
  <1>8. ASSUME NEW p \in Scripts, NoWlan(p) \/ NotAssociated(p) \/ Leased(p)
        PROVE  FilesInv'
    <2>1. scripts[p].at # "sync" /\ scripts' = [scripts EXCEPT ![p] = Off] /\ UNCHANGED <<files, told>>
      BY <1>8 DEF NoWlan, NotAssociated, Leased, End
    <2>2. scripts'[p].at = "off" /\ \A q \in Scripts \ {p} : scripts'[q] = scripts[q]
      <3>1. scripts'[p] = Off /\ \A q \in Scripts \ {p} : scripts'[q] = scripts[q]
        BY <1>0, <2>1, ScriptGoes
      <3> QED
        BY <3>1 DEF Off
    <2>3. scripts["set"].at = "sync" <=> scripts'["set"].at = "sync"
      BY <1>a, <2>1, <2>2
    <2> QED
      BY <1>0, <2>1, <2>3, NoBut, UntouchedFiles
  <1>9. CASE Associate \/ Lease \/ Ntp \/ RescueLoop
    <2>1. UNCHANGED <<files, told, scripts>>
      BY <1>9 DEF Associate, Lease, Ntp, RescueLoop
    <2> QED
      BY <1>0, <2>1, NoBut, UntouchedFiles
  <1>10. CASE SetupPage
    <2> DEFINE why == CASE Unbuilding -> {"race"} [] Joining -> {"meanwhile"} [] OTHER -> {}
    <2>1. PICK n \in Nets \ disk.conf.nets :
            clock' \in {clock, clock + 1} /\ PutConf(disk.conf.nets \cup {n}, clock')
      BY <1>10 DEF SetupPage
    <2> DEFINE nets == disk.conf.nets \cup {n}
    <2>2. nets \in SUBSET Known /\ nets # {} /\ clock' \in Nat
      BY <1>0, <2>1 DEF UnitTypeOK, Stores, Known
    <2>3. But(why) /\ UNCHANGED scripts /\ ~rescue /\ wpa # {}
      BY <1>10 DEF SetupPage
    <2>4. ASSUME "race" \notin why, Clean(Told(disk))
          PROVE  Told(disk).net \in nets
      <3>1. ~Unbuilding
        <4>1. Unbuilding => why = {"race"}
          BY DEF Unbuilding, Joining
        <4> QED
          BY <2>4, <4>1
      <3>2. Told(disk) = choice
        BY <3>1 DEF Told, Unbuilding
      <3> QED
        BY <1>0, <2>3, <2>4, <3>1, <3>2 DEF BuiltInv
    <2> HIDE DEF why, nets
    <2> QED
      BY <1>0, <2>1, <2>2, <2>3, <2>4, PutConfFiles DEF nets
  <1>11. CASE Pull
    <2>1. scripts'["set"].at = "off"
      BY <1>11 DEF Pull, Off
    <2> QED
      BY <1>0, <1>11, <2>1, OneStoreFiles DEF Pull
  <1> QED
    BY <1>1, <1>2, <1>3, <1>4, <1>5, <1>6, <1>7, <1>8, <1>9, <1>10, <1>11
       DEF UnitStep, Scripted, SetStep, JoinStep, World

\* Where each step leaves the script it is of.
LEMMA ScriptSteps ==
  ASSUME UnitTypeOK
  PROVE  /\ \A order \in Orders : WifiSet(order) =>
              scripts["set"].at = "off" /\ scripts'["set"] = [at |-> "save", arg |-> order]
         /\ Save => scripts["set"].at = "save" /\ scripts'["set"].at = "sync"
         /\ Sync => scripts["set"].at = "sync" /\ scripts'["set"].at = "kill"
         /\ Kill => scripts["set"].at = "kill" /\ scripts'["set"].at = "decide"
         /\ ((\E order \in Orders : WifiSet(order)) \/ SetStep) => scripts'["boot"] = scripts["boot"]
         /\ \A p \in Scripts :
              /\ Decide(p) => scripts[p].at = "decide" /\ scripts'[p].at \in {"start", "write"}
              /\ Write(p) => scripts[p].at = "write" /\ scripts'[p].at = "start"
              /\ Start(p) => scripts[p].at = "start" /\ scripts'[p].at = "associate"
              /\ Associated(p) => scripts[p].at = "associate" /\ scripts'[p].at = "lease"
              /\ NoWlan(p) => scripts[p].at = "decide" /\ scripts'[p].at = "off"
              /\ NotAssociated(p) => scripts[p].at = "associate" /\ scripts'[p].at = "off"
              /\ Leased(p) => scripts[p].at = "lease" /\ scripts'[p].at = "off"
              /\ JoinStep(p) => \A q \in Scripts \ {p} : scripts'[q] = scripts[q]
  <1>a. "set" \in Scripts /\ "boot" \in Scripts /\ "boot" # "set"
    BY DEF Scripts
  <1>1. ASSUME NEW order \in Orders, WifiSet(order)
        PROVE  /\ scripts["set"].at = "off" /\ scripts'["set"] = [at |-> "save", arg |-> order]
               /\ scripts'["boot"] = scripts["boot"]
    BY <1>1, <1>a, ScriptGoes DEF WifiSet
  <1>2. Save => /\ scripts["set"].at = "save" /\ scripts'["set"].at = "sync"
                /\ scripts'["boot"] = scripts["boot"]
    BY <1>a, ScriptGoes DEF Save
  <1>3. ASSUME Sync
        PROVE  /\ scripts["set"].at = "sync" /\ scripts'["set"].at = "kill"
               /\ scripts'["boot"] = scripts["boot"]
    <2>1. scripts'["set"] = [at |-> "kill", arg |-> None] /\ scripts'["boot"] = scripts["boot"]
      BY <1>3, <1>a, ScriptGoes DEF Sync
    <2> QED
      BY <1>3, <2>1 DEF Sync
  <1>4. Kill => /\ scripts["set"].at = "kill" /\ scripts'["set"].at = "decide"
                /\ scripts'["boot"] = scripts["boot"]
    BY <1>a, ScriptGoes DEF Kill
  <1>5. ASSUME NEW p \in Scripts, Decide(p)
        PROVE  /\ scripts[p].at = "decide" /\ scripts'[p].at \in {"start", "write"}
               /\ \A q \in Scripts \ {p} : scripts'[q] = scripts[q]
    BY <1>5, ScriptGoes DEF Decide
  <1>6. ASSUME NEW p \in Scripts, Write(p)
        PROVE  /\ scripts[p].at = "write" /\ scripts'[p].at = "start"
               /\ \A q \in Scripts \ {p} : scripts'[q] = scripts[q]
    <2>1. /\ scripts'[p] = [at |-> "start", arg |-> None]
          /\ \A q \in Scripts \ {p} : scripts'[q] = scripts[q]
      BY <1>6, ScriptGoes DEF Write
    <2> QED
      BY <1>6, <2>1 DEF Write
  <1>7. ASSUME NEW p \in Scripts
        PROVE  /\ Start(p) => /\ scripts[p].at = "start" /\ scripts'[p].at = "associate"
                              /\ \A q \in Scripts \ {p} : scripts'[q] = scripts[q]
               /\ Associated(p) => /\ scripts[p].at = "associate" /\ scripts'[p].at = "lease"
                                   /\ \A q \in Scripts \ {p} : scripts'[q] = scripts[q]
    BY ScriptGoes DEF Start, Associated
  <1>8. ASSUME NEW p \in Scripts, NEW has, End(p, has)
        PROVE  scripts'[p].at = "off" /\ \A q \in Scripts \ {p} : scripts'[q] = scripts[q]
    <2>1. scripts'[p] = Off /\ \A q \in Scripts \ {p} : scripts'[q] = scripts[q]
      BY <1>8, ScriptGoes DEF End
    <2> QED
      BY <2>1 DEF Off
  <1>9. ASSUME NEW p \in Scripts
        PROVE  /\ NoWlan(p) => scripts[p].at = "decide" /\ End(p, FALSE)
               /\ NotAssociated(p) => scripts[p].at = "associate" /\ End(p, FALSE)
               /\ Leased(p) => scripts[p].at = "lease" /\ End(p, address # None)
    BY DEF NoWlan, NotAssociated, Leased
  <1> QED
    BY <1>1, <1>2, <1>3, <1>4, <1>5, <1>6, <1>7, <1>8, <1>9 DEF SetStep, JoinStep

LEMMA ScriptsKept == Inv /\ UnitStep => ScriptsInv'
  <1> SUFFICES ASSUME Inv, UnitStep PROVE ScriptsInv'
    OBVIOUS
  <1>0. UnitTypeOK /\ ScriptsInv
    BY DEF Inv
  <1>a. "set" \in Scripts /\ "boot" \in Scripts /\ \A p \in Scripts : p = "set" \/ p = "boot"
    BY DEF Scripts
  <1>1. ASSUME NEW order \in Orders, WifiSet(order)
        PROVE  ScriptsInv'
    <2>1. /\ scripts["set"].at = "off" /\ scripts'["boot"] = scripts["boot"]
          /\ scripts'["set"].at = "save" /\ scripts'["set"].arg = order
      <3>1. /\ scripts["set"].at = "off" /\ scripts'["boot"] = scripts["boot"]
            /\ scripts'["set"] = [at |-> "save", arg |-> order]
        BY <1>0, <1>1, ScriptSteps
      <3> QED
        BY <3>1
    <2>2. (rescue \/ scripts["boot"].at = "off") /\ rescue' = rescue /\ wpa' = wpa
      BY <1>1 DEF WifiSet, net, radio
    <2> QED
      BY <1>0, <1>a, <2>1, <2>2 DEF ScriptsInv
  <1>2. CASE SetStep
    <2>1. /\ scripts'["boot"] = scripts["boot"] /\ scripts["set"].at # "off"
          /\ scripts'["set"].at \in {"sync", "kill", "decide"}
      BY <1>0, <1>2, ScriptSteps DEF SetStep
    <2>2. rescue' = rescue /\ (wpa' = wpa \/ wpa' = {})
      BY <1>2 DEF SetStep, Save, Sync, Kill, net, radio
    <2> QED
      BY <1>0, <1>a, <2>1, <2>2 DEF ScriptsInv
  <1>3. ASSUME NEW p \in Scripts, JoinStep(p)
        PROVE  ScriptsInv'
    <2>1. /\ scripts[p].at \notin {"off", "save"} /\ scripts'[p].at \notin {"save", "decide"}
          /\ \A q \in Scripts \ {p} : scripts'[q] = scripts[q]
      BY <1>0, <1>3, ScriptSteps DEF JoinStep
    <2>2. rescue' = rescue
      BY <1>3 DEF JoinStep, NoWlan, Decide, Write, Start, Associated, NotAssociated, Leased,
                  End, RescueGoesOn, net
    <2>3. wpa' = wpa \/ Start(p)
      BY <1>3 DEF JoinStep, NoWlan, Decide, Write, Start, Associated, NotAssociated, Leased, radio
    <2>4. Start(p) => scripts'[p].at = "associate"
      BY <1>0, ScriptSteps
    <2>5. scripts'[p].at = "write" => Decide(p) /\ scripts'[p].arg \in Known
      <3>1. ASSUME scripts'[p].at = "write"
            PROVE  Decide(p)
        BY <1>0, <1>3, <3>1, ScriptSteps DEF JoinStep
      <3>2. ASSUME Decide(p), scripts'[p].at = "write"
            PROVE  scripts'[p].arg \in Known
        <4>1. ASSUME UseKept(disk)
              PROVE  FALSE
          <5>1. scripts' = [scripts EXCEPT ![p] = [at |-> "start", arg |-> None]]
            BY <3>2, <4>1 DEF Decide
          <5>2. scripts'[p] = [at |-> "start", arg |-> None]
            BY <1>0, <5>1, ScriptGoes
          <5> QED
            BY <3>2, <5>2
        <4>2. PICK n \in Tried(disk) : scripts' = [scripts EXCEPT ![p] = [at |-> "write", arg |-> n]]
          BY <3>2, <4>1 DEF Decide
        <4>3. scripts'[p] = [at |-> "write", arg |-> n]
          BY <1>0, <4>2, ScriptGoes
        <4>4. n \in Known
          BY <1>0 DEF Tried, UnitTypeOK, Stores, Known
        <4> QED
          BY <4>3, <4>4
      <3> QED
        BY <3>1, <3>2
    <2>6. \A q \in Scripts : scripts'[q].at = "write" => scripts'[q].arg \in Known
      BY <1>0, <2>1, <2>5 DEF ScriptsInv
    <2>7. scripts'["set"].at = "save" => scripts'["set"].arg \in Orders
      BY <1>0, <1>a, <2>1 DEF ScriptsInv
    <2>8. ASSUME ~rescue
          PROVE  /\ scripts'["boot"].at = "off" \/ scripts'["set"].at = "off"
                 /\ scripts'["boot"].at \in {"decide", "write"} => wpa' = {}
      <3>1. CASE p = "set"
        <4>1. scripts["boot"].at = "off" /\ scripts'["boot"] = scripts["boot"]
          BY <1>0, <1>a, <2>1, <2>8, <3>1 DEF ScriptsInv
        <4> QED
          BY <4>1
      <3>2. CASE p = "boot"
        <4>1. scripts["set"].at = "off" /\ scripts'["set"] = scripts["set"]
          BY <1>0, <1>a, <2>1, <2>8, <3>2 DEF ScriptsInv
        <4>2. ASSUME scripts'["boot"].at \in {"decide", "write"}
              PROVE  wpa' = {}
          <5>1. Decide(p) /\ scripts[p].at = "decide"
            BY <1>0, <2>1, <2>5, <3>2, <4>2, ScriptSteps
          <5>2. wpa' = wpa
            BY <2>3, <2>4, <3>2, <4>2
          <5> QED
            BY <1>0, <2>8, <3>2, <5>1, <5>2 DEF ScriptsInv
        <4> QED
          BY <4>1, <4>2
      <3> QED
        BY <1>a, <3>1, <3>2
    <2> QED
      BY <2>2, <2>6, <2>7, <2>8 DEF ScriptsInv
  <1>4. CASE Associate \/ Lease \/ Ntp \/ RescueLoop
    BY <1>0, <1>4 DEF ScriptsInv, Associate, Lease, Ntp, RescueLoop, radio, net
  <1>5. CASE SetupPage
    BY <1>0, <1>5 DEF ScriptsInv, SetupPage, net
  <1>6. CASE Pull
    <2>1. /\ scripts'["boot"].at = "decide" /\ scripts'["set"].at = "off" /\ wpa' = {}
      BY <1>6 DEF Pull, Off
    <2> QED
      BY <1>a, <2>1 DEF ScriptsInv
  <1> QED
    BY <1>1, <1>2, <1>3, <1>4, <1>5, <1>6 DEF UnitStep, Scripted, World

Serving == wpa # {} \/ \E p \in Scripts : scripts[p].at \in {"start", "associate", "lease"}

\* Nothing that a supplicant was given, or is to be given, is taken away.
LEMMA BuiltStays ==
  ASSUME Inv, ~rescue => Serving /\ ~Unbuilding,
         disk.conf.nets \subseteq disk'.conf.nets, NEW why, But(why), UNCHANGED rescue
  PROVE  BuiltInv'
  <1>1. choice'.net = choice.net /\ (Clean(choice') => Clean(choice))
    BY DEF Inv, UnitTypeOK, Choices, But, Clean
  <1> QED
    BY <1>1 DEF Inv, BuiltInv, Serving

LEMMA BuiltKept == Inv /\ UnitStep => BuiltInv'
  <1> SUFFICES ASSUME Inv, UnitStep PROVE BuiltInv'
    OBVIOUS
  <1>0. UnitTypeOK /\ ScriptsInv /\ FilesInv /\ BuiltInv /\ disk \in survivors
    BY DEF Inv, UnitTypeOK
  <1>a. "set" \in Scripts /\ "boot" \in Scripts /\ \A p \in Scripts : p = "set" \/ p = "boot"
    BY DEF Scripts
  \* In a slot techo5-net joins only when no order waits to be built.
  <1>b. ASSUME NEW p \in Scripts, ~rescue, scripts[p].at \notin {"off", "save", "sync", "kill"}
        PROVE  /\ p = "boot" => scripts["set"].at = "off"
               /\ p = "set" => scripts["boot"].at = "off"
               /\ Told(disk) = choice
               /\ scripts[p].at \in {"start", "associate", "lease"} => Serving /\ ~Unbuilding
    <2>1. (p = "boot" => scripts["set"].at = "off") /\ (p = "set" => scripts["boot"].at = "off")
      BY <1>0, <1>b DEF ScriptsInv
    <2>2. scripts["set"].at # "sync"
      BY <1>a, <1>b, <2>1
    <2>3. scripts[p].at \in {"start", "associate", "lease"} => ~Unbuilding
      BY <1>a, <2>1 DEF Unbuilding
    <2> QED
      BY <2>1, <2>2, <2>3 DEF Told, Serving
  <1>1. ASSUME NEW order \in Orders, WifiSet(order)
        PROVE  BuiltInv'
    <2>1. /\ scripts["set"].at = "off" /\ scripts'["boot"] = scripts["boot"]
          /\ scripts'["set"] = [at |-> "save", arg |-> order]
      BY <1>0, <1>1, ScriptSteps
    <2>2. scripts'["set"].at = "save"
      BY <2>1
    <2>3. UNCHANGED <<disk, rescue, choice, wpa>>
      BY <1>1 DEF WifiSet, files, net, told, radio
    <2> QED
      BY <1>0, <1>a, <2>1, <2>2, <2>3 DEF BuiltInv, Unbuilding
  <1>2. CASE SetStep
    <2>1. scripts'["set"].at \in {"sync", "kill", "decide"}
      BY <1>0, <1>2, ScriptSteps DEF SetStep
    <2> QED
      BY <2>1 DEF BuiltInv, Unbuilding
  <1>3. ASSUME NEW p \in Scripts, Decide(p)
        PROVE  BuiltInv'
    <2>1. /\ scripts[p].at = "decide" /\ scripts'[p].at \in {"start", "write"}
          /\ \A q \in Scripts \ {p} : scripts'[q] = scripts[q]
      BY <1>0, <1>3, ScriptSteps DEF JoinStep
    <2>2. UNCHANGED <<disk, rescue, choice, wpa>>
      BY <1>3 DEF Decide, files, net, told, radio
    <2>3. CASE UseKept(disk)
      <3>1. ~rescue /\ Clean(choice) => choice.net \in disk.conf.nets
        BY <1>0, <1>b, <2>1, <2>3 DEF FilesInv, KeptInv
      <3> QED
        BY <2>2, <3>1 DEF BuiltInv
    <2>4. CASE ~UseKept(disk)
      <3>1. scripts'[p].at = "write"
        <4>1. PICK n \in Tried(disk) : scripts' = [scripts EXCEPT ![p] = [at |-> "write", arg |-> n]]
          BY <1>3, <2>4 DEF Decide
        <4>2. scripts'[p] = [at |-> "write", arg |-> n]
          BY <1>0, <4>1, ScriptGoes
        <4> QED
          BY <4>2
      <3>2. CASE p = "set"
        BY <3>1, <3>2 DEF BuiltInv, Unbuilding
      <3>3. ASSUME p = "boot", ~rescue
            PROVE  ~Serving'
        <4>1. wpa' = {}
          BY <1>0, <2>1, <2>2, <3>3 DEF ScriptsInv
        <4>2. scripts'["set"].at = "off"
          BY <1>a, <1>b, <2>1, <3>3
        <4> QED
          BY <1>a, <3>1, <3>3, <4>1, <4>2 DEF Serving
      <3> QED
        BY <1>a, <2>2, <3>2, <3>3 DEF BuiltInv, Serving
    <2> QED
      BY <2>3, <2>4
  <1>4. ASSUME NEW p \in Scripts, Write(p)
        PROVE  BuiltInv'
    <2> DEFINE n == scripts[p].arg
    <2>1. scripts[p].at = "write"
      BY <1>4 DEF Write
    <2>2. /\ PutConf({n}, clock') /\ UNCHANGED rescue
          /\ But(IF Unbuilt(disk) = {n} THEN {} ELSE {"race"})
      BY <1>4 DEF Write, net
    <2>3. {n} \in SUBSET Known /\ clock' \in Nat
      BY <1>0, <1>4, <2>1 DEF ScriptsInv, Write, UnitTypeOK
    <2>4. disk'.conf.nets = {n}
      <3>1. disk'.conf = [nets |-> {n}, at |-> clock']
        BY <1>0, <2>2, <2>3, PutConfStores
      <3> QED
        BY <3>1
    <2>5. choice'.net = choice.net /\ (Clean(choice') => Unbuilt(disk) = {n})
      BY <1>0, <2>2 DEF UnitTypeOK, Choices, But, Clean
    <2>6. ~rescue => Unbuilt(disk) = {choice.net}
      BY <1>0, <1>b, <2>1 DEF FilesInv, OwnInv
    <2> QED
      BY <2>2, <2>4, <2>5, <2>6 DEF BuiltInv
  <1>5. ASSUME NEW p \in Scripts, Start(p) \/ Associated(p) \/ NotAssociated(p) \/ Leased(p)
        PROVE  BuiltInv'
    <2>1. scripts[p].at \in {"start", "associate", "lease"}
      BY <1>5 DEF Start, Associated, NotAssociated, Leased
    <2>2. UNCHANGED <<disk, rescue>> /\ \E why : But(why)
      BY <1>0, <1>5, NoBut DEF Start, Associated, NotAssociated, Leased, End, RescueGoesOn, files, net
    <2> QED
      BY <1>b, <2>1, <2>2, BuiltStays
  <1>6. ASSUME NEW p \in Scripts, NoWlan(p)
        PROVE  BuiltInv'
    <2>1. /\ scripts[p].at = "decide" /\ scripts'[p].at = "off" /\ wpa' = {} /\ rescue' = rescue
          /\ \A q \in Scripts \ {p} : scripts'[q] = scripts[q]
      <3>1. /\ scripts[p].at = "decide" /\ scripts'[p].at = "off"
            /\ \A q \in Scripts \ {p} : scripts'[q] = scripts[q]
        BY <1>0, <1>6, ScriptSteps DEF JoinStep
      <3> QED
        BY <1>6, <3>1 DEF NoWlan, radio, End, RescueGoesOn, net
    <2>2. ~rescue => \A q \in Scripts : scripts'[q].at = "off"
      BY <1>a, <1>b, <2>1
    <2> QED
      BY <2>1, <2>2 DEF BuiltInv
  <1>7. CASE Associate \/ Lease \/ Ntp \/ RescueLoop
    BY <1>0, <1>7 DEF BuiltInv, Unbuilding, Associate, Lease, Ntp, RescueLoop, radio, net, files, told
  <1>8. CASE SetupPage
    <2>1. PICK n \in Nets \ disk.conf.nets :
            clock' \in {clock, clock + 1} /\ PutConf(disk.conf.nets \cup {n}, clock')
      BY <1>8 DEF SetupPage
    <2>2. disk.conf.nets \cup {n} \in SUBSET Known /\ clock' \in Nat
      BY <1>0, <2>1 DEF UnitTypeOK, Stores, Known
    <2>3. disk'.conf = [nets |-> disk.conf.nets \cup {n}, at |-> clock']
      BY <1>0, <2>1, <2>2, PutConfStores
    <2>4. disk'.conf.nets = disk.conf.nets \cup {n}
      BY <2>3
    <2>5. /\ wpa # {} /\ UNCHANGED <<rescue, scripts>>
          /\ But(CASE Unbuilding -> {"race"} [] Joining -> {"meanwhile"} [] OTHER -> {})
      BY <1>8 DEF SetupPage, net
    <2>6. CASE Unbuilding
      BY <2>5, <2>6 DEF BuiltInv, Unbuilding
    <2>7. CASE ~Unbuilding
      BY <2>4, <2>5, <2>7, BuiltStays DEF Serving
    <2> QED
      BY <2>6, <2>7
  <1>9. CASE Pull
    <2>1. scripts'["boot"].at = "decide" /\ scripts'["set"].at = "off" /\ wpa' = {}
      BY <1>9 DEF Pull, Off
    <2> QED
      BY <1>a, <2>1 DEF BuiltInv
  <1> QED
    BY <1>1, <1>2, <1>3, <1>4, <1>5, <1>6, <1>7, <1>8, <1>9 DEF UnitStep, Scripted, JoinStep, World

LEMMA WifiSetTypes ==
  ASSUME UnitTypeOK, NEW order \in Orders, WifiSet(order), events' \in 0..MaxEvents
  PROVE  UnitTypeOK'
  <1>1. scripts' \in [Scripts -> ScriptStates]
    <2>1. "save" \in Pcs /\ "set" \in Scripts
      BY DEF Pcs, Scripts
    <2> QED
      BY <2>1, ScriptTypes DEF WifiSet
  <1>2. UNCHANGED <<files, clock, radio, net, told>>
    BY DEF WifiSet
  <1> QED
    BY <1>1, <1>2 DEF UnitTypeOK, ScriptStates, files, radio, net, told

\* The unit's own variables but the events.
quiet == <<files, clock, scripts, radio, net, told>>

LEMMA UnitKept ==
  ASSUME Inv, UnitStep \/ UNCHANGED quiet, events' \in 0..MaxEvents
  PROVE  Inv'
  <1>1. CASE UnitStep
    <2>1. UnitTypeOK'
      BY <1>1, WifiSetTypes, ScriptedTypes, WorldTypes, PullTypes DEF Inv, UnitStep
    <2> QED
      BY <1>1, <2>1, FilesKept, ScriptsKept, BuiltKept DEF Inv
  <1>2. CASE UNCHANGED quiet
    <2>1. UNCHANGED <<files, clock, scripts, radio, net, told>>
      BY <1>2 DEF quiet
    <2>2. UnitTypeOK'
      BY <2>1 DEF Inv, UnitTypeOK, files, radio, net, told
    <2>3. FilesInv'
      <3>1. But({})
        BY <2>1, NoBut DEF Inv
      <3> QED
        BY <2>1, <3>1, UntouchedFiles DEF Inv
    <2>4. ScriptsInv' /\ BuiltInv'
      BY <2>1 DEF Inv, ScriptsInv, BuiltInv, Unbuilding, files, radio, net, told
    <2> QED
      BY <2>2, <2>3, <2>4 DEF Inv
  <1> QED
    BY <1>1, <1>2

LEMMA UnitStarts == UnitInit => Inv
  <1> SUFFICES ASSUME UnitInit PROVE Inv
    OBVIOUS
  <1>1. PICK n \in Known :
          /\ disk = [own |-> [nets |-> {n} \ {FireOs}, at |-> 0], conf |-> Missing]
          /\ choice = [net |-> n, but |-> {}]
    BY DEF UnitInit
  <1>2. /\ survivors = {disk} /\ clock = 0 /\ wpa = {} /\ joined = None /\ dhcp = FALSE
        /\ address = None /\ rescue \in BOOLEAN /\ networkUp = FALSE /\ ssh = FALSE
        /\ pending = choice /\ events = 0
        /\ scripts = [boot |-> [Off EXCEPT !.at = "decide"], set |-> Off]
    BY DEF UnitInit
  <1>3. scripts["boot"] = [at |-> "decide", arg |-> None] /\ scripts["set"] = [at |-> "off", arg |-> None]
    BY <1>2 DEF Off
  <1>4. scripts["boot"].at = "decide" /\ scripts["set"].at = "off"
    BY <1>3
  <1>5. disk \in Stores /\ disk.conf.nets = {}
    BY <1>1 DEF Stores, Missing, Known
  <1>6. scripts \in [Scripts -> ScriptStates]
    BY <1>2, <1>3 DEF Scripts, ScriptStates, Pcs
  <1>7. choice \in Choices
    BY <1>1 DEF Choices
  <1>8. events \in 0..MaxEvents
    BY <1>2, NetsAssumption
  <1>9. UnitTypeOK
    BY <1>2, <1>5, <1>6, <1>7, <1>8 DEF UnitTypeOK, ScriptStates
  <1>10. Unbuilt(disk) = {choice.net}
    BY <1>1, <1>5, UnbuiltIsOwn
  <1>11. FilesInv
    BY <1>2, <1>4, <1>5, <1>10 DEF FilesInv, OwnInv, ConfInv, KeptInv, Told, UseKept
  <1>12. ScriptsInv /\ BuiltInv
    BY <1>2, <1>4 DEF ScriptsInv, BuiltInv, Scripts
  <1> QED
    BY <1>9, <1>11, <1>12 DEF Inv

-----------------------------------------------------------------------------
(* What wifi-set joins is what it was told.                                *)

\* From its kill to its address: the files that are to be used have the order
\* alone, no other supplicant runs, and its own is given it alone.
JoinsAlone ==
  /\ scripts["set"].at \in {"kill", "decide", "write"} /\ UseKept(disk) =>
       disk.conf.nets = {choice.net}
  /\ scripts["set"].at \in {"decide", "write", "start"} =>
       wpa = {} /\ joined = None /\ address = None
  /\ scripts["set"].at = "start" => disk.conf.nets = {choice.net}
  /\ scripts["set"].at \in {"associate", "lease"} =>
       /\ wpa = {choice.net}
       /\ {joined, address} \subseteq {None, choice.net}

\* Unless another came between.
JoinedInv ==
  /\ scripts["set"].at = "sync" /\ pending.but = {} /\ UseKept(disk) =>
       disk.conf.nets = {pending.net}
  /\ choice.but = {} => JoinsAlone

\* An excuse more leaves what was told, and there was none if there is none.
LEMMA ButAdds ==
  ASSUME UnitTypeOK, NEW why, But(why)
  PROVE  /\ choice'.net = choice.net /\ choice'.but = choice.but \cup why
         /\ pending'.net = pending.net /\ pending'.but = pending.but \cup why
  BY DEF UnitTypeOK, Choices, But

LEMMA JoinedKept == Inv /\ JoinedInv /\ UnitStep => JoinedInv'
  <1> SUFFICES ASSUME Inv, JoinedInv, UnitStep PROVE JoinedInv'
    OBVIOUS
  <1>0. UnitTypeOK /\ ScriptsInv /\ FilesInv /\ disk \in survivors
    BY DEF Inv, UnitTypeOK
  <1>a. "set" \in Scripts /\ "boot" \in Scripts /\ \A p \in Scripts : p = "set" \/ p = "boot"
    BY DEF Scripts
  <1>b. ASSUME scripts'["set"].at \in {"off", "save"}
        PROVE  JoinedInv'
    BY <1>b DEF JoinedInv, JoinsAlone
  <1>1. ASSUME NEW order \in Orders, WifiSet(order)
        PROVE  JoinedInv'
    <2>1. scripts'["set"] = [at |-> "save", arg |-> order]
      BY <1>0, <1>1, ScriptSteps
    <2>2. scripts'["set"].at = "save"
      BY <2>1
    <2> QED
      BY <1>b, <2>2
  <1>2. CASE Save
    <2> DEFINE order == scripts["set"].arg
               nets == OwnOf(order)
               at == IF nets = {} THEN 0 ELSE clock
    <2>1. scripts'["set"].at = "sync" /\ choice' = choice /\ scripts["set"].at = "save"
      BY <1>0, <1>2, ScriptSteps DEF Save
    <2>2. order \in Orders /\ nets \in SUBSET Nets /\ at \in Nat /\ PutOwn(nets, at)
      BY <1>0, <1>2 DEF Save, ScriptsInv, OwnOf, Orders, UnitTypeOK
    <2>3. disk'.own = [nets |-> nets, at |-> at] /\ disk'.conf = disk.conf
      BY <1>0, <2>2, PutOwnStores
    <2>4. ASSUME pending'.but = {}
          PROVE  ~UseKept(disk')
      <3>1. CASE order = "forget"
        BY <1>2, <2>3, <2>4, <3>1 DEF Save, UseKept
      <3>2. CASE order # "forget"
        <4>1. nets # {} /\ disk'.own.nets = nets /\ disk'.own.at = clock
          BY <2>3, <3>2 DEF OwnOf
        <4>2. ~(disk.conf.nets # {} /\ disk.conf.at > clock)
          BY <1>0, <1>2, <2>4, <3>2 DEF Save
        <4> QED
          BY <2>3, <4>1, <4>2 DEF UseKept
      <3> QED
        BY <3>1, <3>2
    <2> QED
      BY <2>1, <2>4 DEF JoinedInv, JoinsAlone
  <1>3. CASE Sync
    <2>1. /\ scripts["set"].at = "sync" /\ scripts'["set"].at = "kill"
          /\ choice' = pending /\ disk' = disk
      BY <1>0, <1>3, ScriptSteps DEF Sync
    <2> QED
      BY <2>1 DEF JoinedInv, JoinsAlone, UseKept
  <1>4. CASE Kill
    <2>1. /\ scripts["set"].at = "kill" /\ scripts'["set"].at = "decide"
          /\ wpa' = {} /\ joined' = None /\ address' = None
          /\ disk' = disk /\ choice' = choice
      BY <1>0, <1>4, ScriptSteps DEF Kill, files, told
    <2> QED
      BY <2>1 DEF JoinedInv, JoinsAlone, UseKept
  <1>5. ASSUME NEW p \in Scripts, Decide(p)
        PROVE  JoinedInv'
    <2>1. UNCHANGED <<disk, wpa, joined, address, choice, pending>>
      BY <1>5 DEF Decide, files, radio, told
    <2>2. CASE p = "boot"
      <3>1. scripts'["set"] = scripts["set"]
        BY <1>0, <1>5, <1>a, <2>2, ScriptSteps DEF JoinStep, Scripts
      <3> QED
        BY <2>1, <3>1 DEF JoinedInv, JoinsAlone, UseKept
    <2>3. CASE p = "set"
      <3>1. scripts["set"].at = "decide" /\ scripts'["set"].at \in {"start", "write"}
        BY <1>0, <1>5, <1>a, <2>3, ScriptSteps
      <3>2. ~UseKept(disk) => scripts'["set"].at = "write"
        <4>1. ASSUME ~UseKept(disk)
              PROVE  scripts'["set"].at = "write"
          <5>1. PICK n \in Tried(disk) : scripts' = [scripts EXCEPT ![p] = [at |-> "write", arg |-> n]]
            BY <1>5, <4>1 DEF Decide
          <5>2. scripts'["set"] = [at |-> "write", arg |-> n]
            BY <1>0, <1>a, <2>3, <5>1, ScriptGoes
          <5> QED
            BY <5>2
        <4> QED
          BY <4>1
      <3> QED
        BY <2>1, <3>1, <3>2 DEF JoinedInv, JoinsAlone, UseKept
    <2> QED
      BY <1>a, <2>2, <2>3
  <1>6. ASSUME NEW p \in Scripts, Write(p)
        PROVE  JoinedInv'
    <2> DEFINE n == scripts[p].arg
               why == IF Unbuilt(disk) = {n} THEN {} ELSE {"race"}
    <2>1. scripts[p].at = "write" /\ PutConf({n}, clock') /\ But(why)
          /\ UNCHANGED <<wpa, joined, address>>
      BY <1>6 DEF Write, radio
    <2>2. {n} \in SUBSET Known /\ clock' \in Nat
      BY <1>0, <1>6, <2>1 DEF ScriptsInv, Write, UnitTypeOK
    <2>3. disk'.conf.nets = {n}
      <3>1. disk'.conf = [nets |-> {n}, at |-> clock']
        BY <1>0, <2>1, <2>2, PutConfStores
      <3> QED
        BY <3>1
    <2>4. /\ choice'.net = choice.net /\ choice'.but = choice.but \cup why
          /\ pending'.net = pending.net /\ pending'.but = pending.but \cup why
      BY <1>0, <2>1, ButAdds
    <2>5. why = {} => n = Told(disk).net
      <3>1. Unbuilt(disk) = {Told(disk).net}
        BY <1>0 DEF FilesInv, OwnInv
      <3> QED
        BY <3>1
    <2>6. /\ p = "set" => scripts["set"].at = "write" /\ scripts'["set"].at = "start"
          /\ p = "boot" => scripts'["set"] = scripts["set"]
      BY <1>0, <1>6, <1>a, <2>1, ScriptSteps DEF JoinStep, Scripts
    <2> HIDE DEF why, n
    <2>7. ASSUME scripts'["set"].at = "sync", pending'.but = {}
          PROVE  disk'.conf.nets = {pending'.net}
      <3>1. scripts["set"].at = "sync" /\ why = {}
        BY <1>a, <2>4, <2>6, <2>7
      <3> QED
        BY <2>3, <2>4, <2>5, <3>1 DEF Told
    <2>8. ASSUME choice'.but = {}
          PROVE  JoinsAlone'
      <3>1. choice.but = {} /\ why = {}
        BY <2>4, <2>8
      <3>2. scripts'["set"].at \notin {"off", "save", "sync"} => disk'.conf.nets = {choice'.net}
        BY <1>a, <2>3, <2>4, <2>5, <2>6, <3>1 DEF Told
      <3> QED
        BY <1>a, <2>1, <2>4, <2>6, <3>1, <3>2 DEF JoinedInv, JoinsAlone
    <2> QED
      BY <2>7, <2>8 DEF JoinedInv
  <1>7. ASSUME NEW p \in Scripts, Start(p)
        PROVE  JoinedInv'
    <2> DEFINE why == IF p = "boot" /\ wpa = {} /\ scripts["set"].at \in {"decide", "write", "start"}
                      THEN {"meanwhile"} ELSE {}
    <2>1. /\ wpa' = IF wpa = {} THEN disk.conf.nets ELSE wpa
          /\ But(why)
          /\ UNCHANGED <<disk, joined, address>>
      BY <1>7 DEF Start, files
    <2>2. /\ choice'.net = choice.net /\ choice'.but = choice.but \cup why
          /\ pending'.net = pending.net /\ pending'.but = pending.but \cup why
      BY <1>0, <2>1, ButAdds
    <2>3. /\ p = "set" => scripts["set"].at = "start" /\ scripts'["set"].at = "associate"
          /\ p = "boot" => scripts'["set"] = scripts["set"]
      BY <1>0, <1>7, <1>a, ScriptSteps DEF JoinStep, Scripts
    <2>4. p = "boot" /\ why = {} => wpa # {} \/ scripts["set"].at \notin {"decide", "write", "start"}
      OBVIOUS
    <2> HIDE DEF why
    <2>5. ASSUME scripts'["set"].at = "sync", pending'.but = {}, UseKept(disk)'
          PROVE  disk'.conf.nets = {pending'.net}
      BY <1>a, <2>1, <2>2, <2>3, <2>5 DEF JoinedInv, UseKept
    <2>6. ASSUME choice'.but = {}
          PROVE  JoinsAlone'
      <3>1. JoinsAlone /\ why = {}
        BY <2>2, <2>6 DEF JoinedInv
      <3>2. CASE p = "set"
        BY <2>1, <2>2, <2>3, <3>1, <3>2 DEF JoinsAlone
      <3>3. CASE p = "boot"
        BY <2>1, <2>2, <2>3, <2>4, <3>1, <3>3 DEF JoinsAlone, UseKept
      <3> QED
        BY <1>a, <3>2, <3>3
    <2> QED
      BY <2>5, <2>6 DEF JoinedInv
  <1>8. ASSUME NEW p \in Scripts, Associated(p) \/ NotAssociated(p) \/ Leased(p) \/ NoWlan(p)
        PROVE  JoinedInv'
    <2>1. UNCHANGED <<disk, wpa, joined, address, choice, pending>>
      BY <1>8 DEF Associated, NotAssociated, Leased, NoWlan, files, radio, told
    <2>2. \/ scripts'["set"] = scripts["set"]
          \/ scripts["set"].at = "associate" /\ scripts'["set"].at = "lease"
          \/ scripts'["set"].at = "off"
      BY <1>0, <1>8, <1>a, ScriptSteps DEF JoinStep, Scripts
    <2> QED
      BY <1>b, <2>1, <2>2 DEF JoinedInv, JoinsAlone, UseKept
  <1>9. CASE Associate \/ Lease
    <2>1. /\ UNCHANGED <<disk, scripts, wpa, choice, pending>>
          /\ wpa # {}  \/ joined # None
          /\ joined' \in wpa \cup {joined} /\ address' \in {joined, address}
      BY <1>9 DEF Associate, Lease, files, told
    <2> QED
      BY <2>1 DEF JoinedInv, JoinsAlone, UseKept
  <1>10. CASE Ntp \/ RescueLoop
    BY <1>10 DEF Ntp, RescueLoop, files, radio, told, JoinedInv, JoinsAlone, UseKept
  <1>11. CASE SetupPage
    <2> DEFINE why == CASE Unbuilding -> {"race"} [] Joining -> {"meanwhile"} [] OTHER -> {}
    <2>1. But(why) /\ scripts' = scripts
      BY <1>11 DEF SetupPage
    <2>2. choice'.but = choice.but \cup why /\ pending'.but = pending.but \cup why
      BY <1>0, <2>1, ButAdds
    <2>3. scripts["set"].at \in {"sync", "kill", "decide", "write", "start", "associate", "lease"}
            => why # {}
      BY DEF Unbuilding, Joining
    <2> HIDE DEF why
    <2> QED
      BY <2>1, <2>2, <2>3 DEF JoinedInv, JoinsAlone
  <1>12. CASE Pull
    <2>1. scripts'["set"].at = "off"
      BY <1>12 DEF Pull, Off
    <2> QED
      BY <1>b, <2>1
  <1> QED
    BY <1>1, <1>2, <1>3, <1>4, <1>5, <1>6, <1>7, <1>8, <1>9, <1>10, <1>11, <1>12
       DEF UnitStep, Scripted, SetStep, JoinStep, World

-----------------------------------------------------------------------------
(* The unit with somebody at its shell, and over its console.              *)

\* The lines of the terminal and the one its shell runs: no two commands have
\* the same tag, so that the one set-wifi.py reads for is its own.
TypedInv ==
  \E S \in SUBSET Lines :
    /\ typed \in Seq(S)
    /\ busy \in S \cup {NoLine}
    /\ \A line \in S :
         /\ line.tag <= events
         /\ pc.at = "reading" /\ line.tag = pc.tag => line.order = pc.order

\* What wifi-set does is what the line its shell runs said.
OrderInv ==
  /\ busy = NoLine <=> scripts["set"].at = "off"
  /\ scripts["set"].at = "save" => scripts["set"].arg = busy.order
  /\ scripts["set"].at = "sync" => pending.net = Wanted(busy.order)
  /\ scripts["set"].at \notin {"off", "save", "sync"} => choice.net = Wanted(busy.order)

ComputerInv ==
  /\ usb \in [Ports -> Units \cup {None}]
  /\ pc \in [at : {"off", "found", "reading"}, port : Ports \cup {None},
             tag : Tags \cup {0}, order : Orders \cup {None}]
  /\ joinedSaid \in BOOLEAN

ConsoleInv == Inv /\ JoinedInv /\ TypedInv /\ OrderInv /\ ComputerInv

LEMMA LinesAreTyped ==
  ASSUME TypedInv
  PROVE  /\ typed \in Seq(Lines) /\ busy \in Lines \cup {NoLine}
         /\ typed # <<>> => Head(typed) \in Lines
  <1>1. PICK S \in SUBSET Lines : typed \in Seq(S) /\ busy \in S \cup {NoLine}
    BY DEF TypedInv
  <1>2. typed \in Seq(Lines)
    <2>1. \A line \in S : line \in Lines
      OBVIOUS
    <2> QED
      BY <1>1, <2>1, SeqMonotonic
  <1>3. typed # <<>> => Head(typed) \in Lines
    BY <1>2, HeadTailProperties
  <1> QED
    BY <1>1, <1>2, <1>3

\* No line comes to the terminal, and set-wifi.py begins to read for none.
LEMMA TypedStays ==
  ASSUME TypedInv, events \in Nat, events' \in {events, events + 1},
         pc' = pc \/ pc'.at # "reading",
         \/ typed' \in {typed, <<>>} /\ busy' \in {busy, NoLine}
         \/ typed # <<>> /\ typed' = Tail(typed) /\ busy' = Head(typed)
  PROVE  TypedInv'
  <1>1. PICK S \in SUBSET Lines :
          /\ typed \in Seq(S)
          /\ busy \in S \cup {NoLine}
          /\ \A line \in S :
               /\ line.tag <= events
               /\ pc.at = "reading" /\ line.tag = pc.tag => line.order = pc.order
    BY DEF TypedInv
  <1>2. typed' \in Seq(S) /\ busy' \in S \cup {NoLine}
    <2>1. <<>> \in Seq(S)
      BY EmptySeq
    <2>2. typed # <<>> => Head(typed) \in S /\ Tail(typed) \in Seq(S)
      BY <1>1, HeadTailProperties
    <2> QED
      BY <1>1, <2>1, <2>2
  <1>3. \A line \in S :
          /\ line.tag <= events'
          /\ pc'.at = "reading" /\ line.tag = pc'.tag => line.order = pc'.order
    <2>1. \A line \in S : line.tag \in Nat
      <3>1. \A line \in Lines : line.tag \in Nat
        BY DEF Lines, Tags
      <3> QED
        BY <3>1
    <2> QED
      BY <1>1, <2>1
  <1> QED
    BY <1>2, <1>3 DEF TypedInv, Lines, NoLine, Tags, Orders

\* A command more, with a tag of its own.
LEMMA TypedAppend ==
  ASSUME TypedInv, events \in 0..MaxEvents, MaxEvents \in Nat, Happens, NEW order \in Orders,
         typed' = Append(typed, [tag |-> FreshTag, order |-> order]),
         busy' = busy, pc'.tag = FreshTag, pc'.order = order
  PROVE  TypedInv'
  <1> DEFINE new == [tag |-> FreshTag, order |-> order]
  <1>1. PICK S \in SUBSET Lines :
          /\ typed \in Seq(S)
          /\ busy \in S \cup {NoLine}
          /\ \A line \in S : line.tag <= events
    BY DEF TypedInv
  <1> DEFINE T == S \cup {new}
  <1>2. events' = events + 1 /\ FreshTag = events + 1 /\ FreshTag \in Tags
    BY DEF Happens, FreshTag, Tags
  <1>3. new.tag = FreshTag /\ new.order = order /\ new \in Lines
    BY <1>2 DEF Lines
  <1>4. T \in SUBSET Lines /\ new \in T
    BY <1>3
  <1>5. typed \in Seq(T)
    <2>1. \A line \in S : line \in T
      OBVIOUS
    <2> QED
      BY <1>1, <2>1, SeqMonotonic
  <1>6. \A line \in S : line.tag \in Nat
    <2>1. \A line \in Lines : line.tag \in Nat
      BY DEF Lines, Tags
    <2> QED
      BY <2>1
  <1>7. \A line \in T :
          /\ line.tag <= events'
          /\ line.tag = pc'.tag => line.order = pc'.order
    <2>1. \A line \in S : line.tag <= events' /\ line.tag # pc'.tag
      BY <1>1, <1>2, <1>6
    <2>2. new.tag <= events' /\ new.order = pc'.order
      BY <1>2, <1>3
    <2> QED
      BY <2>1, <2>2
  <1> HIDE DEF T, new
  <1>8. typed' = Append(typed, new)
    BY DEF new
  <1>9. typed' \in Seq(T)
    BY <1>4, <1>5, <1>8, AppendProperties
  <1>10. busy' \in T \cup {NoLine}
    BY <1>1 DEF T
  <1> QED
    BY <1>4, <1>7, <1>9, <1>10 DEF TypedInv, Lines, NoLine, Tags, Orders

-----------------------------------------------------------------------------
(* The theorems.                                                           *)

LEMMA UnitNextKept ==
  ASSUME Inv, UnitNext \/ UNCHANGED unit
  PROVE  Inv'
  <1>0. MaxEvents \in Nat /\ events \in 0..MaxEvents
    BY NetsAssumption DEF Inv, UnitTypeOK
  <1>1. events' = events \/ Happens
    <2>1. CASE SetStep
      BY <2>1 DEF SetStep, Save, Sync, Kill
    <2>2. ASSUME NEW p \in Scripts, JoinStep(p)
          PROVE  events' = events
      BY <2>2 DEF JoinStep, NoWlan, Decide, Write, Start, Associated, NotAssociated, Leased
    <2>3. CASE World
      BY <2>3 DEF World, Associate, Lease, Ntp, SetupPage, RescueLoop
    <2>4. CASE Pull
      BY <2>4 DEF Pull
    <2>5. CASE UNCHANGED unit
      BY <2>5 DEF unit
    <2> QED
      BY <2>1, <2>2, <2>3, <2>4, <2>5 DEF UnitNext
  <1>2. events' \in 0..MaxEvents
    BY <1>0, <1>1 DEF Happens
  <1>3. UnitStep \/ UNCHANGED quiet
    BY DEF UnitNext, UnitStep, Scripted, unit, quiet, files, radio, net, told
  <1> QED
    BY <1>2, <1>3, UnitKept

\* On a unit by itself, with any number of networks, people at its shell and
\* power cuts: whatever the power leaves of the two files, techo5-net tries
\* the network that wifi-set was told last.
THEOREM UnitKeepsChoice == UnitSpec => []ChoiceKept
  <1>1. UnitInit => Inv
    BY UnitStarts
  <1>2. Inv /\ [UnitNext]_unit => Inv'
    BY UnitNextKept
  <1>3. Inv => ChoiceKept
    BY InvKeepsChoice
  <1> QED
    BY <1>1, <1>2, <1>3, PTL DEF UnitSpec

LEMMA OrderStays ==
  ASSUME OrderInv, choice'.net = choice.net, pending'.net = pending.net,
         \/ scripts'["set"] = scripts["set"] /\ busy' = busy
         \/ /\ {scripts["set"].at, scripts'["set"].at} \cap {"off", "save", "sync"} = {}
            /\ busy' = busy
         \/ scripts'["set"].at = "off" /\ busy' = NoLine
  PROVE  OrderInv'
  BY DEF OrderInv, NoLine, Wanted

\* While wifi-set runs, it does what its line said; when it ends, the shell is
\* free.
LEMMA OrderKept ==
  ASSUME Inv, OrderInv, SetStep \/ (\E p \in Scripts : JoinStep(p)) \/ World,
         busy' = IF scripts["set"].at # "off" /\ scripts'["set"].at = "off" THEN NoLine ELSE busy
  PROVE  OrderInv'
  <1>0. UnitTypeOK /\ "set" \in Scripts /\ "boot" \in Scripts
    BY DEF Inv, Scripts
  <1>1. CASE Save
    <2>1. /\ scripts["set"].at = "save" /\ scripts'["set"].at = "sync"
          /\ pending'.net = Wanted(scripts["set"].arg)
      BY <1>0, <1>1, ScriptSteps DEF Save
    <2> QED
      BY <2>1 DEF OrderInv
  <1>2. CASE Sync
    <2>1. scripts["set"].at = "sync" /\ scripts'["set"].at = "kill" /\ choice' = pending
      BY <1>0, <1>2, ScriptSteps DEF Sync
    <2> QED
      BY <2>1 DEF OrderInv
  <1>3. CASE Kill
    <2>1. scripts["set"].at = "kill" /\ scripts'["set"].at = "decide" /\ UNCHANGED <<choice, pending>>
      BY <1>0, <1>3, ScriptSteps DEF Kill, told
    <2> QED
      BY <2>1, OrderStays
  <1>4. ASSUME NEW p \in Scripts, JoinStep(p)
        PROVE  OrderInv'
    <2>1. choice'.net = choice.net /\ pending'.net = pending.net
      <3>1. \E why : But(why)
        BY <1>0, <1>4, NoBut
           DEF JoinStep, NoWlan, Decide, Write, Start, Associated, NotAssociated, Leased
      <3> QED
        BY <1>0, <3>1, ButAdds
    <2>2. CASE p = "boot"
      <3>1. scripts'["set"] = scripts["set"]
        BY <1>0, <1>4, <2>2, ScriptSteps DEF Scripts
      <3>2. busy' = busy
        BY <3>1
      <3> QED
        BY <2>1, <3>1, <3>2, OrderStays
    <2>3. CASE p = "set"
      <3>1. /\ scripts["set"].at \in {"decide", "write", "start", "associate", "lease"}
            /\ scripts'["set"].at \in {"write", "start", "associate", "lease", "off"}
        BY <1>0, <1>4, <2>3, ScriptSteps DEF JoinStep
      <3>2. IF scripts'["set"].at = "off" THEN busy' = NoLine ELSE busy' = busy
        BY <3>1
      <3> QED
        BY <2>1, <3>1, <3>2, OrderStays
    <2> QED
      BY <2>2, <2>3 DEF Scripts
  <1>5. CASE World
    <2>1. scripts' = scripts
      BY <1>5 DEF World, Associate, Lease, Ntp, SetupPage, RescueLoop
    <2>2. \E why : But(why)
      BY <1>0, <1>5, NoBut DEF World, Associate, Lease, Ntp, SetupPage, RescueLoop
    <2>3. busy' = busy
      BY <2>1
    <2> QED
      BY <1>0, <2>1, <2>2, <2>3, ButAdds, OrderStays
  <1> QED
    BY <1>1, <1>2, <1>3, <1>4, <1>5 DEF SetStep

\* What a step of the unit leaves of the unit's part of the invariant.
LEMMA UnitPartKept ==
  ASSUME ConsoleInv, UnitStep \/ UNCHANGED quiet, events' \in 0..MaxEvents
  PROVE  Inv' /\ JoinedInv'
  <1>1. Inv'
    BY UnitKept DEF ConsoleInv
  <1>2. CASE UnitStep
    BY <1>1, <1>2, JoinedKept DEF ConsoleInv
  <1>3. CASE UNCHANGED quiet
    BY <1>1, <1>3 DEF ConsoleInv, JoinedInv, JoinsAlone, UseKept, quiet, files, radio, told
  <1> QED
    BY <1>1, <1>2, <1>3

\* set-wifi.py's end, and what it finds.
LEMMA ComputerEnds ==
  ASSUME ComputerInv, usb' \in [Ports -> Units \cup {None}],
         \/ UNCHANGED <<pc, joinedSaid>>
         \/ \E has \in BOOLEAN : Ends(has)
  PROVE  ComputerInv'
  <1>1. Idle \in [at : {"off", "found", "reading"}, port : Ports \cup {None},
                  tag : Tags \cup {0}, order : Orders \cup {None}]
    BY DEF Idle
  <1> QED
    BY <1>1 DEF ComputerInv, Ends, Tags, Orders

LEMMA ConsoleKept ==
  ASSUME ConsoleInv, Next \/ UNCHANGED vars
  PROVE  ConsoleInv'
  <1>0. /\ MaxEvents \in Nat /\ events \in 0..MaxEvents /\ events \in Nat
        /\ Inv /\ JoinedInv /\ TypedInv /\ OrderInv /\ ComputerInv
    BY NetsAssumption DEF ConsoleInv, Inv, UnitTypeOK
  <1>a. OffUsb("dot") \/ OffUsb("other") => usb' \in [Ports -> Units \cup {None}]
    BY <1>0 DEF OffUsb, ComputerInv
  <1>1. ASSUME NEW order \in Orders, Send(order)
        PROVE  ConsoleInv'
    <2>1. UNCHANGED <<quiet, usb, busy>> /\ pc.at = "found" /\ Happens
      BY <1>1 DEF Send, quiet
    <2>2. events' \in 0..MaxEvents /\ events' = events + 1 /\ FreshTag \in Tags
      BY <1>0, <2>1 DEF Happens, FreshTag, Tags
    <2>3. Inv' /\ JoinedInv'
      BY <2>1, <2>2, UnitPartKept
    <2>4. OrderInv'
      BY <1>0, <2>1 DEF OrderInv, quiet, told
    <2>5. CASE usb[pc.port] = "dot"
      <3>1. /\ pc' = [pc EXCEPT !.at = "reading", !.tag = FreshTag, !.order = order]
            /\ typed' = Append(typed, [tag |-> FreshTag, order |-> order])
            /\ UNCHANGED joinedSaid
        BY <1>1, <2>5 DEF Send
      <3>2. pc'.tag = FreshTag /\ pc'.order = order
        BY <1>0, <3>1 DEF ComputerInv
      <3>3. TypedInv'
        BY <1>0, <2>1, <3>1, <3>2, TypedAppend
      <3>4. ComputerInv'
        BY <1>0, <2>1, <2>2, <3>1 DEF ComputerInv, Tags, Orders
      <3> QED
        BY <2>3, <2>4, <3>3, <3>4 DEF ConsoleInv
    <2>6. CASE usb[pc.port] # "dot"
      <3>1. Ends(FALSE) /\ typed' = typed
        <4>1. CASE usb[pc.port] = "other"
          BY <1>1, <2>6, <4>1 DEF Send, Runs, ComputerInv, ConsoleInv
        <4>2. CASE usb[pc.port] # "other"
          BY <1>1, <2>6, <4>2 DEF Send
        <4> QED
          BY <4>1, <4>2
      <3>2. pc'.at # "reading"
        BY <3>1 DEF Ends, Idle
      <3>3. TypedInv'
        BY <1>0, <2>1, <2>2, <3>1, <3>2, TypedStays
      <3>4. ComputerInv'
        <4>1. usb' \in [Ports -> Units \cup {None}]
          BY <1>0, <2>1 DEF ComputerInv
        <4> QED
          BY <1>0, <3>1, <4>1, ComputerEnds
      <3> QED
        BY <2>3, <2>4, <3>3, <3>4 DEF ConsoleInv
    <2> QED
      BY <2>5, <2>6
  <1>2. CASE Find \/ Deadline \/ Plugged \/ UNCHANGED vars
    <2>1. UNCHANGED <<quiet, events, typed, busy>>
      <3>1. Plugged => UNCHANGED <<unit, typed, busy>>
        BY ZenonT(20) DEF Plugged
      <3> QED
        BY <1>2, <3>1 DEF Find, Deadline, vars, console, unit, quiet, files, radio, net, told
    <2>2. pc' = pc \/ pc'.at # "reading"
      <3>1. Find => pc'.at # "reading"
        BY DEF Find, Idle
      <3>2. Deadline => pc'.at # "reading"
        BY DEF Deadline, Ends, Idle
      <3>3. Plugged => pc' = pc
        BY ZenonT(20) DEF Plugged
      <3> QED
        BY <1>2, <3>1, <3>2, <3>3 DEF vars, console
    <2>3. Inv' /\ JoinedInv'
      BY <1>0, <2>1, UnitPartKept
    <2>4. TypedInv'
      BY <1>0, <2>1, <2>2, TypedStays
    <2>5. OrderInv'
      BY <1>0, <2>1 DEF OrderInv, quiet, told
    <2>6. ComputerInv'
      <3>1. CASE Find
        <4>1. PICK p \in Ports : pc' = [Idle EXCEPT !.at = "found", !.port = p]
          BY <3>1 DEF Find
        <4>2. pc' = [at |-> "found", port |-> p, tag |-> 0, order |-> None]
          BY <4>1 DEF Idle
        <4>3. UNCHANGED usb /\ joinedSaid' = FALSE
          BY <3>1 DEF Find
        <4> QED
          BY <1>0, <4>2, <4>3 DEF ComputerInv, Tags, Orders
      <3>2. CASE Deadline
        <4>1. Ends(FALSE) /\ UNCHANGED usb
          BY <3>2 DEF Deadline
        <4> QED
          BY <1>0, <4>1, ComputerEnds DEF ComputerInv
      <3>3. CASE Plugged
        <4>1. UNCHANGED <<pc, joinedSaid>>
          BY <3>3, ZenonT(20) DEF Plugged
        <4>2. usb' \in [Ports -> Units \cup {None}]
          <5>1. \/ \E u \in Units, p \in Ports : usb' = [usb EXCEPT ![p] = u]
                \/ OffUsb("other")
            BY <3>3, ZenonT(20) DEF Plugged
          <5> QED
            BY <1>0, <1>a, <5>1 DEF ComputerInv
        <4> QED
          BY <1>0, <4>1, <4>2, ComputerEnds
      <3>4. CASE UNCHANGED vars
        BY <1>0, <3>4 DEF vars, console, ComputerInv
      <3> QED
        BY <1>2, <3>1, <3>2, <3>3, <3>4
    <2> QED
      BY <2>3, <2>4, <2>5, <2>6 DEF ConsoleInv
  <1>3. CASE Shell
    <2>1. /\ typed # <<>> /\ WifiSet(Head(typed).order) /\ busy' = Head(typed)
          /\ typed' = Tail(typed) /\ UNCHANGED <<events, usb, pc, joinedSaid>>
      BY <1>3 DEF Shell
    <2>2. Head(typed).order \in Orders /\ Head(typed) # NoLine
      BY <1>0, <2>1, LinesAreTyped DEF Lines, NoLine, Tags
    <2>3. UnitStep
      BY <2>1, <2>2 DEF UnitStep
    <2>4. Inv' /\ JoinedInv'
      BY <1>0, <2>1, <2>3, UnitPartKept
    <2>5. TypedInv'
      BY <1>0, <2>1, TypedStays
    <2>6. OrderInv'
      <3>1. scripts'["set"] = [at |-> "save", arg |-> Head(typed).order]
        BY <1>0, <2>1, <2>2, ScriptSteps DEF Inv
      <3> QED
        BY <2>1, <2>2, <3>1 DEF OrderInv
    <2>7. ComputerInv'
      BY <1>0, <2>1 DEF ComputerInv
    <2> QED
      BY <2>4, <2>5, <2>6, <2>7 DEF ConsoleInv
  <1>4. CASE Pulled
    <2>1. /\ Pull /\ OffUsb("dot") /\ typed' = <<>> /\ busy' = NoLine
          /\ \/ Ends(FALSE)
             \/ UNCHANGED <<pc, joinedSaid>>
      BY <1>4 DEF Pulled
    <2>2. events' \in 0..MaxEvents /\ events' = events + 1
      BY <1>0, <2>1 DEF Pull, Happens
    <2>3. UnitStep
      BY <2>1 DEF UnitStep
    <2>4. Inv' /\ JoinedInv'
      BY <2>2, <2>3, UnitPartKept
    <2>5. TypedInv'
      <3>1. pc' = pc \/ pc'.at # "reading"
        BY <2>1 DEF Ends, Idle
      <3> QED
        BY <1>0, <2>1, <2>2, <3>1, TypedStays
    <2>6. OrderInv'
      <3>1. scripts'["set"].at = "off"
        BY <2>1 DEF Pull, Off
      <3> QED
        BY <2>1, <3>1 DEF OrderInv
    <2>7. ComputerInv'
      BY <1>0, <1>a, <2>1, ComputerEnds
    <2> QED
      BY <2>4, <2>5, <2>6, <2>7 DEF ConsoleInv
  <1>5. CASE (SetStep \/ (\E p \in Scripts : JoinStep(p)) \/ World) /\ Reply
    <2>1. /\ typed' = typed /\ usb' = usb
          /\ busy' = IF scripts["set"].at # "off" /\ scripts'["set"].at = "off"
                     THEN NoLine ELSE busy
          /\ \/ UNCHANGED <<pc, joinedSaid>>
             \/ \E has \in BOOLEAN : Ends(has)
      BY <1>5 DEF Reply, console
    <2>2. events' = events \/ (events' = events + 1 /\ events < MaxEvents)
      <3>1. CASE SetStep
        BY <3>1 DEF SetStep, Save, Sync, Kill
      <3>2. ASSUME NEW p \in Scripts, JoinStep(p)
            PROVE  events' = events
        BY <3>2 DEF JoinStep, NoWlan, Decide, Write, Start, Associated, NotAssociated, Leased
      <3>3. CASE World
        BY <3>3 DEF World, Associate, Lease, Ntp, SetupPage, RescueLoop, Happens
      <3> QED
        BY <1>5, <3>1, <3>2, <3>3
    <2>3. Inv' /\ JoinedInv'
      <3>1. UnitStep /\ events' \in 0..MaxEvents
        BY <1>0, <1>5, <2>2 DEF UnitStep, Scripted
      <3> QED
        BY <3>1, UnitPartKept
    <2>4. TypedInv'
      <3>1. pc' = pc \/ pc'.at # "reading"
        BY <2>1 DEF Ends, Idle
      <3> QED
        BY <1>0, <2>1, <2>2, <3>1, TypedStays
    <2>5. OrderInv'
      BY <1>0, <1>5, <2>1, OrderKept
    <2>6. ComputerInv'
      BY <1>0, <2>1, ComputerEnds DEF ComputerInv
    <2> QED
      BY <2>3, <2>4, <2>5, <2>6 DEF ConsoleInv
  <1> QED
    BY <1>1, <1>2, <1>3, <1>4, <1>5 DEF Next

LEMMA ConsoleStarts == Init => ConsoleInv
  <1> SUFFICES ASSUME Init PROVE ConsoleInv
    OBVIOUS
  <1>1. Inv
    BY UnitStarts DEF Init
  <1>2. scripts["set"].at = "off" /\ events = 0
    BY DEF Init, UnitInit, Off
  <1>3. JoinedInv
    BY <1>2 DEF JoinedInv, JoinsAlone
  <1>4. typed = <<>> /\ busy = NoLine /\ pc = Idle /\ joinedSaid = FALSE
        /\ usb \in [Ports -> Units \cup {None}]
    BY DEF Init
  <1>5. TypedInv
    <2>1. typed \in Seq({}) /\ {} \in SUBSET Lines
      BY <1>4, EmptySeq
    <2>2. busy \in {} \cup {NoLine} /\ pc.at # "reading"
      BY <1>4 DEF Idle
    <2>3. \A line \in {} : line.tag <= events /\ (pc.at = "reading" /\ line.tag = pc.tag => line.order = pc.order)
      OBVIOUS
    <2> QED
      BY <2>1, <2>2, <2>3, Zenon DEF TypedInv
  <1>6. OrderInv
    BY <1>2, <1>4 DEF OrderInv
  <1>7. ComputerInv
    BY <1>4 DEF ComputerInv, Idle, Tags, Orders
  <1> QED
    BY <1>1, <1>3, <1>5, <1>6, <1>7 DEF ConsoleInv

LEMMA ConsoleAlways == Spec => []ConsoleInv
  <1>1. Init => ConsoleInv
    BY ConsoleStarts
  <1>2. ConsoleInv /\ [Next]_vars => ConsoleInv'
    BY ConsoleKept
  <1> QED
    BY <1>1, <1>2, PTL DEF Spec

\* Every reachable state of the unit, its terminal and set-wifi.py is well
\* typed, and a command never has another's tag.
THEOREM ConsoleTypes == Spec => []TypeOK
  <1>1. ConsoleInv => TypeOK
    BY LinesAreTyped DEF ConsoleInv, ComputerInv, Inv, TypeOK
  <1> QED
    BY <1>1, ConsoleAlways, PTL

\* Over the console, whatever ports there are, when what set-wifi.py has typed
\* is run late, after it gave up, or goes with the power: the network saved
\* last is the one tried.
THEOREM SavedNetworkKept == Spec => []ChoiceKept
  <1>1. ConsoleInv => ChoiceKept
    BY InvKeepsChoice DEF ConsoleInv
  <1> QED
    BY <1>1, ConsoleAlways, PTL

\* "Joined" is said when the command that set-wifi.py reads for is the one that
\* ends: what it asked for is what the unit was told, and, unless another came
\* between, the network its address is from.
LEMMA SaidIsJoined ==
  ASSUME ConsoleInv, Next, ~joinedSaid, joinedSaid'
  PROVE  /\ choice.net = Wanted(pc.order)
         /\ choice.but = {} => address = choice.net
  <1>1. ~Find /\ ~Deadline /\ ~Shell /\ ~Plugged /\ ~Pulled /\ ~(\E order \in Orders : Send(order))
    <2>1. ~Find /\ ~Deadline /\ ~Shell /\ ~Pulled
      BY DEF Find, Deadline, Shell, Pulled, Ends
    <2>2. ~Plugged
      <3>1. Plugged => joinedSaid' = joinedSaid
        BY ZenonT(20) DEF Plugged
      <3> QED
        BY <3>1
    <2>3. ASSUME NEW order \in Orders, Send(order)
          PROVE  FALSE
      <3>1. joinedSaid' = joinedSaid \/ joinedSaid' = FALSE
        BY <2>3 DEF Send, Runs, Ends
      <3> QED
        BY <3>1
    <2> QED
      BY <2>1, <2>2, <2>3
  <1>2. Reply
    BY <1>1 DEF Next
  <1>3. /\ scripts["set"].at = "lease" /\ address # None
        /\ pc.at = "reading" /\ pc.tag = busy.tag
    BY <1>2 DEF Reply, console, Ends
  <1>4. choice.net = Wanted(busy.order) /\ busy # NoLine
    BY <1>3 DEF ConsoleInv, OrderInv
  <1>5. busy.order = pc.order
    BY <1>3, <1>4 DEF ConsoleInv, TypedInv
  <1>6. choice.but = {} => address = choice.net
    BY <1>3 DEF ConsoleInv, JoinedInv, JoinsAlone
  <1> QED
    BY <1>4, <1>5, <1>6

\* However late answers come, whatever other commands wait in the terminal and
\* whoever else is at the unit's Wi-Fi, "Joined" is true.
THEOREM JoinedIsTrue == Spec => JoinedIsChosen
  <1>1. ConsoleInv /\ [Next]_vars =>
          [~joinedSaid /\ joinedSaid' =>
             /\ choice.net = Wanted(pc.order)
             /\ choice.but = {} => address = choice.net]_vars
    BY SaidIsJoined DEF ConsoleInv
  <1> QED
    BY <1>1, ConsoleAlways, PTL DEF Spec, JoinedIsChosen

-----------------------------------------------------------------------------
(* An address in rescue is on its way to SSH: LateLeaseGetsSsh, but for    *)
(* that the steps it waits for are taken.                                  *)

\* The goal of LateLeaseGetsSsh, or the end of what it is promised for.
Served == ssh \/ ~rescue \/ ~dhcp \/ joined = None

\* The steps a techo5-net may still take that is as far as this.
ScriptLeft(at) ==
  CASE at = "decide" -> 5 [] at = "write" -> 4 [] at = "start" -> 3
    [] at = "associate" -> 2 [] at = "lease" -> 1 [] OTHER -> 0

\* What is still to come before rescue's loop, or the boot's techo5-net, sees
\* the address.
WaitLeft == ScriptLeft(scripts["boot"].at) + (IF address = None THEN 1 ELSE 0)

WaitStep == JoinStep("boot") \/ Lease \/ RescueLoop

\* The marker rescue's loop stops at is there only with SSH.
RescueInv ==
  /\ networkUp = ssh
  /\ ssh => rescue
  /\ scripts["boot"].at \notin {"save", "sync", "kill"}

LEMMA ScriptLeftValue ==
  /\ ScriptLeft("decide") = 5
  /\ ScriptLeft("write") = 4
  /\ ScriptLeft("start") = 3
  /\ ScriptLeft("associate") = 2
  /\ ScriptLeft("lease") = 1
  /\ \A at \in {"off", "save", "sync", "kill"} : ScriptLeft(at) = 0
  /\ \A at \in Pcs : ScriptLeft(at) \in 0..5
  /\ \A at \in Pcs \ {"off", "save", "sync", "kill"} : ScriptLeft(at) # 0
  BY DEF ScriptLeft, Pcs

\* The boot's script only goes on, until the power goes.
LEMMA BootGoesOn ==
  ASSUME UnitTypeOK, UnitStep, ~Pull
  PROVE  /\ scripts'["boot"] = scripts["boot"] \/ JoinStep("boot")
         /\ JoinStep("boot") =>
              /\ ScriptLeft(scripts'["boot"].at) < ScriptLeft(scripts["boot"].at)
              /\ scripts'["boot"].at \notin {"save", "sync", "kill"}
  <1>a. "set" \in Scripts /\ "boot" \in Scripts /\ \A p \in Scripts : p = "set" \/ p = "boot"
    BY DEF Scripts
  <1>1. (\E order \in Orders : WifiSet(order)) \/ SetStep \/ JoinStep("set")
          => scripts'["boot"] = scripts["boot"]
    <2>1. (\E order \in Orders : WifiSet(order)) \/ SetStep => scripts'["boot"] = scripts["boot"]
      BY ScriptSteps
    <2>2. JoinStep("set") => \A q \in Scripts \ {"set"} : scripts'[q] = scripts[q]
      BY <1>a, ScriptSteps
    <2> QED
      BY <1>a, <2>1, <2>2
  <1>2. World => scripts' = scripts
    BY DEF World, Associate, Lease, Ntp, SetupPage, RescueLoop
  <1>3. ASSUME JoinStep("boot")
        PROVE  /\ ScriptLeft(scripts'["boot"].at) < ScriptLeft(scripts["boot"].at)
               /\ scripts'["boot"].at \notin {"save", "sync", "kill"}
    <2>1. \/ scripts["boot"].at = "decide" /\ scripts'["boot"].at \in {"start", "write", "off"}
          \/ scripts["boot"].at = "write" /\ scripts'["boot"].at = "start"
          \/ scripts["boot"].at = "start" /\ scripts'["boot"].at = "associate"
          \/ scripts["boot"].at = "associate" /\ scripts'["boot"].at \in {"lease", "off"}
          \/ scripts["boot"].at = "lease" /\ scripts'["boot"].at = "off"
      BY <1>3, <1>a, ScriptSteps DEF JoinStep
    <2> QED
      BY <2>1, ScriptLeftValue
  <1> QED
    BY <1>1, <1>2, <1>3, <1>a DEF UnitStep, Scripted

LEMMA RescueStarts == UnitInit => RescueInv
  <1> SUFFICES ASSUME UnitInit PROVE RescueInv
    OBVIOUS
  <1>1. scripts["boot"] = [at |-> "decide", arg |-> None]
    BY DEF UnitInit, Off
  <1>2. scripts["boot"].at = "decide"
    BY <1>1
  <1> QED
    BY <1>2 DEF UnitInit, RescueInv

\* Whether techo5-net brings an address or rescue's loop sees one, the marker and
\* SSH come together.
LEMMA RescueKept ==
  ASSUME UnitTypeOK, RescueInv, UnitStep \/ UNCHANGED quiet
  PROVE  RescueInv'
  <1>1. CASE UNCHANGED quiet
    BY <1>1 DEF RescueInv, quiet, net
  <1>2. CASE Pull
    <2>1. scripts'["boot"] = [at |-> "decide", arg |-> None]
      BY <1>2 DEF Pull, Off
    <2>2. scripts'["boot"].at = "decide"
      BY <2>1
    <2> QED
      BY <1>2, <2>2 DEF Pull, RescueInv
  <1>3. CASE UnitStep /\ ~Pull
    <2>1. scripts'["boot"].at \notin {"save", "sync", "kill"}
      BY <1>3, BootGoesOn DEF RescueInv
    <2>2. CASE UNCHANGED net
      BY <2>1, <2>2 DEF RescueInv, net
    <2>3. ASSUME NEW has \in BOOLEAN, RescueGoesOn(has)
          PROVE  RescueInv'
      <3>1. CASE rescue /\ has
        BY <2>1, <2>3, <3>1 DEF RescueGoesOn, Reached, RescueInv
      <3>2. CASE ~(rescue /\ has)
        BY <2>2, <2>3, <3>2 DEF RescueGoesOn, Reached
      <3> QED
        BY <3>1, <3>2
    <2>4. CASE RescueLoop
      BY <2>1, <2>4 DEF RescueLoop, RescueInv
    <2>5. ASSUME NEW p \in Scripts, JoinStep(p)
          PROVE  UNCHANGED net \/ \E has \in BOOLEAN : RescueGoesOn(has)
      <3>1. (address # None) \in BOOLEAN
        OBVIOUS
      <3> QED
        BY <2>5, <3>1 DEF JoinStep, NoWlan, Decide, Write, Start, Associated, NotAssociated, Leased, End
    <2>6. (\E order \in Orders : WifiSet(order)) \/ SetStep => UNCHANGED net
      BY DEF WifiSet, SetStep, Save, Sync, Kill
    <2>7. World => RescueLoop \/ UNCHANGED net
      BY DEF World, Associate, Lease, Ntp, SetupPage, net
    <2> QED
      BY <1>3, <2>2, <2>3, <2>4, <2>5, <2>6, <2>7 DEF UnitStep, Scripted
  <1> QED
    BY <1>1, <1>2, <1>3

\* The guard of rescue's loop, once nothing else is to come.
LoopReady == rescue /\ scripts["boot"].at = "off" /\ ~networkUp /\ address # None

LEMMA WaitEnds ==
  ASSUME UnitTypeOK, RescueInv
  PROVE  /\ WaitLeft \in 0..6
         /\ ~Served /\ WaitLeft = 0 => LoopReady
  <1>1. "boot" \in Scripts /\ scripts["boot"].at \in Pcs
    BY DEF UnitTypeOK, Scripts
  <1>2. ScriptLeft(scripts["boot"].at) \in 0..5
    BY <1>1, ScriptLeftValue
  <1>3. WaitLeft \in 0..6
    BY <1>2 DEF WaitLeft
  <1>4. WaitLeft = 0 => address # None /\ ScriptLeft(scripts["boot"].at) = 0
    BY <1>2 DEF WaitLeft
  <1>5. WaitLeft = 0 => scripts["boot"].at = "off"
    BY <1>1, <1>4, ScriptLeftValue DEF RescueInv
  <1> QED
    BY <1>3, <1>4, <1>5 DEF Served, LoopReady, RescueInv

LEMMA WaitFalls ==
  ASSUME UnitTypeOK, RescueInv, UnitTypeOK', UnitStep \/ UNCHANGED quiet, ~Served, ~Served'
  PROVE  /\ WaitLeft' <= WaitLeft
         /\ (UnitStep /\ WaitStep) => WaitLeft' < WaitLeft
  <1> DEFINE far == scripts["boot"].at
             Unaddressed == IF address = None THEN 1 ELSE 0
  <1>1. far \in Pcs /\ far' \in Pcs
    BY DEF UnitTypeOK, Scripts
  <1>2. ScriptLeft(far) \in 0..5 /\ ScriptLeft(far') \in 0..5
    BY <1>1, ScriptLeftValue
  <1>3. ~Pull
    BY DEF Pull, Served
  <1>4. address # None => address' # None
    <2>1. ASSUME UnitStep
          PROVE  address' = address \/ Lease \/ Kill \/ Pull
      BY <2>1 DEF UnitStep, Scripted, WifiSet, SetStep, Save, Sync, JoinStep, NoWlan, Decide, Write,
                  Start, Associated, NotAssociated, Leased, World, Associate, Ntp, SetupPage,
                  RescueLoop, radio
    <2>2. ~Kill
      BY DEF Kill, Served
    <2>3. Lease => address = None
      BY DEF Lease
    <2> QED
      BY <1>3, <2>1, <2>2, <2>3 DEF quiet, radio
  <1>5. CASE UNCHANGED quiet /\ ~UnitStep
    <2>1. WaitLeft' = WaitLeft
      BY <1>5 DEF quiet, radio, WaitLeft
    <2>2. WaitLeft \in Nat
      BY WaitEnds
    <2> QED
      BY <1>5, <2>1, <2>2
  <1>6. CASE UnitStep
    <2>1. ScriptLeft(far') <= ScriptLeft(far)
      BY <1>2, <1>3, <1>6, BootGoesOn
    <2>2. JoinStep("boot") => ScriptLeft(far') < ScriptLeft(far)
      BY <1>3, <1>6, BootGoesOn
    <2>3. Lease => address = None /\ address' # None
      BY DEF Lease, Served
    <2>4. ~RescueLoop
      BY DEF RescueLoop, Served
    <2>5. /\ WaitLeft = ScriptLeft(far) + Unaddressed
          /\ WaitLeft' = ScriptLeft(far') + (IF address' = None THEN 1 ELSE 0)
      BY DEF WaitLeft
    <2> HIDE DEF far
    <2> QED
      BY <1>2, <1>4, <2>1, <2>2, <2>3, <2>4, <2>5 DEF WaitStep
  <1> QED
    BY <1>5, <1>6

LEMMA WaitStepIsUnits == WaitStep => UnitStep
  BY DEF WaitStep, UnitStep, Scripted, World, Scripts

\* There is never more than six steps to wait for, and after them rescue's loop
\* has all it needs to start SSH.
InHand == WaitLeft \in 0..6 /\ (~Served /\ WaitLeft = 0 => LoopReady)

\* A step that brings nothing leaves no more to wait for than there was, and less
\* if it is one of those waited for.
Falls == ~Served /\ ~Served' => WaitLeft' <= WaitLeft /\ (WaitStep => WaitLeft' < WaitLeft)

\* In rescue, once udhcpc runs and the supplicant is associated, every step that
\* comes brings SSH, or stops one of them, or leaves no more to wait for than
\* there was; the boot's techo5-net and the lease leave less, and when there is
\* nothing left rescue's loop has all it needs to start SSH: no order of a late
\* lease, techo5-net's end and wifi-set leaves the marker without the server.
THEOREM LateLeaseInHand == UnitSpec => []InHand /\ [][Falls]_unit
  <1>1. UnitInit => Inv /\ RescueInv
    BY UnitStarts, RescueStarts
  <1>2. Inv /\ RescueInv /\ [UnitNext]_unit => (Inv /\ RescueInv)'
    <2>1. UnitNext \/ UNCHANGED unit => UnitStep \/ UNCHANGED quiet
      BY DEF UnitNext, UnitStep, Scripted, unit, quiet, files, radio, net, told
    <2> QED
      BY <2>1, UnitNextKept, RescueKept DEF Inv
  <1>3. Inv /\ RescueInv /\ Inv' /\ [UnitNext]_unit => [Falls]_unit
    <2>1. UnitNext => UnitStep
      BY DEF UnitNext, UnitStep, Scripted
    <2> QED
      BY <2>1, WaitFalls DEF Inv, Falls
  <1>4. Inv /\ RescueInv => InHand
    BY WaitEnds DEF Inv, InHand
  <1> QED
    BY <1>1, <1>2, <1>3, <1>4, PTL DEF UnitSpec

\* Nor does anything that is typed at the console meanwhile.
THEOREM LateLeaseInHandConsole == Spec => []InHand /\ [][Falls]_vars
  <1>1. Init => RescueInv
    BY RescueStarts DEF Init
  <1>2. ConsoleInv /\ [Next]_vars => UnitStep \/ UNCHANGED quiet
    <2>1. ConsoleInv /\ Shell => UnitStep
      <3>1. ConsoleInv /\ Shell => Head(typed).order \in Orders
        BY LinesAreTyped DEF ConsoleInv, Shell, Lines
      <3> QED
        BY <3>1 DEF Shell, UnitStep
    <2>2. (\E order \in Orders : Send(order)) => UNCHANGED quiet
      BY DEF Send, quiet
    <2>3. Find \/ Deadline \/ Plugged => UNCHANGED quiet
      BY DEF Find, Deadline, Plugged, unit, quiet
    <2>4. UNCHANGED vars => UNCHANGED quiet
      BY DEF vars, unit, quiet
    <2> QED
      BY <2>1, <2>2, <2>3, <2>4 DEF Next, UnitStep, Scripted, Pulled
  <1>3. ConsoleInv /\ RescueInv /\ [Next]_vars => RescueInv'
    BY <1>2, RescueKept DEF ConsoleInv, Inv
  <1>4. ConsoleInv /\ RescueInv /\ ConsoleInv' /\ [Next]_vars => [Falls]_vars
    BY <1>2, WaitFalls, WaitStepIsUnits DEF ConsoleInv, Inv, Falls
  <1>5. ConsoleInv /\ RescueInv => InHand
    BY WaitEnds DEF ConsoleInv, Inv, InHand
  <1> QED
    BY <1>1, <1>3, <1>4, <1>5, ConsoleAlways, PTL DEF Spec
=============================================================================
