-------------------------- MODULE PowerManagerProofs -------------------------
(***************************************************************************)
(* Theorems about PowerManager and the event word of SysMgr.               *)
(***************************************************************************)
EXTENDS PowerManager, TLAPS

(* What each report does to each of the bits that Knows looks at.          *)
LEMMA ReportTypes ==
  ASSUME NEW ev \in Events, NEW w \in SUBSET Events
  PROVE  Reported(ev, w) \in SUBSET Events
<1>1. CASE ev \in PowerStates
  BY <1>1 DEF Reported, Power, PowerStates, Offs, Events
<1>2. CASE ev \notin PowerStates
  BY <1>2 DEF Reported, Toggled, Events
<1> QED
  BY <1>1, <1>2

LEMMA ReportsCard ==
  ASSUME NEW w
  PROVE  /\ Reported("sdin", w) = IF "sdout" \in w THEN w \ {"sdout"} ELSE w \cup {"sdin"}
         /\ Reported("sdout", w) = IF "sdin" \in w THEN w \ {"sdin"} ELSE w \cup {"sdout"}
  BY DEF Reported, Toggled, PowerStates, Offs

LEMMA ReportsUsb ==
  ASSUME NEW w
  PROVE  /\ Reported("plug", w) = IF "unplug" \in w THEN w \ {"unplug"} ELSE w \cup {"plug"}
         /\ Reported("connect", w) = IF "unplug" \in w THEN w \ {"unplug"} ELSE w \cup {"connect"}
         /\ Reported("unplug", w) =
              (IF "plug" \in w THEN w \ {"plug"} ELSE w \cup {"unplug"}) \ {"connect"}
  BY DEF Reported, Toggled, PowerStates, Offs

Told == {"sdin", "sdout", "plug", "connect", "unplug"}

LEMMA ReportsPower ==
  ASSUME NEW ev \in PowerStates, NEW w
  PROVE  \A x \in Told : x \in Reported(ev, w) <=> x \in w
<1>1. Reported(ev, w) = Power(ev, w)
  BY DEF Reported, PowerStates, Offs
<1>2. \A x \in Told : x \in Power(ev, w) <=> x \in w
  BY DEF Power, PowerStates, Offs, Told
<1> QED
  BY <1>1, <1>2

LEMMA KnowsIs ==
  ASSUME NEW k, NEW w
  PROVE  /\ Knows(k, w).card = ("sdin" \in w \/ (k.card /\ "sdout" \notin w))
         /\ Knows(k, w).usbd = IF "unplug" \in w THEN 0
                               ELSE IF "connect" \in w THEN 2
                               ELSE IF "plug" \in w THEN 1 ELSE k.usbd
  BY DEF Knows

-----------------------------------------------------------------------------

(* What the parts of the invariant that are about the word say of any      *)
(* word, of who knows what, and of how many cards there are, ...           *)
CardGood(w, k, n) ==
  /\ "sdin" \in w => ~k.card \/ n > 1
  /\ "sdout" \in w => k.card
  /\ Knows(k, w).card <=> n > 0

(* ... or what is plugged in.                                              *)
UsbdGood(w, k, u) ==
  /\ "plug" \in w => k.usbd = 0
  /\ "unplug" \in w => k.usbd # 0 /\ "plug" \notin w /\ "connect" \notin w
  /\ "connect" \in w /\ "plug" \notin w => k.usbd # 0
  /\ Knows(k, w).usbd = 0 <=> u = 0
  /\ u = 2 => Knows(k, w).usbd = 2

Tellings == [card : BOOLEAN, usbd : 0 .. 2]

(* A card comes into any host, ...                                         *)
LEMMA InsertGood ==
  ASSUME NEW w, NEW k \in Tellings, NEW n \in Nat, CardGood(w, k, n)
  PROVE  CardGood(Reported("sdin", w), k, n + 1)
<1> DEFINE x == Reported("sdin", w)
<1>1. "sdin" \in x <=> "sdin" \in w \/ "sdout" \notin w
  BY ReportsCard
<1>2. "sdout" \notin x
  BY ReportsCard
<1>3. Knows(k, x).card <=> "sdin" \in x \/ k.card
  BY <1>2, KnowsIs, Zenon
<1>4. Knows(k, w).card <=> "sdin" \in w \/ (k.card /\ "sdout" \notin w)
  BY KnowsIs, Zenon
<1> HIDE DEF x
<1>5. n + 1 > 0 /\ (n > 0 <=> n + 1 > 1)
  OBVIOUS
<1>6. "sdin" \in x \/ k.card
  BY <1>1 DEF CardGood
<1>7. "sdin" \in x => ~k.card \/ n > 0
  BY <1>1, <1>4 DEF CardGood
<1> QED
  BY <1>2, <1>3, <1>5, <1>6, <1>7 DEF CardGood, x

(* ... and the only one is removed.                                        *)
LEMMA RemoveGood ==
  ASSUME NEW w, NEW k \in Tellings, CardGood(w, k, 1)
  PROVE  CardGood(Reported("sdout", w), k, 0)
<1> DEFINE x == Reported("sdout", w)
<1>1. "sdout" \in x <=> "sdout" \in w \/ "sdin" \notin w
  BY ReportsCard
<1>2. "sdin" \notin x
  BY ReportsCard
<1>3. Knows(k, x).card <=> k.card /\ "sdout" \notin x
  BY <1>2, KnowsIs, Zenon
<1>4. Knows(k, w).card <=> "sdin" \in w \/ (k.card /\ "sdout" \notin w)
  BY KnowsIs, Zenon
<1> HIDE DEF x
<1>5. ~(0 > 0) /\ 1 > 0 /\ ~(1 > 1)
  OBVIOUS
<1>6. ("sdin" \in w => ~k.card) /\ ("sdout" \in w => k.card)
  BY <1>5 DEF CardGood
<1>7. "sdin" \in w \/ (k.card /\ "sdout" \notin w)
  BY <1>4, <1>5 DEF CardGood
<1>8. "sdout" \in x => k.card
  BY <1>1, <1>6, <1>7
<1>9. ~(k.card /\ "sdout" \notin x)
  BY <1>1, <1>6
<1> QED
  BY <1>2, <1>3, <1>5, <1>8, <1>9 DEF CardGood, x

LEMMA PlugGood ==
  ASSUME NEW w, NEW k \in Tellings, UsbdGood(w, k, 0)
  PROVE  UsbdGood(Reported("plug", w), k, 1)
  BY ReportsUsb, KnowsIs DEF UsbdGood, Tellings

LEMMA UnplugGood ==
  ASSUME NEW w, NEW k \in Tellings, NEW u \in 1 .. 2, UsbdGood(w, k, u)
  PROVE  UsbdGood(Reported("unplug", w), k, 0)
  BY ReportsUsb, KnowsIs DEF UsbdGood, Tellings

LEMMA ConnectGood ==
  ASSUME NEW w, NEW k \in Tellings, UsbdGood(w, k, 1)
  PROVE  UsbdGood(Reported("connect", w), k, 2)
  BY ReportsUsb, KnowsIs DEF UsbdGood, Tellings

(* Cards and cable do not disturb each other, and power states neither.    *)
LEMMA SameCard ==
  ASSUME NEW w, NEW x, NEW k, NEW n, CardGood(w, k, n),
         "sdin" \in x <=> "sdin" \in w, "sdout" \in x <=> "sdout" \in w
  PROVE  CardGood(x, k, n)
  BY KnowsIs DEF CardGood

LEMMA SameUsbd ==
  ASSUME NEW w, NEW x, NEW k, NEW u, UsbdGood(w, k, u),
         "plug" \in x <=> "plug" \in w, "connect" \in x <=> "connect" \in w,
         "unplug" \in x <=> "unplug" \in w
  PROVE  UsbdGood(x, k, u)
<1>1. Knows(k, x).usbd = Knows(k, w).usbd
  BY KnowsIs
<1> QED
  BY <1>1 DEF UsbdGood

(* Whoever has read all that was pending and is right about it has nothing *)
(* pending to be wrong about.                                              *)
LEMMA ReadGood ==
  ASSUME NEW k \in Tellings
  PROVE  /\ "card" \notin Mistaken(k) => CardGood({}, k, cards)
         /\ "usbd" \notin Mistaken(k) => UsbdGood({}, k, usbd)
<1>1. Knows(k, {}).card = k.card /\ Knows(k, {}).usbd = k.usbd
  BY KnowsIs DEF Tellings
<1>2. ASSUME "card" \notin Mistaken(k) PROVE CardGood({}, k, cards)
  BY <1>1, <1>2 DEF Mistaken, CardTrue, CardGood
<1>3. ASSUME "usbd" \notin Mistaken(k) PROVE UsbdGood({}, k, usbd)
  BY <1>1, <1>3 DEF Mistaken, UsbdTrue, UsbdGood
<1> QED
  BY <1>2, <1>3

-----------------------------------------------------------------------------
(* Types.                                                                  *)

LEMMA Names ==
  /\ {"sdin", "sdout", "plug", "connect", "unplug", "rtcoff", "normal"} = Events
  /\ {"rtcoff", "normal"} = PowerStates
  /\ Reporters = {"mmc", "app", "pm"}
  BY DEF Events, PowerStates, Offs, Reporters

Mids == [Reporters -> [ev : Events \cup {"none"}, seen : SUBSET Events]]

LEMMA LoadTypes ==
  ASSUME TypeOK, NEW p \in Reporters, NEW ev \in Events, Load(p, ev)
  PROVE  mid' \in Mids
<1>1. [ev |-> ev, seen |-> word] \in [ev : Events \cup {"none"}, seen : SUBSET Events]
  BY DEF TypeOK
<1> QED
  BY <1>1 DEF Load, TypeOK, Mids

LEMMA StoreTypes ==
  ASSUME TypeOK, NEW p \in Reporters, mid[p] # NoReport => mid[p].ev \in Events, Store(p)
  PROVE  /\ mid' \in Mids
         /\ word' \in SUBSET Events
         /\ muddled' \in BOOLEAN
<1>1. NoReport \in [ev : Events \cup {"none"}, seen : SUBSET Events]
  BY DEF NoReport
<1>2. mid' \in Mids
  BY <1>1 DEF Store, TypeOK, Mids
<1>3. mid[p].seen \in SUBSET Events /\ mid[p].ev \in Events
  BY DEF Store, TypeOK
<1>4. word' \in SUBSET Events
  BY <1>3, ReportTypes DEF Store
<1>5. muddled' \in BOOLEAN
  BY Zenon DEF Store
<1> QED
  BY <1>2, <1>4, <1>5

(* A report in the middle is of an event.                                  *)
LEMMA MiddleEvents ==
  InMiddle => \A p \in Reporters : mid[p] # NoReport => mid[p].ev \in Events
  BY Names DEF InMiddle

LEMMA TypeNext == TypeOK /\ InMiddle /\ [Next]_vars => TypeOK'
<1> SUFFICES ASSUME TypeOK, InMiddle, [Next]_vars PROVE TypeOK'
  OBVIOUS
<1> USE PowerManagerAssumption, SysMgrAssumption, Names DEF Mids, cardVars
<1>1. CASE Select
  BY <1>1 DEF Select, Goes, TypeOK, driverVars
<1>2. CASE Read
  BY <1>2 DEF Read, Goes, TypeOK, driverVars
<1>3. CASE Clear
  <2>1. Knows(told, copied) \in Tellings
    BY DEF Knows, TypeOK, Tellings
  <2>2. muddled' \in BOOLEAN
    BY <1>3, Zenon DEF Clear
  <2>3. astray' \in SUBSET {"card", "usbd"}
    BY <1>3 DEF Clear, TypeOK
  <2> QED
    BY <1>3, <2>1, <2>2, <2>3 DEF Clear, Goes, TypeOK, Tellings
<1>4. CASE ProcessSysMgrStatus
  <2>1. crowded' \in BOOLEAN
    BY <1>4, Zenon DEF ProcessSysMgrStatus
  <2> QED
    BY <1>4, <2>1 DEF ProcessSysMgrStatus, Goes, TypeOK, driverVars
<1>5. CASE CheckKey
  BY <1>5 DEF CheckKey, Goes, TypeOK, driverVars
<1>6. CASE Ask
  BY <1>6, LoadTypes DEF Ask, Goes, TypeOK, Load
<1>7. CASE Asked
  BY <1>7, StoreTypes, MiddleEvents DEF Asked, Goes, TypeOK, Store
<1>8. CASE DriverSteps /\ UNCHANGED pmVars
  <2>1. CASE InsertCard \/ RemoveCard
    BY <1>8, <2>1, LoadTypes DEF InsertCard, RemoveCard, TypeOK, Load, pmVars
  <2>2. CASE AppReports
    BY <1>8, <2>2, LoadTypes DEF AppReports, TypeOK, Load, pmVars
  <2>3. CASE CardInserted \/ CardRemoved
    <3>1. Store("mmc") /\ mid["mmc"] # NoReport
      BY <2>3 DEF CardInserted, CardRemoved, Store
    <3>2. cards' \in 0 .. Hosts
      BY <2>3, <3>1 DEF CardInserted, CardRemoved, InMiddle, TypeOK
    <3>3. astray' \in SUBSET {"card", "usbd"}
      BY <2>3 DEF CardInserted, CardRemoved, TypeOK
    <3> QED
      BY <1>8, <3>1, <3>2, <3>3, StoreTypes, MiddleEvents DEF TypeOK, Store, pmVars
  <2>7. CASE AppReported
    BY <1>8, <2>7, StoreTypes, MiddleEvents DEF AppReported, TypeOK, Store, pmVars
  <2>4. CASE Cable
    <3>1. vbus' \in BOOLEAN /\ vint' \in BOOLEAN
      BY <2>4, Zenon DEF Cable
    <3> QED
      BY <1>8, <2>4, <3>1 DEF TypeOK, Cable, pmVars
  <2>5. CASE VbusInterrupt
    <3>1. vint' \in BOOLEAN
      BY <2>5, Zenon DEF VbusInterrupt
    <3>4. astray' \in SUBSET {"card", "usbd"}
      BY <2>5 DEF VbusInterrupt, TypeOK
    <3>2. word' \in SUBSET Events
      BY <2>5, ReportTypes DEF VbusInterrupt, Interrupts, TypeOK
    <3>3. usbd' \in 0 .. 2
      BY <2>5 DEF VbusInterrupt
    <3> QED
      BY <1>8, <2>5, <3>1, <3>2, <3>3, <3>4 DEF TypeOK, VbusInterrupt, pmVars
  <2>6. CASE ResetInterrupt
    <3>1. word' \in SUBSET Events
      BY <2>6, ReportTypes DEF ResetInterrupt, Interrupts, TypeOK
    <3> QED
      BY <1>8, <2>6, <3>1 DEF TypeOK, ResetInterrupt, pmVars
  <2> QED
    BY <1>8, <2>1, <2>2, <2>3, <2>4, <2>5, <2>6, <2>7 DEF DriverSteps
<1>9. CASE UNCHANGED vars
  BY <1>9 DEF vars, driverVars, pmVars, TypeOK
<1> QED
  BY <1>1, <1>2, <1>3, <1>4, <1>5, <1>6, <1>7, <1>8, <1>9 DEF Next, Loop

LEMMA MiddleNext == TypeOK /\ InMiddle /\ [Next]_vars => InMiddle'
<1> SUFFICES ASSUME TypeOK, InMiddle, [Next]_vars PROVE InMiddle'
  OBVIOUS
<1> USE Names DEF TypeOK, InMiddle, cardVars
<1>1. CASE Select \/ Read \/ Clear \/ ProcessSysMgrStatus \/ CheckKey
  BY <1>1 DEF Select, Read, Clear, ProcessSysMgrStatus, CheckKey, driverVars
<1>2. CASE Ask
  BY <1>2 DEF Ask, Load
<1>3. CASE Asked
  BY <1>3 DEF Asked, Store
<1>4. CASE DriverSteps
  <2>1. CASE InsertCard \/ RemoveCard
    <3>1. PICK ev \in {"sdin", "sdout"} :
            /\ mid' = [mid EXCEPT !["mmc"] = [ev |-> ev, seen |-> word]]
            /\ ev = "sdin" => cards < Hosts
            /\ ev = "sdout" => cards > 0
      BY <2>1 DEF InsertCard, RemoveCard, Load
    <3>2. cards' = cards
      BY <2>1 DEF InsertCard, RemoveCard, Load
    <3>3. mid'["mmc"].ev = ev /\ mid'["app"] = mid["app"] /\ mid'["pm"] = mid["pm"]
      BY <3>1
    <3>4. ev = "sdin" \/ ev = "sdout"
      BY <3>1
    <3> QED
      BY <3>1, <3>2, <3>3, <3>4
  <2>2. CASE AppReports
    BY <2>2 DEF AppReports, Load
  <2>3. CASE CardInserted \/ CardRemoved \/ AppReported
    <3>1. PICK p \in {"mmc", "app"} :
            /\ Store(p)
            /\ p = "app" => UNCHANGED cards
      BY <2>3 DEF CardInserted, CardRemoved, AppReported
    <3>2. mid' = [mid EXCEPT ![p] = NoReport]
      BY <3>1 DEF Store
    <3> QED
      BY <3>1, <3>2
  <2>4. CASE Cable \/ VbusInterrupt \/ ResetInterrupt
    BY <2>4 DEF Cable, VbusInterrupt, ResetInterrupt
  <2> QED
    BY <1>4, <2>1, <2>2, <2>3, <2>4 DEF DriverSteps
<1>5. CASE UNCHANGED vars
  BY <1>5 DEF vars, driverVars
<1> QED
  BY <1>1, <1>2, <1>3, <1>4, <1>5 DEF Next, Loop

-----------------------------------------------------------------------------
(* Who reads the word is informed.                                         *)

Good ==
  ~muddled =>
    /\ "card" \notin astray => CardGood(word, told, cards)
    /\ "usbd" \notin astray => UsbdGood(word, told, usbd)

LEMMA GoodIs == TypeOK => (Good <=> News /\ Informed)
<1> SUFFICES ASSUME TypeOK PROVE Good <=> News /\ Informed
  OBVIOUS
<1>1. Informed <=> (~muddled => /\ "card" \notin astray => CardTrue(Knows(told, word))
                                /\ "usbd" \notin astray => UsbdTrue(Knows(told, word)))
  BY DEF Informed, Mistaken
<1>2. CardGood(word, told, cards) <=> CardNews /\ CardTrue(Knows(told, word))
  BY DEF CardGood, CardNews, CardTrue
<1>3. UsbdGood(word, told, usbd) <=> UsbdNews /\ UsbdTrue(Knows(told, word))
  BY DEF UsbdGood, UsbdNews, UsbdTrue
<1> QED
  BY <1>1, <1>2, <1>3 DEF Good, News

(* A report of a power state.                                              *)
LEMMA PowerGood ==
  ASSUME TypeOK, InMiddle, Good, NEW p \in {"app", "pm"}, Store(p),
         UNCHANGED <<told, cards, usbd, astray>>
  PROVE  Good'
<1> SUFFICES ASSUME ~muddled' PROVE Good'
  BY DEF Good
<1>1. ~muddled /\ word' = Reported(mid[p].ev, word)
  BY DEF Store
<1>2. mid[p].ev \in PowerStates
  BY DEF Store, InMiddle
<1>3. \A x \in Told : x \in word' <=> x \in word
  BY <1>1, <1>2, ReportsPower
<1>4. ASSUME "card" \notin astray' PROVE CardGood(word', told', cards')
  BY <1>1, <1>3, <1>4, SameCard DEF Good, Told
<1>5. ASSUME "usbd" \notin astray' PROVE UsbdGood(word', told', usbd')
  BY <1>1, <1>3, <1>5, SameUsbd DEF Good, Told
<1> QED
  BY <1>4, <1>5 DEF Good

(* A report of a card.                                                     *)
LEMMA CardReportGood ==
  ASSUME TypeOK, InMiddle, Good, CardInserted \/ CardRemoved, UNCHANGED told
  PROVE  Good'
<1> SUFFICES ASSUME ~muddled' PROVE Good'
  BY DEF Good
<1>0. told \in Tellings /\ cards \in Nat
  BY SysMgrAssumption DEF TypeOK, Tellings
<1>1. /\ ~muddled /\ word' = Reported(mid["mmc"].ev, word) /\ usbd' = usbd
      /\ mid["mmc"].ev \in {"sdin", "sdout"} /\ mid["mmc"] # NoReport
  BY DEF CardInserted, CardRemoved, Store
<1>2. ASSUME "card" \notin astray' PROVE CardGood(word', told', cards')
  <2>1. "card" \notin astray /\ CardGood(word, told, cards)
    BY <1>1, <1>2 DEF CardInserted, CardRemoved, Good
  <2>2. CASE CardInserted
    <3>1. word' = Reported("sdin", word) /\ cards' = cards + 1
      BY <1>1, <1>2, <2>2 DEF CardInserted
    <3> QED
      BY <1>0, <2>1, <3>1, InsertGood
  <2>3. CASE CardRemoved
    <3>1. word' = Reported("sdout", word) /\ ~(cards > 1) /\ cards' = cards - 1
      BY <1>1, <1>2, <2>3 DEF CardRemoved
    <3>2. cards > 0
      BY <1>1, <2>3 DEF CardRemoved, InMiddle
    <3>3. cards = 1 /\ cards' = 0
      BY <1>0, <3>1, <3>2
    <3> QED
      BY <1>0, <2>1, <3>1, <3>3, RemoveGood
  <2> QED
    BY <2>2, <2>3
<1>3. ASSUME "usbd" \notin astray' PROVE UsbdGood(word', told', usbd')
  <2>1. "usbd" \notin astray /\ UsbdGood(word, told, usbd)
    BY <1>1, <1>3 DEF CardInserted, CardRemoved, Good
  <2>2. /\ "plug" \in word' <=> "plug" \in word
        /\ "connect" \in word' <=> "connect" \in word
        /\ "unplug" \in word' <=> "unplug" \in word
    BY <1>1, ReportsCard
  <2> QED
    BY <1>1, <2>1, <2>2, SameUsbd
<1> QED
  BY <1>2, <1>3 DEF Good

(* A report of the USB connector.                                          *)
LEMMA UsbdReportGood ==
  ASSUME TypeOK, Good, VbusInterrupt \/ ResetInterrupt, UNCHANGED told
  PROVE  Good'
<1> SUFFICES ASSUME ~muddled' PROVE Good'
  BY DEF Good
<1>0. told \in Tellings /\ usbd \in 0 .. 2
  BY DEF TypeOK, Tellings
<1>1. ~muddled /\ cards' = cards
  BY DEF VbusInterrupt, ResetInterrupt, cardVars
<1>2. \/ word' = Reported("plug", word) \/ word' = Reported("unplug", word)
      \/ word' = Reported("connect", word)
  BY DEF VbusInterrupt, ResetInterrupt, Interrupts
<1>3. ASSUME "card" \notin astray' PROVE CardGood(word', told', cards')
  <2>1. "card" \notin astray /\ CardGood(word, told, cards)
    BY <1>1, <1>3 DEF VbusInterrupt, ResetInterrupt, cardVars, Good
  <2>2. ("sdin" \in word' <=> "sdin" \in word) /\ ("sdout" \in word' <=> "sdout" \in word)
    BY <1>2, ReportsUsb
  <2> QED
    BY <1>1, <2>1, <2>2, SameCard
<1>4. ASSUME "usbd" \notin astray' PROVE UsbdGood(word', told', usbd')
  <2>1. "usbd" \notin astray /\ UsbdGood(word, told, usbd)
    BY <1>1, <1>4 DEF VbusInterrupt, ResetInterrupt, cardVars, Good
  <2>2. CASE VbusInterrupt
    <3>1. ~(vbus <=> usbd # 0)
      BY <1>4, <2>2 DEF VbusInterrupt
    <3>2. CASE vbus
      BY <1>0, <2>1, <2>2, <3>1, <3>2, PlugGood DEF VbusInterrupt, Interrupts
    <3>3. CASE ~vbus
      BY <1>0, <2>1, <2>2, <3>1, <3>3, UnplugGood DEF VbusInterrupt, Interrupts
    <3> QED
      BY <3>2, <3>3
  <2>3. CASE ResetInterrupt
    BY <1>0, <2>1, <2>3, ConnectGood DEF ResetInterrupt, Interrupts
  <2> QED
    BY <2>2, <2>3
<1> QED
  BY <1>3, <1>4 DEF Good

(* A read.                                                                 *)
LEMMA ClearGood ==
  ASSUME TypeOK, Good, Clear
  PROVE  Good'
<1> SUFFICES ASSUME ~muddled' PROVE Good'
  BY DEF Good
<1>1. /\ ~muddled /\ word = copied /\ word' = {} /\ told' = Knows(told, word)
      /\ UNCHANGED <<cards, usbd>> /\ astray' = astray \cap Mistaken(told')
  BY DEF Clear
<1>2. told' \in Tellings
  BY <1>1 DEF Knows, TypeOK, Tellings
<1>3. ASSUME "card" \notin astray' PROVE "card" \notin Mistaken(told')
  <2>1. CASE "card" \notin astray
    <3>1. CardTrue(Knows(told, word))
      BY <1>1, <2>1 DEF Good, CardGood, CardTrue
    <3> QED
      BY <1>1, <3>1 DEF Mistaken
  <2>2. CASE "card" \in astray
    BY <1>1, <1>3, <2>2
  <2> QED
    BY <2>1, <2>2
<1>4. ASSUME "usbd" \notin astray' PROVE "usbd" \notin Mistaken(told')
  <2>1. CASE "usbd" \notin astray
    <3>1. UsbdTrue(Knows(told, word))
      BY <1>1, <2>1 DEF Good, UsbdGood, UsbdTrue
    <3> QED
      BY <1>1, <3>1 DEF Mistaken
  <2>2. CASE "usbd" \in astray
    BY <1>1, <1>4, <2>2
  <2> QED
    BY <2>1, <2>2
<1> QED
  BY <1>1, <1>2, <1>3, <1>4, ReadGood DEF Good

LEMMA GoodNext == TypeOK /\ InMiddle /\ Good /\ [Next]_vars => Good'
<1> SUFFICES ASSUME TypeOK, InMiddle, Good, [Next]_vars PROVE Good'
  OBVIOUS
<1> USE DEF driverVars, cardVars, pmVars
<1>1. CASE UNCHANGED <<word, told, cards, usbd, muddled, astray>>
  BY <1>1 DEF Good
<1>2. CASE Asked \/ (AppReported /\ UNCHANGED pmVars)
  <2>1. PICK p \in {"app", "pm"} : Store(p) /\ UNCHANGED <<told, cards, astray>>
    BY <1>2 DEF Asked, AppReported
  <2>2. UNCHANGED usbd
    BY <2>1 DEF Store
  <2> QED
    BY <2>1, <2>2, PowerGood
<1>3. CASE Loop
  BY <1>1, <1>2, <1>3, ClearGood
     DEF Loop, Select, Read, ProcessSysMgrStatus, CheckKey, Ask, Load
<1>4. CASE DriverSteps /\ UNCHANGED pmVars
  BY <1>1, <1>2, <1>4, CardReportGood, UsbdReportGood
     DEF DriverSteps, InsertCard, RemoveCard, AppReports, Cable, Load
<1>5. CASE UNCHANGED vars
  BY <1>1, <1>5 DEF vars
<1> QED
  BY <1>3, <1>4, <1>5 DEF Next

-----------------------------------------------------------------------------

LEMMA IInvInit == Init => IInv
<1> SUFFICES ASSUME Init PROVE IInv
  OBVIOUS
<1> USE DEF Init, DriverInit
<1>1. TypeOK
  <2>1. /\ vbus \in BOOLEAN /\ vint \in BOOLEAN /\ cards \in 0 .. Hosts
        /\ muddled \in BOOLEAN /\ crowded \in BOOLEAN
    <3>1. cards \in 0 .. Hosts
      BY SysMgrAssumption
    <3> QED
      BY <3>1, Zenon
  <2>2. NoReport \in [ev : Events \cup {"none"}, seen : SUBSET Events]
    BY DEF NoReport
  <2>3. told \in [card : BOOLEAN, usbd : 0 .. 2]
    OBVIOUS
  <2> QED
    BY <2>1, <2>2, <2>3, PowerManagerAssumption DEF TypeOK
<1>2. InMiddle
  BY Names DEF InMiddle
<1>3. Good
  <2>1. word = {} /\ ~told.card /\ told.usbd = 0 /\ usbd = 0 /\ ~(cards > 0)
    OBVIOUS
  <2>2. ~Knows(told, word).card
    BY <2>1, KnowsIs, Zenon
  <2>3. Knows(told, word).usbd = 0
    BY <2>1, KnowsIs
  <2> QED
    BY <2>1, <2>2, <2>3 DEF Good, CardGood, UsbdGood
<1> QED
  BY <1>1, <1>2, <1>3, GoodIs DEF IInv

(* The inductive invariant: what is pending is news to those who have read *)
(* the rest.                                                               *)
THEOREM Inductive == Spec => []IInv
<1>1. IInv /\ [Next]_vars => IInv'
  <2>1. ASSUME IInv, [Next]_vars PROVE IInv'
    <3>1. TypeOK' /\ InMiddle'
      BY <2>1, TypeNext, MiddleNext DEF IInv
    <3>2. Good'
      BY <2>1, GoodIs, GoodNext DEF IInv
    <3>3. (TypeOK => (Good <=> News /\ Informed))'
      BY GoodIs, PTL
    <3>4. News' /\ Informed'
      BY <3>1, <3>2, <3>3
    <3> QED
      BY <3>1, <3>4 DEF IInv
  <2> QED
    BY <2>1
<1> QED
  BY <1>1, IInvInit, PTL DEF Spec

(* Events that take each other back leave no reader with an earlier state, *)
(* with any number of hosts: who reads the word is wrong about no more     *)
(* than was reported wrong since a read that left it right, until the word *)
(* is written by two at a time.                                            *)
THEOREM InformedHolds == Spec => []Informed
<1>1. IInv => Informed
  BY DEF IInv
<1> QED
  BY <1>1, Inductive, PTL
=============================================================================
