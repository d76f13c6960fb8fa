------------------------------- MODULE SysMgr --------------------------------
(***************************************************************************)
(* The event word of the system manager (drivers/char/w55fa92_sysmgr.c of  *)
(* the W55FA92 Linux tree).  Drivers report what happens, with             *)
(* sysmgr_report; a reader of the device takes all that is pending.        *)
(* Nothing protects the word: a report loads it and stores it again, and   *)
(* an interrupt that reports in between is overwritten.                    *)
(*                                                                         *)
(* Each minor has a word of its own, and they do not disturb each other:   *)
(* there is one here.  The bits are the members of a set.  Of the pairs    *)
(* that cancel each other those of the cards and of the USB connector are  *)
(* here.  Those of the USB host, of NAND and of displays are left out, and *)
(* so are events that only add a bit (audio, EJECT).                       *)
(*                                                                         *)
(* The cards of all hosts, SD, MMC or SDIO, are reported in one pair of    *)
(* bits, by the one thread of kmmcd.  Cards that are taken away from a     *)
(* host as it suspends or goes are left out.                               *)
(***************************************************************************)
EXTENDS Integers

CONSTANT Hosts          \* how many hosts there are that take a card

ASSUME SysMgrAssumption == Hosts \in Nat

VARIABLES
  word,         \* sdata[].status
  usbd,         \* usbd_state: 0 unplugged, 1 plugged, 2 connected to a PC
  vbus, vint,   \* power on the USB connector, its interrupt is pending
  cards,        \* how many hosts have a card that is present
  mid,          \* the report each process context is in the middle of
  muddled,      \* history: a store was on top of another
  astray        \* history: of what a reader may be told wrong, by what was
                \* reported since a read that left it right

cardVars == <<cards, astray>>
driverVars == <<word, usbd, vbus, vint, cards, mid, muddled, astray>>

(* Process contexts that report: the MMC workqueue, an application, and    *)
(* the power manager.                                                      *)
Reporters == {"mmc", "app", "pm"}

(* Those two report from an ioctl, under the big kernel lock: only         *)
(* interrupts can come in between.                                         *)
Locked == {"app", "pm"}

Offs == {"rtcoff"}
PowerStates == Offs \cup {"normal"}
Events == {"sdin", "sdout", "plug", "connect", "unplug"} \cup PowerStates

NoReport == [ev |-> "none", seen |-> {}]

DriverInit ==
  /\ word = {}
  /\ usbd = 0 /\ vbus = FALSE /\ vint = FALSE
  /\ cards = 0
  /\ mid = [p \in Reporters |-> NoReport]
  /\ muddled = FALSE
  /\ astray = {}

-----------------------------------------------------------------------------
(* sysmgr_report.                                                          *)

(* An event takes back the pending opposite.                               *)
Toggled(ev, undoes, w) == IF undoes \in w THEN w \ {undoes} ELSE w \cup {ev}


(* A power state replaces another, but no request to switch off.           *)
Power(ev, w) ==
  IF ev \notin Offs /\ w \cap Offs # {} THEN w ELSE (w \ PowerStates) \cup {ev}

(* A fault: the connection to a PC stays pending when the plug is pulled.  *)
ReportedConnected(ev, w) ==
  CASE ev = "sdin"                -> Toggled(ev, "sdout", w)
    [] ev = "sdout"               -> Toggled(ev, "sdin", w)
    [] ev \in {"plug", "connect"} -> Toggled(ev, "unplug", w)
    [] ev = "unplug"              -> Toggled(ev, "plug", w)
    [] ev \in PowerStates         -> Power(ev, w)

(* What a report makes of the word.                                        *)
Reported(ev, w) ==
  CASE ev = "sdin"                -> Toggled(ev, "sdout", w)
    [] ev = "sdout"               -> Toggled(ev, "sdin", w)
    [] ev \in {"plug", "connect"} -> Toggled(ev, "unplug", w)
    [] ev = "unplug"              -> Toggled(ev, "plug", w) \ {"connect"}
    [] ev \in PowerStates         -> Power(ev, w)

Runs(p) == \A q \in Locked \ {p} : mid[q] = NoReport

(* A process context loads the word, ...                                   *)
Load(p, ev) ==
  /\ mid[p] = NoReport
  /\ Runs(p)
  /\ mid' = [mid EXCEPT ![p] = [ev |-> ev, seen |-> word]]
  /\ UNCHANGED <<word, usbd, vbus, vint, muddled, cardVars>>

(* ... and stores what its report makes of what it has loaded.             *)
Store(p) ==
  /\ mid[p] # NoReport
  /\ Runs(p)
  /\ word' = Reported(mid[p].ev, mid[p].seen)
  /\ muddled' = (muddled \/ word # mid[p].seen)
  /\ mid' = [mid EXCEPT ![p] = NoReport]
  /\ UNCHANGED <<usbd, vbus, vint>>

(* A report of an interrupt handler is one step.                           *)
Interrupts(ev) == word' = Reported(ev, word)

-----------------------------------------------------------------------------
(* Those who report.                                                       *)

(* mmc_add_card reports a card that a host has found, whatever is in the   *)
(* others, ...                                                             *)
InsertCard == cards < Hosts /\ Load("mmc", "sdin")

(* ... and then adds its device.  Where that fails the card is not         *)
(* present, and nobody will report that it is gone.                        *)
CardInserted ==
  /\ mid["mmc"].ev = "sdin"
  /\ Store("mmc")
  /\ \/ cards' = cards + 1 /\ UNCHANGED astray
     \/ astray' = astray \cup {"card"} /\ UNCHANGED cards

(* mmc_remove_card, of a card that is present.                             *)
RemoveCard == cards > 0 /\ Load("mmc", "sdout")

(* What it reports is not what it means when there is another card.        *)
CardRemoved ==
  /\ mid["mmc"].ev = "sdout"
  /\ Store("mmc")
  /\ cards' = cards - 1
  /\ astray' = IF cards > 1 THEN astray \cup {"card"} ELSE astray

(* An application sets a power state with an ioctl.                        *)
AppReports == \E ev \in PowerStates \ Offs : Load("app", ev)
AppReported == Store("app") /\ UNCHANGED cardVars

(* The cable is plugged in or pulled.                                      *)
Cable ==
  /\ vbus' = ~vbus
  /\ vint' = TRUE
  /\ UNCHANGED <<word, usbd, mid, muddled, cardVars>>

(* The handler reports the level it finds, which after two changes in a    *)
(* row is the one it has reported before.                                  *)
VbusInterrupt ==
  /\ vint
  /\ vint' = FALSE
  /\ usbd' = IF vbus THEN 1 ELSE 0
  /\ Interrupts(IF vbus THEN "plug" ELSE "unplug")
  /\ astray' = IF vbus <=> usbd # 0 THEN astray \cup {"usbd"} ELSE astray
  /\ UNCHANGED <<vbus, cards, mid, muddled>>

(* The first reset after the plug comes from a PC.                         *)
ResetInterrupt ==
  /\ usbd = 1
  /\ usbd' = 2
  /\ Interrupts("connect")
  /\ UNCHANGED <<vbus, vint, mid, muddled, cardVars>>

DriverSteps ==
  \/ InsertCard \/ CardInserted \/ RemoveCard \/ CardRemoved
  \/ AppReports \/ AppReported
  \/ Cable \/ VbusInterrupt \/ ResetInterrupt
=============================================================================
