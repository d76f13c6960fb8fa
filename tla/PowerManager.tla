---------------------------- MODULE PowerManager -----------------------------
(***************************************************************************)
(* The power manager (application/powerManager/powerManager.cpp), the      *)
(* process that reads the event word of SysMgr.  Its loop looks with       *)
(* select whether there is something to read, reads all of it, acts on it  *)
(* if it is one event alone, and asks for the power to be switched off     *)
(* when the power key has been held long enough, by way of the same word.  *)
(*                                                                         *)
(* Left out: the power states nobody asks for here, and the loop's code    *)
(* after the return that switches it off.                                  *)
(***************************************************************************)
EXTENDS SysMgr

CONSTANT KeyPolls       \* how often the key is found held: 20 in the code

ASSUME PowerManagerAssumption == KeyPolls \in Nat \ {0}

VARIABLES
  pc,           \* where the loop is
  copied,       \* what read has copied
  told,         \* history: what those who read the word know by now
  held,         \* power_off_count; past KeyPolls the request has been made
  crowded       \* history: the request was read together with other events

pmVars == <<pc, copied, told, held, crowded>>
vars == <<driverVars, pmVars>>

Init ==
  /\ DriverInit
  /\ pc = "select"
  /\ copied = {}
  /\ told = [card |-> FALSE, usbd |-> 0]
  /\ held = 0
  /\ crowded = FALSE

Goes(from, to) == pc = from /\ pc' = to

(* What a reader knows that knew k and reads w.                            *)
Knows(k, w) ==
  [card |-> ("sdin" \in w \/ (k.card /\ "sdout" \notin w)),
   usbd |-> IF "unplug" \in w THEN 0
            ELSE IF "connect" \in w THEN 2
            ELSE IF "plug" \in w THEN 1 ELSE k.usbd]

(* Whether there is a card, whether there is a cable, and that there is a  *)
(* PC: of what somebody who knows k is wrong.                              *)
CardTrue(k) == k.card <=> cards > 0
UsbdTrue(k) == (k.usbd = 0 <=> usbd = 0) /\ (usbd = 2 => k.usbd = 2)
Mistaken(k) == {x \in {"card", "usbd"} : ~(IF x = "card" THEN CardTrue(k) ELSE UsbdTrue(k))}

-----------------------------------------------------------------------------

Select ==
  /\ Goes("select", IF word # {} THEN "read" ELSE "poll")
  /\ Runs("pm")
  /\ UNCHANGED <<driverVars, copied, told, held, crowded>>

(* w55fa92_sysmgr_read waits until there is something: an event that was   *)
(* there for select may have been taken back.  It copies the word ...      *)
Read ==
  /\ Goes("read", "copied")
  /\ Runs("pm")
  /\ word # {}
  /\ copied' = word
  /\ UNCHANGED <<driverVars, told, held, crowded>>

(* ... and clears it.                                                      *)
Clear ==
  /\ Goes("copied", "handle")
  /\ Runs("pm")
  /\ word' = {}
  /\ muddled' = (muddled \/ word # copied)
  /\ told' = Knows(told, copied)
  /\ astray' = astray \cap Mistaken(told')
  /\ UNCHANGED <<usbd, vbus, vint, cards, mid, copied, held, crowded>>

(* ProcessSysMgrStatus compares all that was read with one event at a      *)
(* time.  To switch off is to wait for ever to be switched off.            *)
ProcessSysMgrStatus ==
  /\ Goes("handle", IF copied = {"rtcoff"} THEN "off" ELSE "poll")
  /\ Runs("pm")
  /\ crowded' = (crowded \/ ("rtcoff" \in copied /\ copied # {"rtcoff"}))
  /\ copied' = {}
  /\ UNCHANGED <<driverVars, told, held>>

(* PowerOff_Check: the key is held or not, ...                             *)
CheckKey ==
  /\ held # KeyPolls
  /\ Goes("poll", "select")
  /\ Runs("pm")
  /\ held' \in IF held < KeyPolls THEN {0, held + 1} ELSE {held}
  /\ UNCHANGED <<driverVars, copied, told, crowded>>

(* ... or has been held long enough, which is reported once.               *)
Ask ==
  /\ held = KeyPolls
  /\ Goes("poll", "ask")
  /\ Load("pm", "rtcoff")
  /\ UNCHANGED <<copied, told, held, crowded>>

Asked ==
  /\ Goes("ask", "select")
  /\ Store("pm")
  /\ held' = KeyPolls + 1
  /\ UNCHANGED <<copied, told, crowded, cardVars>>

-----------------------------------------------------------------------------

Loop ==
  \/ Select \/ Read \/ Clear \/ ProcessSysMgrStatus
  \/ CheckKey \/ Ask \/ Asked

Next == Loop \/ (DriverSteps /\ UNCHANGED pmVars)

Spec == Init /\ [][Next]_vars

(* The power manager runs, and so does a report that has begun.  SF: an    *)
(* application that sets power states again and again holds the kernel     *)
(* lock only for a while each time.                                        *)
Fairness ==
  /\ SF_vars(Loop)
  /\ WF_vars((CardInserted \/ CardRemoved) /\ UNCHANGED pmVars)
  /\ WF_vars(AppReported /\ UNCHANGED pmVars)

FairSpec == Spec /\ Fairness

-----------------------------------------------------------------------------
(* Properties.                                                             *)

(* Every variable has its type.                                            *)
TypeOK ==
  /\ word \in SUBSET Events /\ copied \in SUBSET Events
  /\ usbd \in 0 .. 2
  /\ vbus \in BOOLEAN /\ vint \in BOOLEAN
  /\ cards \in 0 .. Hosts
  /\ astray \in SUBSET {"card", "usbd"}
  /\ muddled \in BOOLEAN /\ crowded \in BOOLEAN
  /\ mid \in [Reporters -> [ev : Events \cup {"none"}, seen : SUBSET Events]]
  /\ pc \in {"select", "read", "copied", "handle", "poll", "ask", "off"}
  /\ told \in [card : BOOLEAN, usbd : 0 .. 2]
  /\ held \in 0 .. KeyPolls + 1

(* Whoever reads the word knows, with what is pending, whether there is a  *)
(* card in any host, and a cable, and knows of a PC that there is: events  *)
(* that take each other back before they are read do not leave a reader    *)
(* with an earlier state.  What the reports themselves get wrong excepts   *)
(* the cards or the cable, and no more, until a read leaves the reader     *)
(* right again: a card removed while another stays in, an insert whose     *)
(* device is not added, a level of VBUS reported twice.  Two who write the *)
(* word at a time end the promise.                                         *)
Informed == ~muddled => Mistaken(Knows(told, word)) \subseteq astray


(* What a step needs to know to keep Informed: a report in the middle is   *)
(* still true, ...                                                         *)
InMiddle ==
  /\ mid["mmc"] # NoReport =>
       \/ mid["mmc"].ev = "sdin" /\ cards < Hosts
       \/ mid["mmc"].ev = "sdout" /\ cards > 0
  /\ mid["app"] # NoReport => mid["app"].ev \in PowerStates
  /\ mid["pm"] # NoReport => mid["pm"].ev \in PowerStates

(* ... and what is pending is news to those who have read the rest, which  *)
(* is why two opposite events can take each other back; but a second card  *)
(* is no news.                                                             *)
CardNews ==
  /\ "sdin" \in word => ~told.card \/ cards > 1
  /\ "sdout" \in word => told.card

UsbdNews ==
  /\ "plug" \in word => told.usbd = 0
  /\ "unplug" \in word => told.usbd # 0 /\ "plug" \notin word /\ "connect" \notin word
  /\ "connect" \in word /\ "plug" \notin word => told.usbd # 0

News ==
  ~muddled =>
    /\ "card" \notin astray => CardNews
    /\ "usbd" \notin astray => UsbdNews

IInv == TypeOK /\ InMiddle /\ News /\ Informed
=============================================================================
