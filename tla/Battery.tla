------------------------------- MODULE Battery -------------------------------
(***************************************************************************)
(* What the daemon knows of the pods' batteries, in the three forms it     *)
(* keeps it: a record per source (battery.hpp), written by the battery     *)
(* frames of the control link and by BLE advertisements; the levels as     *)
(* last published (deviceinfo.hpp m_batteryStatus), which follow the       *)
(* records on a battery frame only; and a low-battery latch per source     *)
(* (lowbatterywatcher.hpp), evaluated only when what is published changes. *)
(*                                                                         *)
(* Each operator constrains the variables it owns, and the callback that   *)
(* calls it (Notices.tla) the rest.  Charging stands for optimized         *)
(* charging too, which is charging to every reader here.  AirPods Max,     *)
(* whose one battery has no latch, and which pod is the primary one are    *)
(* left out.                                                               *)
(***************************************************************************)
EXTENDS Integers

CONSTANTS
  Buds,    \* the pods of the pair
  Levels,  \* percents that are reported
  NoText   \* the empty status text

ASSUME BatteryAssumption ==
  /\ Levels \subseteq 0 .. 100 /\ 0 \in Levels
  /\ NoText \notin [Buds \cup {"case"} -> Levels]

VARIABLES
  battery,  \* Battery::states
  text,     \* m_batteryStatus, as the levels it is made of
  notified  \* m_notified of the latches

batteryVars == <<battery, text, notified>>

Sources == Buds \cup {"case"}

Readings == [level : Levels, status : {"discharging", "charging"}]

\* A BatteryState never written: level 0, unavailable.
Unheard == [level |-> 0, status |-> "disconnected"]

Records == Readings \cup {Unheard}

\* A byte of the broadcast that says 127, or a nibble that says 15.
Unknown == [level |-> -1, status |-> "unknown"]

\* LowBatteryLatch's defaults
Trigger == 10
ResetLevel == 15

BatteryTypeOK ==
  /\ battery \in [Sources -> Records]
  /\ text = NoText \/ text \in [Sources -> Levels]
  /\ notified \in [Sources -> BOOLEAN]

-----------------------------------------------------------------------------
\* LowBatteryLatch

Charging(record) == record.status = "charging"
Low(record) == record.status = "discharging" /\ record.level <= Trigger
Recovered(record) == Charging(record) \/ (record.status = "discharging" /\ record.level >= ResetLevel)

\* evaluate: it notifies when this raises the latch.  An unavailable source keeps its latch.
Evaluate(latch, record) == Low(record) \/ (latch /\ ~Recovered(record))

-----------------------------------------------------------------------------
\* Battery

\* parsePacket: a source the pods report as disconnected keeps its last record.  A frame that is
\* refused changes no record, as one that reports every source as disconnected.
ParsePacket(frame) ==
  battery' = [s \in Sources |-> IF frame[s] = Unheard THEN battery[s] ELSE frame[s]]

\* "Use last valid level" for a byte that says unknown; the status that is kept is a charging bit,
\* so a source that was never heard of is now discharging, at 0.
LastOr(record, reading) ==
  IF reading # Unknown THEN reading
  ELSE [level |-> record.level, status |-> IF Charging(record) THEN "charging" ELSE "discharging"]

\* parseEncryptedPacket: a payload's 0 for the case is believed only while a pod is docked in it.
Decrypted(records, payload) ==
  LET case == LastOr(records["case"], payload.case) IN
  [s \in Sources |->
     IF s # "case" THEN LastOr(records[s], payload.buds[s])
     ELSE IF case.level > 0 \/ payload.docked THEN case ELSE records["case"]]

\* setCaseFromBle
WithCase(records, nibble) ==
  IF nibble = Unknown THEN records ELSE [records EXCEPT !["case"] = nibble]

Frames == [Sources -> Records]
Nibbles == Readings \cup {Unknown}
Payloads == [buds : [Buds -> Nibbles], case : Nibbles, docked : BOOLEAN]

\* The records after an advertisement.  Its payload may fail to decrypt; its case nibble, when
\* known, has the last word.
Advertised(records) ==
  {WithCase(told, nibble) :
     told \in {records} \cup {Decrypted(records, payload) : payload \in Payloads}, nibble \in Nibbles}

-----------------------------------------------------------------------------
\* DeviceInfo

LevelsOf(records) == [s \in Sources |-> records[s].level]

\* checkLowBatteryThresholds
CheckLowBatteryThresholds ==
  notified' = [s \in Sources |-> Evaluate(notified[s], battery'[s])]

\* Mutant: the first text of a session is not announced.
UpdateBatteryStatusLate ==
  /\ text' = LevelsOf(battery')
  /\ IF text' = text \/ text = NoText THEN UNCHANGED notified ELSE CheckLowBatteryThresholds

\* updateBatteryStatus, after the records: only a text that changes is announced.
UpdateBatteryStatus ==
  /\ text' = LevelsOf(battery')
  /\ IF text' = text THEN UNCHANGED notified ELSE CheckLowBatteryThresholds

\* Mutant: the latches start anew with each session.
ResetWithLatches ==
  /\ battery' = [s \in Sources |-> Unheard]
  /\ text' = NoText
  /\ notified' = [s \in Sources |-> FALSE]

\* reset: the text it clears is announced, when no source is available to a latch any more.
ResetBattery ==
  /\ battery' = [s \in Sources |-> Unheard]
  /\ text' = NoText
  /\ IF text' = text THEN UNCHANGED notified ELSE CheckLowBatteryThresholds

BatteryInit ==
  /\ battery = [s \in Sources |-> Unheard]
  /\ text = NoText
  /\ notified = [s \in Sources |-> FALSE]

=============================================================================
