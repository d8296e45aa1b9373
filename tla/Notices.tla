------------------------------- MODULE Notices -------------------------------
(***************************************************************************)
(* When the daemon tells the user something of the pods (daemon/main.cpp): *)
(* that a battery is low, that the pods connected and with what charge.    *)
(* Composes Battery.tla with what those notices hang on: BlueZ's           *)
(* announcements, the control link and its recovery, and the teardown.     *)
(* What brings the link up, loses it and ends its recovery is              *)
(* ControlLink.tla; here each may happen whenever it may there, for one    *)
(* pair.                                                                   *)
(*                                                                         *)
(* Left out: the switches that mute notices, which are asked last, when    *)
(* everything below is decided; the helper process that shows them; the    *)
(* card of a lid that opens, which shares the connect banner's text; and   *)
(* the toast of a teardown.                                                *)
(***************************************************************************)
EXTENDS Battery

VARIABLES
  linkUp,      \* areAirpodsConnected
  finalized,   \* m_disconnectFinalized
  eligible,    \* m_bannerEligible
  pending,     \* m_connectedBannerPending
  \* history
  recovered,   \* sources recorded as charging or well charged since they were last warned of
  excused,     \* sources that were not low when the text last changed
  credit       \* connects announced without their banner, counted up to MaxCredit

linkVars == <<linkUp, finalized>>
bannerVars == <<eligible, pending, credit>>
batteryHistory == <<recovered, excused>>
vars == <<batteryVars, batteryHistory, linkVars, bannerVars>>

\* The banners that can be under way at once: one eligible, one pending.
MaxCredit == 2

NoticesTypeOK ==
  /\ BatteryTypeOK
  /\ {linkUp, finalized, eligible, pending} \subseteq BOOLEAN
  /\ recovered \subseteq Sources /\ excused \subseteq Sources
  /\ credit \in 0 .. MaxCredit

\* The latch of s asks for a notice in this step.
Warns(s) == ~notified[s] /\ notified'[s]

\* The histories of a step that writes the records.
Remember ==
  /\ recovered' = {s \in Sources : Recovered(battery'[s]) \/ (s \in recovered /\ ~Warns(s))}
  /\ excused' = IF text' = text THEN excused ELSE {s \in Sources : ~Low(battery'[s])}

batteryUnchanged == UNCHANGED <<batteryVars, batteryHistory>>

-----------------------------------------------------------------------------
\* BlueZ and the control link

\* bluezDeviceConnected, in the flagged sweeps of start-up and resume (onSystemWakingUp) or outside
\* them.  A pair that is connected already is announced again as its services resolve;
\* connectToDevice then keeps the link.  The watchdog's sweep is not flagged.
DeviceConnected ==
  /\ \E inSweep \in BOOLEAN :
       /\ eligible' = ~inSweep
       /\ credit' = IF inSweep \/ credit = MaxCredit THEN credit ELSE credit + 1
  /\ finalized' = FALSE
  /\ batteryUnchanged /\ UNCHANGED <<linkUp, pending>>

\* handleConnection
LinkOpens ==
  /\ ~linkUp
  /\ linkUp' = TRUE
  /\ finalized' = FALSE
  /\ batteryUnchanged /\ UNCHANGED bannerVars

\* Mutant: a connect stays eligible when its banner has been armed.
ArmBannerAgain == pending' = eligible /\ UNCHANGED eligible

\* A link that is recovered finds the eligibility spent.
ArmBanner == pending' = eligible /\ eligible' = FALSE

\* parseData, FEATURES_ACK
FeaturesAck ==
  /\ linkUp
  /\ ArmBanner
  /\ batteryUnchanged /\ UNCHANGED <<linkVars, credit>>

\* finalizeDeviceDisconnected, at most once per outage
FinalizeDeviceDisconnected ==
  \/ finalized /\ batteryUnchanged /\ UNCHANGED <<finalized, bannerVars>>
  \/ /\ ~finalized
     /\ finalized' = TRUE
     /\ ResetBattery
     /\ Remember
     /\ pending' = FALSE
     /\ UNCHANGED <<eligible, credit>>

\* scheduleControlReconnect, when the link is lost, when BlueZ reports the pair gone, when the
\* initial connects are used up and from the watchdog: a teardown at once while the machine
\* suspends, and a recovery otherwise.
ScheduleControlReconnect ==
  /\ linkUp' = FALSE
  /\ \/ FinalizeDeviceDisconnected
     \/ finalized' = FALSE /\ batteryUnchanged /\ UNCHANGED bannerVars

\* The recovery is given up.  Its last probe may be overtaken by a link that a retry of the initial
\* connect has opened beside it (ControlLink.tla FinalizedMeansGone).
RecoveryFails ==
  /\ ~finalized
  /\ FinalizeDeviceDisconnected
  /\ UNCHANGED linkUp

-----------------------------------------------------------------------------
\* Battery reports

\* showBatteryBanner: there is nothing to say of a pair whose sources are all unavailable.
ShowsBanner == pending /\ \E s \in Sources : battery'[s] # Unheard

\* parseData, BATTERY_STATUS, and the banner that waits for it
BatteryFrame ==
  /\ linkUp
  /\ \E frame \in Frames : ParsePacket(frame)
  /\ UpdateBatteryStatus
  /\ Remember
  /\ pending' = FALSE
  /\ credit' = IF ShowsBanner /\ credit > 0 THEN credit - 1 ELSE credit
  /\ UNCHANGED <<linkVars, eligible>>

\* bleDeviceFound, of an advertisement of this pair.  The text is not published anew.
BleDeviceFound ==
  /\ battery' \in Advertised(battery)
  /\ UNCHANGED <<text, notified>>
  /\ Remember
  /\ UNCHANGED <<linkVars, bannerVars>>

Init ==
  /\ BatteryInit
  /\ linkUp = FALSE /\ finalized = FALSE
  /\ eligible = FALSE /\ pending = FALSE /\ credit = 0
  /\ recovered = Sources /\ excused = Sources

Next ==
  \/ DeviceConnected \/ LinkOpens \/ FeaturesAck
  \/ ScheduleControlReconnect \/ RecoveryFails
  \/ BatteryFrame \/ BleDeviceFound

Spec == Init /\ [][Next]_vars

-----------------------------------------------------------------------------
\* Between two low-battery notices of one source it has been recorded as charging, or at 15 percent
\* and more: not a reconnect, a teardown, a source that drops out, noise around the threshold or an
\* advertisement brings the notice back (lowbatterywatcher.hpp, main.cpp checkLowBatteryThresholds).
NoNagging == [][\A s \in Sources : Warns(s) => s \in recovered]_vars

\* A source that is low, as published, has been warned of, unless it was on the charger or out of
\* reach when that text was published: the latches are not evaluated again until a level changes.
LowIsWarned ==
  \A s \in Sources :
    text # NoText /\ Low(battery[s]) /\ text[s] = battery[s].level => notified[s] \/ s \in excused

\* "Only a connect BlueZ announced earns the banner" (main.cpp bluezDeviceConnected): never more
\* banners than announcements, however often the link behind one is lost and recovered, and none
\* for the sweeps of start-up and resume.
BannerIsEarned == [][BatteryFrame /\ ShowsBanner => credit > 0]_vars

=============================================================================
