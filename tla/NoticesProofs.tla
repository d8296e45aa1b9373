---------------------------- MODULE NoticesProofs ----------------------------
(***************************************************************************)
(* Notices.tla for any pods and any levels.  Both histories of a source    *)
(* bound its latch from below, by an argument that looks at the writers of *)
(* the latch only (LatchSteps): one that has not recovered since it was    *)
(* warned of, or that was low when the text last changed, has it up.  The  *)
(* banners under way are counted against the announcements.                *)
(***************************************************************************)
EXTENDS Notices, TLAPS

\* A source without the history that excuses it has its latch up.
LatchHolds == \A s \in Sources : s \notin recovered \/ s \notin excused => notified[s]

\* A banner that is eligible and one that is pending are of two announcements.
BannersCovered ==
  /\ eligible \/ pending => credit >= 1
  /\ eligible /\ pending => credit >= 2

IInv == NoticesTypeOK /\ LatchHolds /\ BannersCovered

-----------------------------------------------------------------------------
\* What the records become

\* A byte that says unknown takes a level that was reported, or the 0 of a source never heard of.
LEMMA LastOrIsReading ==
  ASSUME NEW record \in Records, NEW reading \in Readings \cup {Unknown}
  PROVE  LastOr(record, reading) \in Readings
<1>1. record.level \in Levels
  BY BatteryAssumption DEF Records, Readings, Unheard
<1>. QED BY <1>1 DEF LastOr, Charging, Readings

\* The records stay records under an advertisement, whether or not its payload decrypts.
LEMMA AdvertisedAreRecords ==
  ASSUME battery \in [Sources -> Records], NEW told \in Advertised(battery)
  PROVE  told \in [Sources -> Records]
<1>1. PICK heard \in {battery} \cup {Decrypted(battery, payload) : payload \in Payloads},
           nibble \in Nibbles : told = WithCase(heard, nibble)
  BY DEF Advertised
<1>2. heard \in [Sources -> Records]
  <2>1. ASSUME NEW payload \in Payloads
        PROVE  Decrypted(battery, payload) \in [Sources -> Records]
    <3>1. /\ payload.case \in Readings \cup {Unknown}
          /\ payload.buds \in [Buds -> Readings \cup {Unknown}]
      BY DEF Payloads, Nibbles
    <3>2. LastOr(battery["case"], payload.case) \in Records /\ battery["case"] \in Records
      BY <3>1, LastOrIsReading DEF Sources, Records
    <3>3. ASSUME NEW s \in Sources, s # "case"
          PROVE  LastOr(battery[s], payload.buds[s]) \in Records
      <4>1. s \in Buds
        BY <3>3 DEF Sources
      <4>. QED BY <3>1, <4>1, LastOrIsReading DEF Records
    <3>. QED BY <3>2, <3>3 DEF Decrypted
  <2>. QED BY <2>1
<1>. QED BY <1>1, <1>2 DEF WithCase, Nibbles, Records

\* The types of what a step that writes the records leaves behind.
LEMMA BatteryTypes ==
  ASSUME NoticesTypeOK, battery' \in [Sources -> Records], Remember,
         UpdateBatteryStatus \/ ResetBattery \/ UNCHANGED <<text, notified>>
  PROVE  BatteryTypeOK' /\ recovered' \subseteq Sources /\ excused' \subseteq Sources
<1>1. recovered' \subseteq Sources /\ excused' \subseteq Sources
  BY DEF Remember, NoticesTypeOK
<1>2. LevelsOf(battery') \in [Sources -> Levels]
  BY BatteryAssumption DEF LevelsOf, Records, Readings, Unheard
<1>3. text' = NoText \/ text' \in [Sources -> Levels]
  BY <1>2 DEF UpdateBatteryStatus, ResetBattery, NoticesTypeOK, BatteryTypeOK
<1>4. notified' \in [Sources -> BOOLEAN]
  BY DEF UpdateBatteryStatus, ResetBattery, CheckLowBatteryThresholds, Evaluate, Low, Recovered,
         NoticesTypeOK, BatteryTypeOK
<1>. QED BY <1>1, <1>3, <1>4 DEF BatteryTypeOK

-----------------------------------------------------------------------------
\* The latches

\* The three ways a step may treat the latches: look at all of them when the text changes, or at
\* none.
LEMMA LatchSteps ==
  ASSUME IInv, Remember,
         UpdateBatteryStatus \/ ResetBattery \/ UNCHANGED <<text, notified>>
  PROVE  LatchHolds'
<1>. SUFFICES ASSUME NEW s \in Sources, s \notin recovered' \/ s \notin excused'
              PROVE  notified'[s]
  BY DEF LatchHolds
<1>1. \/ text' = text /\ notified' = notified
      \/ text' # text /\ notified' = [r \in Sources |-> Evaluate(notified[r], battery'[r])]
  BY DEF UpdateBatteryStatus, ResetBattery, CheckLowBatteryThresholds
<1>2. CASE text' = text /\ notified' = notified
  BY <1>2 DEF Remember, Warns, IInv, LatchHolds
<1>3. CASE text' # text /\ notified'[s] = Evaluate(notified[s], battery'[s])
  BY <1>3 DEF Remember, Warns, Evaluate, IInv, LatchHolds
<1>. QED BY <1>1, <1>2, <1>3

\* A step that leaves the batteries alone leaves their part of the invariant.
LEMMA BatteryKept ==
  ASSUME IInv, batteryUnchanged
  PROVE  /\ LatchHolds' /\ BatteryTypeOK'
         /\ recovered' \subseteq Sources /\ excused' \subseteq Sources
BY DEF batteryUnchanged, batteryVars, batteryHistory, IInv, LatchHolds, NoticesTypeOK, BatteryTypeOK

-----------------------------------------------------------------------------
\* The invariant

\* Each step, under its effect on the batteries, the link and the banners.
LEMMA StepKeepsInvariant ==
  ASSUME IInv, [Next]_vars
  PROVE  IInv'
<1>. USE DEF IInv
<1>1. ASSUME FinalizeDeviceDisconnected, linkUp' \in BOOLEAN
      PROVE  IInv'
  <2>1. CASE finalized /\ batteryUnchanged /\ UNCHANGED <<finalized, bannerVars>>
    BY <1>1, <2>1, BatteryKept DEF NoticesTypeOK, BannersCovered, bannerVars
  <2>2. CASE /\ ResetBattery /\ Remember
             /\ finalized' = TRUE /\ pending' = FALSE /\ UNCHANGED <<eligible, credit>>
    <3>1. battery' \in [Sources -> Records]
      BY <2>2 DEF ResetBattery, Records
    <3>. QED BY <1>1, <2>2, <3>1, BatteryTypes, LatchSteps DEF NoticesTypeOK, BannersCovered
  <2>. QED BY <1>1, <2>1, <2>2 DEF FinalizeDeviceDisconnected
<1>2. CASE DeviceConnected
  <2>1. PICK inSweep \in BOOLEAN :
          /\ eligible' = ~inSweep
          /\ credit' = IF inSweep \/ credit = MaxCredit THEN credit ELSE credit + 1
    BY <1>2 DEF DeviceConnected
  <2>2. credit' \in 0 .. MaxCredit /\ (eligible' => credit' >= 1) /\ credit' >= credit
        /\ (eligible' /\ credit >= 1 => credit' >= 2)
    <3>1. credit \in 0 .. 2
      BY DEF NoticesTypeOK, MaxCredit
    <3>2. CASE inSweep
      <4>1. ~eligible' /\ credit' = credit
        BY <2>1, <3>2
      <4>. QED BY <3>1, <4>1 DEF MaxCredit
    <3>3. CASE ~inSweep
      <4>1. credit' = IF credit = 2 THEN credit ELSE credit + 1
        BY <2>1, <3>3 DEF MaxCredit
      <4>. QED BY <3>1, <4>1 DEF MaxCredit
    <3>. QED BY <3>2, <3>3
  <2>. QED BY <1>2, <2>1, <2>2, BatteryKept DEF DeviceConnected, NoticesTypeOK, BannersCovered, MaxCredit
<1>3. CASE LinkOpens
  BY <1>3, BatteryKept DEF LinkOpens, NoticesTypeOK, BannersCovered, bannerVars
<1>4. CASE FeaturesAck
  BY <1>4, BatteryKept DEF FeaturesAck, ArmBanner, NoticesTypeOK, BannersCovered, linkVars
<1>5. CASE ScheduleControlReconnect
  <2>1. CASE finalized' = FALSE /\ batteryUnchanged /\ UNCHANGED bannerVars
    BY <1>5, <2>1, BatteryKept
    DEF ScheduleControlReconnect, NoticesTypeOK, BannersCovered, bannerVars
  <2>. QED BY <1>1, <1>5, <2>1 DEF ScheduleControlReconnect
<1>6. CASE RecoveryFails
  BY <1>1, <1>6 DEF RecoveryFails, NoticesTypeOK
<1>7. CASE BatteryFrame
  <2>1. battery' \in [Sources -> Records]
    BY <1>7 DEF BatteryFrame, ParsePacket, Frames, NoticesTypeOK, BatteryTypeOK
  <2>2. credit' \in 0 .. MaxCredit /\ (eligible => credit' >= 1)
    BY <1>7 DEF BatteryFrame, ShowsBanner, NoticesTypeOK, BannersCovered, MaxCredit
  <2>. QED
    BY <1>7, <2>1, <2>2, BatteryTypes, LatchSteps
    DEF BatteryFrame, NoticesTypeOK, BannersCovered, linkVars
<1>8. CASE BleDeviceFound
  <2>1. battery' \in [Sources -> Records]
    BY <1>8, AdvertisedAreRecords DEF BleDeviceFound, NoticesTypeOK, BatteryTypeOK
  <2>. QED
    BY <1>8, <2>1, BatteryTypes, LatchSteps
    DEF BleDeviceFound, NoticesTypeOK, BannersCovered, linkVars, bannerVars
<1>9. CASE UNCHANGED vars
  <2>1. batteryUnchanged
    BY <1>9 DEF vars, batteryUnchanged
  <2>. QED
    BY <1>9, <2>1, BatteryKept DEF vars, linkVars, bannerVars, NoticesTypeOK, BannersCovered
<1>. QED BY <1>2, <1>3, <1>4, <1>5, <1>6, <1>7, <1>8, <1>9 DEF Next

\* Nothing is excused by a history that has not begun: every source starts with both.
LEMMA InitInvariant == Init => IInv
<1>. SUFFICES ASSUME Init PROVE IInv
  OBVIOUS
<1>1. BatteryTypeOK
  BY DEF Init, BatteryInit, BatteryTypeOK, Records
<1>2. NoticesTypeOK
  <2>1. {linkUp, finalized, eligible, pending} \subseteq BOOLEAN
    BY DEF Init
  <2>2. credit \in 0 .. MaxCredit
    BY DEF Init, MaxCredit
  <2>. QED BY <1>1, <2>1, <2>2 DEF Init, NoticesTypeOK
<1>3. LatchHolds
  BY DEF Init, LatchHolds
<1>4. BannersCovered
  BY DEF Init, BannersCovered
<1>. QED BY <1>2, <1>3, <1>4 DEF IInv

THEOREM NoticesInvariant == Spec => []IInv
BY InitInvariant, StepKeepsInvariant, PTL DEF Spec

-----------------------------------------------------------------------------
\* The theorems

\* Every variable keeps its type.
THEOREM NoticesTypeCorrect == Spec => []NoticesTypeOK
<1>1. IInv => NoticesTypeOK
  BY DEF IInv
<1>. QED BY <1>1, NoticesInvariant, PTL

\* checkLowBatteryThresholds never repeats itself: a latch that comes up was down, so its source
\* had recovered.
THEOREM NeverNags == Spec => NoNagging
<1>1. IInv /\ [Next]_vars => [\A s \in Sources : Warns(s) => s \in recovered]_vars
  BY DEF IInv, LatchHolds, Warns
<1>. QED BY <1>1, NoticesInvariant, PTL DEF Spec, NoNagging

\* What was low when the text last changed has been warned of.
THEOREM LowIsAlwaysWarned == Spec => []LowIsWarned
<1>1. IInv => LowIsWarned
  BY DEF IInv, LatchHolds, LowIsWarned
<1>. QED BY <1>1, NoticesInvariant, PTL

\* No announcement is shown twice.
THEOREM BannersAreEarned == Spec => BannerIsEarned
<1>1. IInv /\ [Next]_vars => [BatteryFrame /\ ShowsBanner => credit > 0]_vars
  BY DEF IInv, BannersCovered, ShowsBanner, NoticesTypeOK, MaxCredit
<1>. QED BY <1>1, NoticesInvariant, PTL DEF Spec, BannerIsEarned

=============================================================================
