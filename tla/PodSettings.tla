------------------------------- MODULE PodSettings -------------------------------
(***************************************************************************)
(* The settings of the pods, kept in three places: on the pods, in what    *)
(* the pods echoed (daemon/controlcommandstate.hpp), and in the wishes the *)
(* daemon persists (daemon/settingsreassert.hpp).  A verb reads the last   *)
(* two, writes a packet and saves the wish (daemon/main.cpp setPodSetting, *)
(* daemon/podsettings.hpp); a link that opens brings the pods' settings in *)
(* a burst, and three seconds later the sticky wishes are sent again.      *)
(*                                                                         *)
(* A setting's value is the set of what it turns on: {} or {"on"} for a    *)
(* switch, the buds that press for noise control for the stem hold.  A     *)
(* remembered value is a set of at most one value, {} when there is none.  *)
(*                                                                         *)
(* Left out: the other kinds of setting, which are switches with more      *)
(* values; a model that refuses a value; a daemon killed between the       *)
(* packet and the saved wish, after which the pods are as if another       *)
(* device had changed them.  Assumed, as settingsreassert.hpp does: the    *)
(* pods' burst has arrived three seconds after it was asked for.           *)
(***************************************************************************)
EXTENDS Integers, SequencesExt

CONSTANTS
  Settings,     \* podsettings.hpp table
  Sticky,       \* stickyIds
  Hold,         \* the stem hold, a setting per bud
  Buds,         \* left and right
  EarDetection, \* earDetectionConfigId
  Echoed,       \* the settings the pods' firmware reports
  MaxFrames     \* bound: frames under way each way

ASSUME SettingsAssumption ==
  /\ IsFiniteSet(Settings)
  /\ Sticky \subseteq Settings \ {Hold, EarDetection} /\ Echoed \subseteq Settings
  /\ {Hold, EarDetection} \subseteq Settings /\ Hold # EarDetection
ASSUME BoundAssumption == MaxFrames \in Nat \ {0}

On == {"on"}
Off == {}
Values(s) == IF s = Hold THEN SUBSET Buds ELSE {On, Off}
AnyValue == {On} \cup SUBSET Buds

\* What a verb may ask: a bud for the stem hold, a value for the rest.
Requests(s) == IF s = Hold THEN {{bud} : bud \in Buds} ELSE {On, Off}

VARIABLES
  link,     \* the control socket: "down" or "open"
  recovery, \* m_controlRecovery.isActive()
  desired,  \* the persisted wishes
  echoed,   \* m_controlCommands
  resend,   \* this link's timer for a second request of notifications
  reassert, \* this link's timer for the sticky wishes
  stale,    \* timers of earlier links are pending
  burst,    \* the pods' report on this link: "none", "asked", "read"
  pods,     \* the settings the pods hold
  quiet,    \* the pods were told to keep quiet about the ears
  toPods,   \* frames written
  toHost,   \* frames the pods sent, or that wait for parseData
  sure,     \* history: the wish was made or sent again on this link after the burst, with no
            \* frame about the setting under way, and no other device has changed it since
  forgotten \* history: a teardown has cleared the echoes under this open link

daemonVars == <<desired, echoed, resend, reassert, stale, burst>>
podsVars == <<pods, quiet>>
linkVars == <<link, recovery>>
history == <<sure, forgotten>>
vars == <<linkVars, daemonVars, podsVars, toPods, toHost, history>>

SetFrame(s, value) == [op |-> "set", id |-> s, value |-> value]
Notify(mask) == [op |-> "notify", quiet |-> mask]
Echo(s, value) == [op |-> "echo", id |-> s, value |-> value]
Burst(values) == [op |-> "burst", values |-> values]
Ack == [op |-> "ack"]

PodFrames ==
  {frame \in [op : {"set"}, id : Settings, value : AnyValue] : frame.value \in Values(frame.id)}
    \cup [op : {"notify"}, quiet : BOOLEAN]

HostFrames ==
  {frame \in [op : {"echo"}, id : Echoed, value : AnyValue] : frame.value \in Values(frame.id)}
    \cup {frame \in [op : {"burst"}, values : [Echoed -> AnyValue]] :
            \A s \in Echoed : frame.values[s] \in Values(s)}
    \cup [op : {"ack"}]

Optional(S) == {{}} \cup {{value} : value \in S}

SettingsTypeOK ==
  /\ link \in {"down", "open"}
  /\ burst \in {"none", "asked", "read"}
  /\ {desired, echoed} \subseteq [Settings -> Optional(AnyValue)]
  /\ pods \in [Settings -> AnyValue] /\ sure \in [Settings -> BOOLEAN]
  /\ \A s \in Settings :
       {desired[s], echoed[s]} \subseteq Optional(Values(s)) /\ pods[s] \in Values(s)
  /\ {recovery, resend, reassert, stale, quiet, forgotten} \subseteq BOOLEAN
  /\ toPods \in Seq(PodFrames) /\ Len(toPods) <= MaxFrames
  /\ toHost \in Seq(HostFrames) /\ Len(toHost) <= MaxFrames

NoneSure == [s \in Settings |-> FALSE]
Nothing == [s \in Settings |-> {}]

About(frames, s) ==
  \E i \in DOMAIN frames : frames[i].op \in {"set", "echo"} /\ frames[i].id = s
Reporting(frames) == \E i \in DOMAIN frames : frames[i].op \in {"notify", "burst"}

\* Neither the setting nor a report of all is under way.
Calm(s) ==
  /\ link = "open" /\ burst = "read"
  /\ ~About(toPods, s) /\ ~About(toHost, s)
  /\ ~Reporting(toPods) /\ ~Reporting(toHost)

-----------------------------------------------------------------------------
\* The daemon

\* Mutant: the wish comes before the echo.
CurrentSettingBytesOfWish(wishes, s) == IF wishes[s] # {} THEN wishes[s] ELSE echoed[s]

\* currentSettingBytes: the echo, else the wish.
CurrentSettingBytes(wishes, s) == IF echoed[s] # {} THEN echoed[s] ELSE wishes[s]

\* encode, encodeSides: a bud is added to those the setting has, or to both when none is known.
Encode(s, request) ==
  LET current == CurrentSettingBytes(desired, s) IN
  IF s # Hold THEN request
  ELSE IF current = {} THEN Buds ELSE request \cup UNION current

\* requestNotificationsPacket
RequestNotificationsPacket(wishes) ==
  Notify(CurrentSettingBytes(wishes, EarDetection) = {Off})

\* setPodSetting: a value the pods echoed is only saved; another is written, then saved.
SetPodSetting(s, request) ==
  LET value == Encode(s, request)
      wishes == [desired EXCEPT ![s] = {value}]
      frames == <<SetFrame(s, value)>> \o
                (IF s = EarDetection THEN <<RequestNotificationsPacket(wishes)>> ELSE <<>>)
  IN
  /\ \/ echoed[s] = {value} /\ UNCHANGED toPods
     \/ /\ echoed[s] # {value} /\ link = "open"
        /\ Len(toPods \o frames) <= MaxFrames
        /\ toPods' = toPods \o frames
  /\ desired' = wishes
  /\ sure' = [sure EXCEPT ![s] = Calm(s)]
  /\ UNCHANGED <<linkVars, echoed, resend, reassert, stale, burst, podsVars, toHost, forgotten>>

\* A control link opens, by the socket of a recovery, which ends with it, or of a connect, which
\* a recovery outlives.  What was read from an earlier link has long been parsed.
LinkOpens ==
  /\ link = "down" /\ toHost = <<>>
  /\ link' = "open"
  /\ recovery' \in {recovery, FALSE}
  /\ toHost' = <<Ack>>
  /\ UNCHANGED <<daemonVars, podsVars, toPods, history>>

\* scheduleControlReconnect without a link: the watchdog, an initial connect that gives up, or a
\* disconnect that BlueZ reports.
RecoveryBegins ==
  /\ link = "down" /\ ~recovery
  /\ recovery' = TRUE
  /\ UNCHANGED <<link, daemonVars, podsVars, toPods, toHost, history>>

\* attemptControlReconnect that finds the link open
FinishControlRecovery ==
  /\ link = "open" /\ recovery
  /\ recovery' = FALSE
  /\ UNCHANGED <<link, daemonVars, podsVars, toPods, toHost, history>>

\* Mutant: the handshake asks without the mask.
FeaturesAckUnmasked ==
  /\ toHost # <<>> /\ Head(toHost).op = "ack"
  /\ toHost' = Tail(toHost)
  /\ IF link = "open"
     THEN /\ Len(toPods) < MaxFrames
          /\ toPods' = Append(toPods, Notify(FALSE))
          /\ burst' = "asked"
          /\ resend' = TRUE /\ reassert' = TRUE
          /\ UNCHANGED stale
     ELSE /\ stale' = TRUE
          /\ UNCHANGED <<toPods, burst, resend, reassert>>
  /\ UNCHANGED <<linkVars, desired, echoed, podsVars, history>>

\* parseData of FEATURES_ACK: ask for the settings, and arm both timers.
FeaturesAck ==
  /\ toHost # <<>> /\ Head(toHost).op = "ack"
  /\ toHost' = Tail(toHost)
  /\ IF link = "open"
     THEN /\ Len(toPods) < MaxFrames
          /\ toPods' = Append(toPods, RequestNotificationsPacket(desired))
          /\ burst' = "asked"
          /\ resend' = TRUE /\ reassert' = TRUE
          /\ UNCHANGED stale
     ELSE /\ stale' = TRUE
          /\ UNCHANGED <<toPods, burst, resend, reassert>>
  /\ UNCHANGED <<linkVars, desired, echoed, podsVars, history>>

\* Mutant: the first echo of a setting stays.
RecordFirst ==
  /\ toHost # <<>> /\ Head(toHost).op \in {"echo", "burst"}
  /\ toHost' = Tail(toHost)
  /\ LET frame == Head(toHost) IN
     /\ echoed' = [s \in Settings |->
          IF echoed[s] # {} THEN echoed[s]
          ELSE IF frame.op = "burst" THEN (IF s \in Echoed THEN {frame.values[s]} ELSE {})
          ELSE IF frame.id = s THEN {frame.value} ELSE {}]
     /\ burst' = IF frame.op = "burst" /\ burst = "asked" THEN "read" ELSE burst
  /\ UNCHANGED <<linkVars, desired, resend, reassert, stale, podsVars, toPods, history>>

\* ControlCommandState::record, of one frame or the frames of a report.
Record ==
  /\ toHost # <<>> /\ Head(toHost).op \in {"echo", "burst"}
  /\ toHost' = Tail(toHost)
  /\ LET frame == Head(toHost) IN
     IF frame.op = "echo"
     THEN echoed' = [echoed EXCEPT ![frame.id] = {frame.value}] /\ UNCHANGED burst
     ELSE /\ echoed' = [s \in Settings |->
               IF s \in Echoed THEN {frame.values[s]} ELSE echoed[s]]
          /\ burst' = IF burst = "asked" THEN "read" ELSE burst
  /\ UNCHANGED <<linkVars, desired, resend, reassert, stale, podsVars, toPods, history>>

\* Mutant: sent again only while the pods have reported nothing.
ReassertForUnechoed(s) == s \in Sticky /\ desired[s] # {} /\ echoed[s] = {}

\* reassertFor: a sticky wish the pods are not known to hold.
ReassertFor(s) == s \in Sticky /\ desired[s] # {} /\ echoed[s] # desired[s]

\* The frames of the wishes that are due.
Due ==
  UNION {{SetFrame(s, value) : value \in desired[s]} : s \in {t \in Settings : ReassertFor(t)}}

\* reassertStickySettings
ReassertStickySettings ==
  IF link = "open"
  THEN /\ Len(toPods) + Cardinality(Due) <= MaxFrames
       /\ toPods' = toPods \o SetToSeq(Due)
  ELSE UNCHANGED toPods

\* The second request, for pods that have reported no battery yet.
ResendShot ==
  /\ resend
  /\ resend' = FALSE
  /\ \/ /\ Len(toPods) < MaxFrames
        /\ toPods' = Append(toPods, RequestNotificationsPacket(desired))
     \/ UNCHANGED toPods
  /\ UNCHANGED <<linkVars, desired, echoed, reassert, stale, burst, podsVars, toHost, history>>

\* Three seconds after the first request.
ReassertShot ==
  /\ reassert /\ ~resend
  /\ burst = "read" /\ ~Reporting(toPods) /\ ~Reporting(toHost)
  /\ reassert' = FALSE
  /\ ReassertStickySettings
  /\ sure' = [s \in Settings |->
       sure[s] \/ (s \in Sticky /\ ~About(toPods, s) /\ ~About(toHost, s))]
  /\ UNCHANGED <<linkVars, desired, echoed, resend, stale, burst, podsVars, toHost, forgotten>>

\* A timer of an earlier link, of either kind: nothing tells it the link is not its own.  It may or
\* may not be the last.
StaleShot ==
  /\ stale /\ stale' \in BOOLEAN
  /\ \/ ReassertStickySettings
     \/ /\ link = "open" /\ Len(toPods) < MaxFrames
        /\ toPods' = Append(toPods, RequestNotificationsPacket(desired))
     \/ UNCHANGED toPods
  /\ UNCHANGED <<linkVars, desired, echoed, resend, reassert, burst, podsVars, toHost, history>>

\* The link is gone: what was written is lost, what was read is still parsed, and the pods forget
\* the mask, which each handshake sends.
LinkGone ==
  /\ toPods' = <<>>
  /\ \E read \in 0 .. Len(toHost) : toHost' = SubSeq(toHost, 1, read)
  /\ burst' = "none"
  /\ stale' = (stale \/ resend \/ reassert)
  /\ resend' = FALSE /\ reassert' = FALSE
  /\ quiet' = FALSE
  /\ sure' = NoneSure /\ forgotten' = FALSE
  /\ UNCHANGED <<desired, pods>>

\* handleControlSocketLoss and onDeviceDisconnected: recovered, the echoes kept, or finalized, while
\* suspending or when the loss ends a recovery.  finalizeDeviceDisconnected does nothing if it has
\* run under this link and BlueZ has not announced the pods since.
LinkLost ==
  /\ link = "open" /\ link' = "down"
  /\ LinkGone
  /\ \/ recovery' = TRUE /\ UNCHANGED echoed
     \/ recovery' = FALSE /\ echoed' = Nothing
     \/ forgotten /\ recovery' = FALSE /\ UNCHANGED echoed

\* finalizeDeviceDisconnected, at the end of a recovery that is given up, with whatever link a
\* connect has opened beside it.
Finalized ==
  /\ recovery /\ recovery' = FALSE
  /\ echoed' = Nothing
  /\ forgotten' = (link = "open")
  /\ UNCHANGED <<link, desired, resend, reassert, stale, burst, podsVars, toPods, toHost, sure>>

\* The daemon ends and starts again: only the settings file is left.
Restart ==
  /\ link' = "down" /\ recovery' = FALSE
  /\ echoed' = Nothing
  /\ resend' = FALSE /\ reassert' = FALSE /\ stale' = FALSE
  /\ burst' = "none"
  /\ toPods' = <<>> /\ toHost' = <<>>
  /\ quiet' = FALSE
  /\ sure' = NoneSure /\ forgotten' = FALSE
  /\ UNCHANGED <<desired, pods>>

-----------------------------------------------------------------------------
\* The pods

\* A frame is obeyed, and a change of a setting the firmware reports echoed.  The first
\* report of a link comes with the sticky settings as another device has left them.
PodsServe ==
  /\ toPods # <<>> /\ Len(toHost) < MaxFrames
  /\ toPods' = Tail(toPods)
  /\ LET frame == Head(toPods) IN
     \/ /\ frame.op = "set"
        /\ pods' = [pods EXCEPT ![frame.id] = frame.value]
        /\ toHost' = IF frame.id \in Echoed /\ pods' # pods
                     THEN Append(toHost, Echo(frame.id, frame.value)) ELSE toHost
        /\ UNCHANGED quiet
     \/ /\ frame.op = "notify"
        /\ quiet' = frame.quiet
        /\ IF burst = "asked" /\ ~Reporting(toHost)
           THEN \E left \in [Sticky -> {On, Off}] :
                  pods' = [s \in Settings |-> IF s \in Sticky THEN left[s] ELSE pods[s]]
           ELSE UNCHANGED pods
        /\ toHost' = Append(toHost, Burst([s \in Echoed |-> pods'[s]]))
  /\ UNCHANGED <<linkVars, daemonVars, history>>

\* A stem, or another device, changes a setting.
PodsChange ==
  /\ Len(toHost) < MaxFrames
  /\ \E s \in Settings : \E value \in Values(s) :
       /\ pods' = [pods EXCEPT ![s] = value] /\ pods' # pods
       /\ sure' = [sure EXCEPT ![s] = FALSE]
       /\ toHost' = IF link = "open" /\ s \in Echoed THEN Append(toHost, Echo(s, value)) ELSE toHost
  /\ UNCHANGED <<linkVars, daemonVars, quiet, toPods, forgotten>>

Init ==
  /\ link = "down" /\ recovery = FALSE
  /\ desired = Nothing /\ echoed = Nothing
  /\ resend = FALSE /\ reassert = FALSE /\ stale = FALSE
  /\ burst = "none"
  /\ pods \in {held \in [Settings -> AnyValue] : \A s \in Settings : held[s] \in Values(s)}
  /\ quiet = FALSE
  /\ toPods = <<>> /\ toHost = <<>>
  /\ sure = NoneSure /\ forgotten = FALSE

Next ==
  \/ \E s \in Settings : \E request \in Requests(s) : SetPodSetting(s, request)
  \/ LinkOpens \/ RecoveryBegins \/ FinishControlRecovery
  \/ FeaturesAck \/ Record
  \/ ResendShot \/ ReassertShot \/ StaleShot
  \/ LinkLost \/ Finalized \/ Restart
  \/ PodsServe \/ PodsChange

Spec == Init /\ [][Next]_vars

-----------------------------------------------------------------------------
\* Properties

\* A wish made while nothing about its setting is under way, and a sticky wish once it has been
\* sent again, is what the pods hold when the frames have arrived, whatever earlier links,
\* timers and echoes left behind (main.cpp setPodSetting, reassertStickySettings).
WishHolds ==
  \A s \in Settings : Calm(s) /\ sure[s] /\ desired[s] # {} => desired[s] = {pods[s]}

\* "How the daemon turns echoes into truthful status keys" (knowledge/aap-control-command-echo.md):
\* what was echoed is what the pods hold, also across recoveries, which keep the echoes; and it is
\* known, unless a teardown of a recovery that was given up has cleared it under a live link.
EchoIsTruth ==
  \A s \in Echoed : Calm(s) => echoed[s] = {pods[s]} \/ (forgotten /\ echoed[s] = {})

\* "The mask follows the persisted on-bud ear detection wish, so a reconnect keeps the pods quiet
\* about the ears" (main.cpp requestNotificationsPacket): once a link has asked for notifications
\* and no such frame is under way, the pods have the mask of the wish, whichever verb, link or
\* process that wish is of.
MaskFollowsWish ==
  /\ link = "open" /\ burst # "none"
  /\ \A i \in DOMAIN toPods : toPods[i].op # "notify"
  => quiet = (desired[EarDetection] = {Off})

\* "the other bud keeps its setting" (podsettings.hpp table): a verb about one bud, made while
\* nothing about the hold is under way, asks for what the pods hold and that bud, if they told what
\* they hold or were sent a wish that nothing has changed since.
OtherBudKept ==
  Calm(Hold) /\ (echoed[Hold] # {} \/ (sure[Hold] /\ desired[Hold] # {}))
  => \A bud \in Buds : Encode(Hold, {bud}) = pods[Hold] \cup {bud}

=============================================================================
