---------------------------------- MODULE Panel ----------------------------------
(***************************************************************************)
(* The shell panel (Service.qml, Model.js) and what stands between it and  *)
(* the pods: librepods-ctl, one process per verb; the daemon's local       *)
(* socket and the setters behind it; and the state file the daemon writes  *)
(* when its status has changed (daemon/main.cpp).  A click is shown at     *)
(* once and held, its verb runs when the verbs before it have ended, and   *)
(* what the file says of the field is shown again when it agrees with the  *)
(* click, when the verb is refused, or when four seconds have passed.      *)
(*                                                                         *)
(* A field of the status is a value.  Left out: what the panel shows that  *)
(* cannot be clicked; a file of another schema, which this daemon does not *)
(* write; a file that cannot be written.  A hold outlives the verb it was  *)
(* placed for, since librepods-ctl ends within 2 s and a hold lasts 4 s.   *)
(***************************************************************************)
EXTENDS Integers, Sequences

CONSTANTS
  Fields, Values,  \* what can be clicked, and to what
  Reported,        \* the fields the daemon changes when the pods report them; the rest at once
  NoValue, NoItem, NoFile,
  MaxClicks,       \* bound: clicks in a behavior
  MaxDisturbances  \* bound: ends of the daemon, changes the panel did not ask for, and give-ups

ASSUME PanelAssumption ==
  /\ Reported \subseteq Fields
  /\ Values # {} /\ NoValue \notin Values
  /\ NoItem \notin [field : Fields, value : Values]
ASSUME BoundsAssumption == MaxClicks \in Nat /\ MaxDisturbances \in Nat

VARIABLES
  \* the daemon and the pods
  up,          \* the process runs
  status,      \* what statusJson reads
  packets,     \* what was written to the pods and not reported yet, in order
  file,        \* status.json
  published,   \* m_lastState is not empty: this process has written the file
  late,        \* verbs in sockets whose librepods-ctl has ended
  \* the panel
  holds,       \* _pending
  overdue,     \* the holds whose untilMs has passed
  settleTimer, \* it runs
  shown,       \* the values on display
  queue,       \* _queue
  inFlight,    \* _inFlight
  command,     \* commandProcess: "none", "running", or its exit, "ok" or "error"
  changed,     \* a file change not noticed yet
  reading,     \* a reload under way
  reachable,   \* daemonReachable
  unanswered,  \* history: the last click on a field whose verb has not ended
  clicks, disturbances

daemonVars == <<up, status, packets, file, published, late>>
holdVars == <<holds, overdue, settleTimer, shown>>
panelVars == <<holdVars, queue, inFlight, command, changed, reading, reachable, unanswered>>
vars == <<daemonVars, panelVars, clicks, disturbances>>

Items == [field : Fields, value : Values]
Optional(S) == S \cup {NoValue}
Statuses == [Fields -> Values]

PanelTypeOK ==
  /\ {up, published, settleTimer, changed, reading, reachable} \subseteq BOOLEAN
  /\ status \in Statuses /\ shown \in Statuses /\ (file = NoFile \/ file \in Statuses)
  /\ holds \in [Fields -> Optional(Values)] /\ unanswered \in [Fields -> Optional(Values)]
  /\ late \subseteq Items /\ overdue \subseteq Fields
  /\ queue \in Seq(Items) /\ packets \in Seq(Items)
  /\ inFlight = NoItem \/ inFlight \in Items
  /\ command \in {"none", "running", "ok", "error"}
  /\ clicks \in 0 .. MaxClicks /\ disturbances \in 0 .. MaxDisturbances

Nothing == [f \in Fields |-> NoValue]

\* What a process starts with, before it has heard of the pods; the panel starts with the same.
DefaultStatus == [f \in Fields |-> CHOOSE v \in Values : TRUE]

-----------------------------------------------------------------------------
\* Model.js

Held(pending, f) == pending[f] # NoValue

\* earliestUntilMs: some hold is left to end.
AnyHold(pending) == \E f \in Fields : Held(pending, f)

PendingAfter(pending, item) == [pending EXCEPT ![item.field] = item.value]
DropHold(pending, f) == [pending EXCEPT ![f] = NoValue]

\* settle, settlePodSettings: a hold ends when the daemon reports its value or its time is up.
Settle(pending, reported) ==
  [f \in Fields |-> IF pending[f] = reported[f] \/ f \in overdue THEN NoValue ELSE pending[f]]

QueuedAt(items, f) == {n \in DOMAIN items : items[n].field = f}

\* Mutant: a click on a field already waiting is taken for a repeat.
EnqueueFirst(items, item) ==
  IF QueuedAt(items, item.field) # {} THEN items ELSE Append(items, item)

\* enqueue: a repeat for a field already waiting replaces it in place.
Enqueue(items, item) ==
  IF QueuedAt(items, item.field) = {} THEN Append(items, item)
  ELSE [n \in DOMAIN items |-> IF items[n].field = item.field THEN item ELSE items[n]]

-----------------------------------------------------------------------------
\* The daemon

\* statusJson: one snapshot for the socket and for the file.
StatusJson == status

\* setNoiseControlMode: a mode other than the reported one goes to the pods, which report it.
SetWithReport(item) ==
  /\ packets' = IF status[item.field] = item.value THEN packets ELSE Append(packets, item)
  /\ UNCHANGED status

\* setConversationalAwareness, setOneBudANCMode: the value is stored as the packet goes out.
SetAtOnce(item) == status' = [status EXCEPT ![item.field] = item.value] /\ UNCHANGED packets

\* The verbs' dispatch: a setter applies the verb, or refuses it and changes nothing.
Apply(item) == IF item.field \in Reported THEN SetWithReport(item) ELSE SetAtOnce(item)
Refuse == UNCHANGED <<status, packets>>

\* The daemon reads the verb of the librepods-ctl that runs.
AnswerVerb ==
  /\ up /\ command = "running"
  /\ \/ Apply(inFlight) /\ command' = "ok"
     \/ Refuse /\ command' = "error"
  /\ UNCHANGED <<up, file, published, late, holdVars, queue, inFlight, changed, reading,
                 reachable, unanswered, clicks, disturbances>>

\* The daemon, busy until now, reads a verb nobody waits for.
AnswerLateVerb ==
  /\ up
  /\ \E item \in late : late' = late \ {item} /\ (Apply(item) \/ Refuse)
  /\ UNCHANGED <<up, file, published, panelVars, clicks, disturbances>>

\* The pods report what they took, and ignore what they lack without a reply.
PodsReport ==
  /\ up /\ packets # <<>>
  /\ packets' = Tail(packets)
  /\ status' \in {[status EXCEPT ![Head(packets).field] = Head(packets).value], status}
  /\ UNCHANGED <<up, file, published, late, panelVars, clicks, disturbances>>

\* A stem, the tray, another client or a lost link changes the status.
StatusChanges ==
  /\ up /\ disturbances < MaxDisturbances
  /\ \E f \in Fields : \E v \in Values \ {status[f]} : status' = [status EXCEPT ![f] = v]
  /\ disturbances' = disturbances + 1
  /\ UNCHANGED <<up, packets, file, published, late, panelVars, clicks>>

\* writeStateFile, every second: only what differs from the last line is written.
WriteStateFile ==
  /\ up /\ (~published \/ file # StatusJson)
  /\ file' = StatusJson
  /\ published' = TRUE /\ changed' = TRUE
  /\ UNCHANGED <<up, status, packets, late, holdVars, queue, inFlight, command, reading,
                 reachable, unanswered, clicks, disturbances>>

\* The server answers: no other instance does (main's guard), and the status is of a new process.
DaemonStarts ==
  /\ ~up
  /\ up' = TRUE /\ published' = FALSE
  /\ status' = DefaultStatus
  /\ UNCHANGED <<packets, file, late, panelVars, clicks, disturbances>>

\* What the end of the process does to sockets and to the link: a verb that was sent and not read
\* sees a clean close, which librepods-ctl takes for a yes; one not sent yet will find nobody.
ProcessEnds ==
  /\ up /\ disturbances < MaxDisturbances
  /\ up' = FALSE
  /\ packets' = <<>> /\ late' = {}
  /\ command' \in (IF command = "running" THEN {"running", "ok"} ELSE {command})
  /\ disturbances' = disturbances + 1
  /\ UNCHANGED <<status, published, holdVars, queue, inFlight, reading, reachable, unanswered,
                 clicks>>

\* aboutToQuit removes the file.
DaemonQuits == ProcessEnds /\ file' = NoFile /\ changed' = TRUE

\* A crash or a SIGKILL leaves it.
DaemonDies == ProcessEnds /\ UNCHANGED <<file, changed>>

-----------------------------------------------------------------------------
\* librepods-ctl

CannotConnect ==
  /\ ~up /\ command = "running"
  /\ command' = "error"
  /\ UNCHANGED <<daemonVars, holdVars, queue, inFlight, changed, reading, reachable, unanswered,
                 clicks, disturbances>>

\* No reply within a second: the verb stays in the socket.
GivesUp ==
  /\ up /\ command = "running" /\ disturbances < MaxDisturbances
  /\ late' = late \cup {inFlight}
  /\ command' = "error"
  /\ disturbances' = disturbances + 1
  /\ UNCHANGED <<up, status, packets, file, published, holdVars, queue, inFlight, changed,
                 reading, reachable, unanswered, clicks>>

-----------------------------------------------------------------------------
\* Service.qml

Start(item) == inFlight' = item /\ command' = "running"
Runs(f) == inFlight # NoItem /\ inFlight.field = f

\* _send: the value is held and shown; the verb runs now, or waits for the one that runs.
Click ==
  /\ clicks < MaxClicks
  /\ \E item \in Items :
       /\ holds' = PendingAfter(holds, item)
       /\ overdue' = overdue \ {item.field}
       /\ settleTimer' = TRUE
       /\ shown' = [shown EXCEPT ![item.field] = item.value]
       /\ unanswered' = PendingAfter(unanswered, item)
       /\ IF inFlight = NoItem
          THEN Start(item) /\ UNCHANGED queue
          ELSE queue' = Enqueue(queue, item) /\ UNCHANGED <<inFlight, command>>
  /\ clicks' = clicks + 1
  /\ UNCHANGED <<daemonVars, changed, reading, reachable, disturbances>>

\* Mutant: a refused verb leaves the display to the next change of the file.
RereadsNever == FALSE

\* onExited reads the file again after a refusal.
Rereads == command = "error"

\* onExited: a refusal ends the hold of its field; then the oldest waiting verb runs, held anew.
CommandExits ==
  /\ command \in {"ok", "error"}
  /\ LET kept == IF command = "error" THEN DropHold(holds, inFlight.field) ELSE holds
         ended == IF command = "error" THEN {inFlight.field} ELSE {}
     IN IF queue = <<>>
        THEN /\ holds' = kept /\ overdue' = overdue \ ended
             /\ inFlight' = NoItem /\ command' = "none"
             /\ UNCHANGED queue
        ELSE /\ holds' = PendingAfter(kept, Head(queue))
             /\ overdue' = (overdue \ ended) \ {Head(queue).field}
             /\ Start(Head(queue))
             /\ queue' = Tail(queue)
  /\ settleTimer' = IF command = "error" \/ queue # <<>> THEN AnyHold(holds') ELSE settleTimer
  /\ reading' = (reading \/ Rereads)
  /\ unanswered' = IF QueuedAt(queue, inFlight.field) = {}
                   THEN DropHold(unanswered, inFlight.field) ELSE unanswered
  /\ UNCHANGED <<daemonVars, shown, changed, reachable, clicks, disturbances>>

\* Four seconds have passed since the hold was placed; librepods-ctl has ended before that.
HoldComesDue ==
  /\ \E f \in Fields \ overdue :
       /\ Held(holds, f)
       /\ ~Runs(f)
       /\ overdue' = overdue \cup {f}
  /\ UNCHANGED <<daemonVars, holds, settleTimer, shown, queue, inFlight, command, changed,
                 reading, reachable, unanswered, clicks, disturbances>>

\* settleTimer sleeps until the first hold ends, and reads the file again.
SettleTimer ==
  /\ settleTimer /\ overdue # {}
  /\ settleTimer' = FALSE
  /\ reading' = TRUE
  /\ UNCHANGED <<daemonVars, holds, overdue, shown, queue, inFlight, command, changed,
                 reachable, unanswered, clicks, disturbances>>

FileChanged ==
  /\ changed
  /\ changed' = FALSE /\ reading' = TRUE
  /\ UNCHANGED <<daemonVars, holdVars, queue, inFlight, command, reachable, unanswered, clicks,
                 disturbances>>

\* Mutant: the timer is not set for the holds that are left.
ApplyStatusOnce(reported) ==
  LET kept == Settle(holds, reported) IN
  /\ holds' = kept /\ overdue' = {} /\ settleTimer' = FALSE
  /\ shown' = [f \in Fields |-> IF Held(kept, f) THEN kept[f] ELSE reported[f]]

\* applyStatus: a field shows its hold while it has one, else what the daemon reports.
ApplyStatus(reported) ==
  LET kept == Settle(holds, reported) IN
  /\ holds' = kept /\ overdue' = {} /\ settleTimer' = AnyHold(kept)
  /\ shown' = [f \in Fields |-> IF Held(kept, f) THEN kept[f] ELSE reported[f]]

\* applyLine
Loaded ==
  /\ reading /\ file # NoFile
  /\ ApplyStatus(file)
  /\ reading' = FALSE /\ reachable' = TRUE
  /\ UNCHANGED <<daemonVars, queue, inFlight, command, changed, unanswered, clicks, disturbances>>

\* stateGone
LoadFailed ==
  /\ reading /\ file = NoFile
  /\ reading' = FALSE /\ reachable' = FALSE
  /\ UNCHANGED <<daemonVars, holdVars, queue, inFlight, command, changed, unanswered, clicks,
                 disturbances>>

-----------------------------------------------------------------------------
\* The panel starts beside a daemon that just started, and reads what there is, perhaps the file of
\* a daemon that died.
Init ==
  /\ up = TRUE /\ status = DefaultStatus /\ packets = <<>>
  /\ file = NoFile \/ file \in Statuses
  /\ published = FALSE /\ late = {}
  /\ holds = Nothing /\ overdue = {} /\ settleTimer = FALSE
  /\ shown = DefaultStatus
  /\ queue = <<>> /\ inFlight = NoItem /\ command = "none"
  /\ changed = FALSE /\ reading = TRUE /\ reachable = FALSE
  /\ unanswered = Nothing
  /\ clicks = 0 /\ disturbances = 0

Panel == Click \/ CommandExits \/ HoldComesDue \/ SettleTimer \/ FileChanged \/ Loaded \/ LoadFailed
Command == CannotConnect \/ GivesUp
Daemon == AnswerVerb \/ AnswerLateVerb \/ PodsReport \/ WriteStateFile
Outside == StatusChanges \/ DaemonStarts \/ DaemonQuits \/ DaemonDies

Next == Panel \/ Command \/ Daemon \/ Outside

Spec == Init /\ [][Next]_vars

\* Timers fire, processes end, a watched file that changed is read, and the daemon answers and
\* writes while it runs.  Nobody has to click, and the pods do not have to report.
FairSpec ==
  /\ Spec
  /\ WF_vars(CommandExits) /\ WF_vars(HoldComesDue) /\ WF_vars(SettleTimer)
  /\ WF_vars(FileChanged) /\ WF_vars(Loaded) /\ WF_vars(LoadFailed)
  /\ WF_vars(CannotConnect) /\ WF_vars(AnswerVerb) /\ WF_vars(WriteStateFile)

-----------------------------------------------------------------------------
\* The newest verb for f that has not ended: the one that waits, else the one that runs.
NewestVerb(f) ==
  IF QueuedAt(queue, f) # {} THEN {queue[n].value : n \in QueuedAt(queue, f)}
  ELSE IF Runs(f) THEN {inFlight.value} ELSE {}

\* Until its verb has ended, the last click on a field is the newest verb that waits or runs for it,
\* and there is one: no repeat, refusal or queue loses it or puts an older one after it.
LastClickGoesOut ==
  \A f \in Fields : unanswered[f] # NoValue => NewestVerb(f) = {unanswered[f]}

\* A hold never outlives its time unserved: while the panel shows a daemon, something is left that
\* will read the file when the first hold ends (settleTimer, and every path that takes one).
HoldIsDriven == AnyHold(holds) /\ reachable => settleTimer \/ reading

\* The code does not keep this (README, behaviours that do not hold); no run checks it.  Service.qml
\* says that an incoming read cannot undo a click the daemon has not answered yet.
UnansweredClickShows == \A f \in Fields : unanswered[f] # NoValue => shown[f] = unanswered[f]

\* When the clicks and the disturbances are over, a daemon that runs is shown as it is: whatever the
\* queue, the refusals, the lost answers and the restarts were, no optimistic value stays on display.
PanelConverges == <>[](up => reachable /\ shown = StatusJson)
=============================================================================
