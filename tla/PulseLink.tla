------------------------------- MODULE PulseLink -------------------------------
(***************************************************************************)
(* daemon/media/pulseaudiocontroller.cpp: the connection to the sound      *)
(* server and its rebuilding, between the Qt thread, which asks and waits, *)
(* and libpulse's mainloop thread, which calls back and signals.           *)
(*                                                                         *)
(* The mainloop lock makes what the Qt thread does between two waits one   *)
(* step; a callback comes while it waits or is elsewhere.  A wait is a     *)
(* loop: a signal wakes it, it looks at what it waits for and then at its  *)
(* deadline, and waits again if there is neither.  The deadline is looked  *)
(* at in whole milliseconds, by elapsed() > timeoutMs, and the event that  *)
(* MainloopWakeup armed comes at timeoutMs, so at that instant it may find *)
(* elapsed() not yet past it.                                              *)
(*                                                                         *)
(* libpulse itself never times out here, as the comment on MainloopWakeup  *)
(* has it.                                                                 *)
(***************************************************************************)
EXTENDS Integers

CONSTANT MaxQueued  \* bound: scheduleReconnect calls queued for the Qt thread

ASSUME QueuedAssumption == MaxQueued \in Nat \ {0}

VARIABLES
  qt,           \* the Qt thread: "idle", or waiting in initialize ("starting"), attemptReconnect
                \* ("connecting") or a query ("asking")
  woken,        \* the mainloop was signalled since it began to wait
  wakeup,       \* the event MainloopWakeup armed is still to come
  clock,        \* the wait's deadline: "before" it, "at" it, or elapsed() is "past" it
  operation,    \* the query: "none", "running", or "over", answered or cancelled
  initialized,  \* m_initialized
  context,      \* m_context, to libpulse
  queued,       \* scheduleReconnect calls posted by the callback
  timer,        \* m_reconnectTimer is running
  server,       \* the sound server: up, down, or accepting and never answering
  abandoned     \* history: initialize gave up on the context it left connecting

waitVars == <<qt, woken, wakeup, clock, operation>>
pulseVars == <<waitVars, initialized, context, queued, timer, server, abandoned>>

Readying == {"starting", "connecting"}

PulseTypeOK ==
  /\ qt \in {"idle", "asking"} \cup Readying
  /\ clock \in {"before", "at", "past"}
  /\ operation \in {"none", "running", "over"}
  /\ context \in {"none", "connecting", "ready", "dead"}
  /\ queued \in 0 .. MaxQueued
  /\ server \in {"up", "down", "stalled"}
  /\ woken \in BOOLEAN /\ wakeup \in BOOLEAN
  /\ initialized \in BOOLEAN /\ timer \in BOOLEAN /\ abandoned \in BOOLEAN

-----------------------------------------------------------------------------
\* Waiting (pa_threaded_mainloop_wait, MainloopWakeup)

BeginWait(what, armed, op) ==
  /\ qt' = what /\ wakeup' = armed /\ operation' = op
  /\ woken' = FALSE /\ clock' = "before"

EndWait ==
  /\ qt' = "idle" /\ wakeup' = FALSE /\ operation' = "none"
  /\ woken' = FALSE /\ clock' = "before"

\* A signal finds the Qt thread in its wait or is lost.
Signal == woken' = (qt # "idle")

\* The loop goes round: neither what it waits for nor the deadline.
WaitAgain ==
  /\ woken
  /\ clock # "past"
  /\ \/ qt \in Readying /\ context = "connecting"
     \/ qt = "asking" /\ operation = "running"
  /\ woken' = FALSE
  /\ UNCHANGED <<qt, wakeup, clock, operation, initialized, context, queued, timer, server, abandoned>>

\* A server that is up answers in time.
TimePasses ==
  /\ qt # "idle" /\ server # "up"
  /\ \/ clock = "before" /\ clock' = "at"
     \/ clock = "at" /\ clock' = "past"
  /\ UNCHANGED <<qt, woken, wakeup, operation, initialized, context, queued, timer, server, abandoned>>

\* MainloopWakeup::fire
WakeupFires ==
  /\ wakeup /\ clock # "before"
  /\ wakeup' = FALSE
  /\ Signal
  /\ UNCHANGED <<qt, clock, operation, initialized, context, queued, timer, server, abandoned>>

-----------------------------------------------------------------------------
\* The Qt thread

\* Mutant: the timer is not started while a context is left.
ScheduleReconnectNoContext == timer' = (timer \/ (~initialized /\ context = "none"))

\* scheduleReconnect: a pending attempt already owns the ladder.
ScheduleReconnect == timer' = (timer \/ ~initialized)

QueuedScheduleRuns ==
  /\ qt = "idle" /\ queued > 0
  /\ queued' = queued - 1
  /\ ScheduleReconnect
  /\ UNCHANGED <<waitVars, initialized, context, server, abandoned>>

\* attemptReconnect up to its wait.  The old context is dropped with its callback; a connect that
\* fails at once has called the new context's back.
AttemptReconnect ==
  /\ qt = "idle" /\ timer
  /\ \/ /\ initialized
        /\ timer' = FALSE
        /\ UNCHANGED <<waitVars, context, queued, abandoned>>
     \/ /\ ~initialized
        /\ queued < MaxQueued
        /\ BeginWait("connecting", TRUE, "none")
        /\ context' = "connecting"
        /\ timer' = FALSE /\ abandoned' = FALSE
        /\ UNCHANGED queued
     \/ /\ ~initialized /\ server = "down"
        /\ queued < MaxQueued
        /\ context' = "dead" /\ queued' = queued + 1
        /\ timer' = TRUE /\ abandoned' = FALSE
        /\ UNCHANGED waitVars
  /\ UNCHANGED <<initialized, server>>

\* Mutant: m_initialized is raised after the lock is released.
ConnectReadyUnlocked ==
  \/ /\ qt \in Readying /\ woken /\ context = "ready"
     /\ qt' = "unlocked"
     /\ UNCHANGED <<woken, wakeup, clock, operation, initialized, context, queued, timer, server, abandoned>>
  \/ /\ qt = "unlocked"
     /\ EndWait /\ initialized' = TRUE
     /\ UNCHANGED <<context, queued, timer, server, abandoned>>

\* The wait of initialize or attemptReconnect ends: ContextReadiness::Ready ...
ConnectReady ==
  /\ qt \in Readying /\ woken /\ context = "ready"
  /\ EndWait
  /\ initialized' = TRUE
  /\ UNCHANGED <<context, queued, timer, server, abandoned>>

\* ... or Failed, or TimedOut.  Only attemptReconnect tries again; a failed context has posted a
\* call, one that timed out has not.
ConnectGivenUp ==
  /\ qt \in Readying /\ woken
  /\ context = "dead" \/ (context = "connecting" /\ clock = "past")
  /\ EndWait
  /\ IF qt = "connecting" THEN ScheduleReconnect ELSE UNCHANGED timer
  /\ abandoned' = (qt = "starting" /\ context = "connecting")
  /\ UNCHANGED <<initialized, context, queued, server>>

\* Any query or command: it asks and waits (waitForOperation).
Ask ==
  /\ qt = "idle" /\ initialized
  /\ BeginWait("asking", FALSE, "running")
  /\ UNCHANGED <<initialized, context, queued, timer, server, abandoned>>

\* The operation is answered, cancelled with its context, or cancelled at the deadline.
AskEnds ==
  /\ qt = "asking" /\ woken
  /\ operation = "over" \/ clock = "past"
  /\ EndWait
  /\ UNCHANGED <<initialized, context, queued, timer, server, abandoned>>

-----------------------------------------------------------------------------
\* libpulse's thread (contextStateCallback), and the server

\* Mutant: a failed query does not wake its waiter.
OperationAnsweredUnsignalled ==
  /\ operation = "running" /\ server = "up" /\ context = "ready"
  /\ operation' = "over"
  /\ UNCHANGED <<qt, woken, wakeup, clock, initialized, context, queued, timer, server, abandoned>>

OperationAnswered ==
  /\ operation = "running" /\ server = "up" /\ context = "ready"
  /\ operation' = "over"
  /\ Signal
  /\ UNCHANGED <<qt, wakeup, clock, initialized, context, queued, timer, server, abandoned>>

ContextReady ==
  /\ context = "connecting" /\ server = "up"
  /\ context' = "ready"
  /\ Signal
  /\ UNCHANGED <<qt, wakeup, clock, operation, initialized, queued, timer, server, abandoned>>

\* Mutant: the callback lowers the flag and posts nothing.
ContextDiesUnposted ==
  /\ context \in {"connecting", "ready"} /\ server = "down"
  /\ context' = "dead" /\ initialized' = FALSE /\ abandoned' = FALSE
  /\ operation' = IF operation = "running" THEN "over" ELSE operation
  /\ Signal
  /\ UNCHANGED <<qt, wakeup, clock, queued, timer, server>>

\* Its operations are cancelled with it.
ContextDies ==
  /\ context \in {"connecting", "ready"} /\ server = "down"
  /\ context' = "dead" /\ queued' = queued + 1
  /\ initialized' = FALSE /\ abandoned' = FALSE
  /\ operation' = IF operation = "running" THEN "over" ELSE operation
  /\ Signal
  /\ UNCHANGED <<qt, wakeup, clock, timer, server>>

\* A server that went down is missed by every context it had before it is back.
ServerMoves ==
  /\ server = "down" => context \notin {"connecting", "ready"}
  /\ \E s \in {"up", "down", "stalled"} \ {server} : server' = s
  /\ UNCHANGED <<waitVars, initialized, context, queued, timer, abandoned>>

\* initialize, waiting; or a connect that failed at once.
PulseInit ==
  /\ woken = FALSE /\ clock = "before" /\ operation = "none"
  /\ initialized = FALSE /\ timer = FALSE /\ abandoned = FALSE
  /\ \/ /\ qt = "starting" /\ wakeup = TRUE
        /\ context = "connecting" /\ queued = 0 /\ server \in {"up", "stalled"}
     \/ /\ qt = "idle" /\ wakeup = FALSE
        /\ context = "dead" /\ queued = 1 /\ server = "down"

PulseNext ==
  \/ WaitAgain \/ TimePasses \/ WakeupFires
  \/ QueuedScheduleRuns \/ AttemptReconnect \/ ConnectReady \/ ConnectGivenUp \/ Ask \/ AskEnds
  \/ OperationAnswered \/ ContextReady \/ ContextDies \/ ServerMoves

\* The Qt event loop runs what is posted and due, a signal wakes a wait, a due event fires, a
\* server that is up answers and one that is down is noticed.  What the server does is not fair.
PulseFairness ==
  /\ WF_pulseVars(QueuedScheduleRuns)
  /\ WF_pulseVars(AttemptReconnect)
  /\ WF_pulseVars(WaitAgain \/ ConnectReady \/ ConnectGivenUp \/ AskEnds)
  /\ WF_pulseVars(WakeupFires)
  /\ WF_pulseVars(OperationAnswered)
  /\ WF_pulseVars(ContextReady)
  /\ WF_pulseVars(ContextDies)

PulseSpec == PulseInit /\ [][PulseNext]_pulseVars /\ PulseFairness

-----------------------------------------------------------------------------
\* Properties

\* A query runs against a live context or fails at once: the flag is up only while the context
\* is, so no death is overwritten by a readiness it overtook (contextStateCallback,
\* attemptReconnect).
InitializedIsAlive == initialized => context = "ready"

\* "stranding a dead context with no retry pending" (attemptReconnect) does not happen: without
\* a connection, and with the Qt thread free, a call is posted or the timer runs, unless
\* initialize itself gave up on a server that never answered.
ReconnectIsDriven == ~initialized /\ qt = "idle" => queued > 0 \/ timer \/ abandoned

\* No wakeup is lost: what a wait is for never happened unsignalled (waitForContextReady,
\* waitForOperation).
NoWakeupLost ==
  /\ qt \in Readying /\ context \in {"ready", "dead"} => woken
  /\ qt = "asking" /\ operation = "over" => woken

\* "a server that stays down keeps polling rather than sleeping through its return"
\* (reconnectMaxDoublings): a server that comes back and stays is connected to again.
PulseRecovers == <>[](server = "up") => <>[](initialized \/ abandoned)

\* "Arming a mainloop time event guarantees the one wakeup the loop needs to notice it has run
\* out of time" (MainloopWakeup): past its deadline, a wait is about to be woken.
DeadlineIsNoticed == qt # "idle" /\ clock = "past" => woken \/ wakeup

=============================================================================
