------------------------------- MODULE AttClient -------------------------------
(***************************************************************************)
(* daemon/attclient.cpp, the pods' ATT channel, and its one user, the Loud *)
(* Sound Reduction verb of daemon/main.cpp: requests queue up, one at a    *)
(* time is sent, and each is finished by a reply, a timeout or the close.  *)
(*                                                                         *)
(* The pods and the kernel are modelled from how the client meets them;    *)
(* Faults names what may go wrong on their side.                           *)
(***************************************************************************)
EXTENDS Integers, Sequences

CONSTANTS
  Faults,   \* what may go wrong, a subset of FaultKinds
  MaxQueue, \* bound: requests queued when a verb comes
  MaxLate   \* bound: answers still to come when a request's two seconds are over

FaultKinds == {
  "send",    \* send() fails on an open channel
  "silent",  \* the pods never answer a request, though they may do what it asks
  "refuse",  \* the pods answer a request with an error
  "drop"}    \* the pods close the channel

ASSUME FaultsAssumption == Faults \subseteq FaultKinds
ASSUME AttBoundsAssumption == MaxQueue \in Nat /\ MaxLate \in Nat

VARIABLES
  attached,  \* the control link is up (main.cpp areAirpodsConnected)
  channel,   \* m_fd and m_connected
  queue,     \* m_queue
  inFlight,  \* m_inFlight; m_timeout runs exactly as long
  known,     \* m_loudSoundReduction
  asked,     \* requests on their way to the pods
  replies,   \* replies on their way back
  loud,      \* the pods' own setting
  failed,    \* history: a request has failed since the setting was last read in step
  behind     \* history: a request has timed out with an answer still to come on this channel

attVars == <<attached, channel, queue, inFlight, known, asked, replies, loud, failed, behind>>

LoudSettings == {"on", "off"}

\* What the verb asks of the pods: the transparency blob, the setting, or a change of it.
ReadBlob == [op |-> "blob", loud |-> "none"]
ReadBack == [op |-> "read", loud |-> "none"]
Write(setting) == [op |-> "write", loud |-> setting]
AttRequests == {ReadBlob, ReadBack} \cup {Write(s) : s \in LoudSettings}

ReplyValues == LoudSettings \cup {"blob", "none", "error"}
Reply(request, value) == [to |-> request, value |-> value]

AttTypeOK ==
  /\ {attached, inFlight, failed, behind} \subseteq BOOLEAN /\ loud \in LoudSettings
  /\ channel \in {"closed", "connecting", "open"}
  /\ queue \in Seq(AttRequests)
  /\ known \in LoudSettings \cup {"unknown"}
  /\ asked \in Seq(AttRequests)
  /\ replies \in Seq([to : AttRequests, value : ReplyValues])

-----------------------------------------------------------------------------
\* The client

\* sendNext, with queue `q', m_inFlight `busy' and the history `fails'.  A failed send fails its
\* own request alone.
SendNext(q, busy, fails) ==
  IF busy \/ q = <<>> \/ channel # "open"
  THEN queue' = q /\ inFlight' = busy /\ failed' = fails /\ UNCHANGED asked
  ELSE \/ queue' = q /\ inFlight' = TRUE /\ asked' = Append(asked, Head(q)) /\ failed' = fails
       \/ /\ "send" \in Faults
          /\ queue' = Tail(q) /\ inFlight' = FALSE /\ failed' = TRUE
          /\ UNCHANGED asked

\* Mutant: the next request is sent before the finished one is taken off the queue.
FinishSendingFirst(fails) ==
  /\ failed' = fails
  /\ IF queue = <<>>
     THEN inFlight' = FALSE /\ UNCHANGED <<queue, asked>>
     ELSE queue' = Tail(queue) /\ inFlight' = TRUE /\ asked' = Append(asked, Head(queue))

\* finishPending for a request whose callback asks for nothing more
Finish(fails) ==
  IF queue = <<>>
  THEN inFlight' = FALSE /\ failed' = fails /\ UNCHANGED <<queue, asked>>
  ELSE SendNext(Tail(queue), FALSE, fails)

\* Mutant: a write that was accepted is not read back.
FinishWriteUnread == SendNext(Tail(queue), FALSE, failed)

\* The callback of a write reads the setting back: read() sends what it can, then finishPending
\* does, which matters only when the first send fails.
FinishWrite ==
  LET q == Append(Tail(queue), ReadBack) IN
  \/ SendNext(q, FALSE, failed)
  \/ "send" \in Faults /\ SendNext(Tail(q), FALSE, TRUE)

\* close.  Failing the request in flight sends the next one on the channel being closed; if that
\* goes through, m_inFlight and its timer outlive the channel.
Close ==
  /\ channel' = "closed"
  /\ queue' = <<>>
  /\ asked' = <<>>
  /\ replies' = <<>>
  /\ failed' = (failed \/ queue # <<>>)
  /\ behind' = FALSE
  /\ \/ inFlight' = FALSE
     \/ inFlight /\ channel = "open" /\ Len(queue) > 1 /\ inFlight' = TRUE

\* setLoudSoundReduction and ensureAttOpen, past hearingRefusal; a first use opens the channel
\* and reads the transparency blob ahead of the write.
SetLoudSoundReduction ==
  /\ attached
  /\ Len(queue) < MaxQueue
  /\ \E s \in LoudSettings :
       IF channel = "closed"
       THEN /\ channel' = "connecting"
            /\ queue' = queue \o <<ReadBlob, Write(s)>>
            /\ UNCHANGED <<inFlight, asked, failed>>
       ELSE /\ SendNext(Append(queue, Write(s)), inFlight, failed)
            /\ UNCHANGED channel
  /\ UNCHANGED <<attached, known, replies, loud, behind>>

\* onWritable: the connect settles one way or the other.
Connected ==
  /\ channel = "connecting"
  /\ channel' = "open"
  /\ IF inFlight \/ queue = <<>>
     THEN UNCHANGED <<queue, inFlight, asked, failed>>
     ELSE \/ inFlight' = TRUE /\ asked' = <<Head(queue)>> /\ UNCHANGED <<queue, failed>>
          \/ /\ "send" \in Faults
             /\ queue' = Tail(queue) /\ failed' = TRUE
             /\ UNCHANGED <<inFlight, asked>>
  /\ UNCHANGED <<attached, known, replies, loud, behind>>

ConnectFailed ==
  /\ channel = "connecting"
  /\ Close
  /\ UNCHANGED <<attached, known, loud>>

\* Mutant: the timer's slot forgets to finish the request.
TimeoutUnfinished == inFlight /\ asked = <<>> /\ replies = <<>> /\ UNCHANGED attVars

\* The timer's slot, failPending, for a request that got no answer or whose answer is late.
Timeout ==
  /\ inFlight
  /\ Len(asked) + Len(replies) <= MaxLate
  /\ Finish(TRUE)
  /\ behind' = (asked # <<>> \/ replies # <<>>)
  /\ UNCHANGED <<attached, channel, known, replies, loud>>

\* The answers the callback of the read-back takes a byte from: any that is no error, not empty.
Reports(value) == value \notin {"error", "none"}

\* onReadable, a reply: it is credited to whatever request is first in the queue, whose callback
\* takes the value for its own.
Received ==
  /\ channel = "open"
  /\ replies # <<>>
  /\ replies' = Tail(replies)
  /\ LET value == Head(replies).value IN
     \/ /\ ~inFlight
        /\ UNCHANGED <<queue, inFlight, asked, known, failed>>
     \/ /\ inFlight
        /\ Head(queue).op = "write" /\ value # "error"
        /\ FinishWrite
        /\ UNCHANGED known
     \/ /\ inFlight
        /\ Head(queue).op = "read" /\ Reports(value)
        /\ Finish(behind)
        /\ known' \in IF value = "blob" THEN LoudSettings ELSE {value}
     \/ /\ inFlight
        /\ \/ Head(queue).op = "blob"
           \/ Head(queue).op = "write" /\ value = "error"
           \/ Head(queue).op = "read" /\ ~Reports(value)
        /\ Finish(failed \/ value = "error")
        /\ UNCHANGED known
  /\ behind' = (behind /\ (Tail(replies) # <<>> \/ asked # <<>>))
  /\ UNCHANGED <<attached, channel, loud>>

\* finalizeDeviceDisconnected, its part here; close returns early when nothing is open.
Teardown ==
  /\ attached
  /\ attached' = FALSE
  /\ IF channel = "closed"
     THEN UNCHANGED <<channel, queue, inFlight, asked, replies, failed, behind>>
     ELSE Close
  /\ known' = "unknown"
  /\ UNCHANGED loud

-----------------------------------------------------------------------------
\* The pods

LinkComesUp ==
  /\ ~attached /\ attached' = TRUE
  /\ UNCHANGED <<channel, queue, inFlight, known, asked, replies, loud, failed, behind>>

PodsAnswer ==
  /\ channel = "open"
  /\ asked # <<>>
  /\ asked' = Tail(asked)
  /\ LET request == Head(asked) IN
     \/ /\ request.op = "blob"
        /\ replies' = Append(replies, Reply(request, "blob"))
        /\ UNCHANGED loud
     \/ /\ request.op = "read"
        /\ replies' = Append(replies, Reply(request, loud))
        /\ UNCHANGED loud
     \/ /\ request.op = "write"
        /\ loud' = request.loud
        /\ replies' = Append(replies, Reply(request, "none"))
     \/ /\ "refuse" \in Faults
        /\ replies' = Append(replies, Reply(request, "error"))
        /\ UNCHANGED loud
     \/ /\ "silent" \in Faults
        /\ loud' \in {loud} \cup ({request.loud} \cap LoudSettings)
        /\ UNCHANGED replies
  /\ behind' = (behind /\ (asked' # <<>> \/ replies' # <<>>))
  /\ UNCHANGED <<attached, channel, queue, inFlight, known, failed>>

\* onReadable, the end of the channel: a send on it fails as well.
PodsClose ==
  /\ "drop" \in Faults
  /\ channel = "open"
  /\ channel' = "closed" /\ queue' = <<>> /\ asked' = <<>> /\ replies' = <<>> /\ inFlight' = FALSE
  /\ failed' = (failed \/ queue # <<>>) /\ behind' = FALSE
  /\ UNCHANGED <<attached, known, loud>>

AttInit ==
  /\ attached \in BOOLEAN
  /\ channel = "closed"
  /\ queue = <<>>
  /\ inFlight = FALSE
  /\ known = "unknown"
  /\ asked = <<>>
  /\ replies = <<>>
  /\ loud \in LoudSettings
  /\ failed = FALSE /\ behind = FALSE

AttNext ==
  \/ SetLoudSoundReduction \/ Teardown
  \/ Connected \/ ConnectFailed \/ Timeout \/ Received
  \/ LinkComesUp \/ PodsAnswer \/ PodsClose

\* The event loop delivers what the socket and the timer report, the kernel settles a connect,
\* and a request reaches the pods.  The user and the control link are not fair.
AttFairness ==
  /\ WF_attVars(Connected \/ ConnectFailed)
  /\ WF_attVars(Timeout)
  /\ WF_attVars(Received)
  /\ WF_attVars(PodsAnswer)

AttSpec == AttInit /\ [][AttNext]_attVars /\ AttFairness

-----------------------------------------------------------------------------
\* Properties

\* A reply names no request, so it must find the one it answers first in the queue: the value
\* of one handle is never taken for another's (onReadable, finishPending).  The one exception is a
\* request that timed out with its answer still to come: from then on replies are one behind, until
\* nothing is under way or the channel is closed.
AnswersItsOwn ==
  \/ behind
  \/ /\ asked # <<>> => inFlight /\ Head(queue) = Head(asked)
     /\ replies # <<>> => inFlight /\ Head(queue) = Head(replies).to

\* "the state is read back rather than notified" (main.cpp setLoudSoundReduction): when all that
\* was asked is done and nothing has failed since the last read that was not behind, the status has
\* what the pods have, however many verbs were queued, whatever order their writes and reads went
\* out in, and whatever late answers came before.
ReadBackTells ==
  queue = <<>> /\ ~failed => known = loud \/ (channel = "closed" /\ known = "unknown")

\* "every request answers within Att::requestTimeoutMs or fails loud" (attclient.h): once the
\* user stops asking, nothing stays queued, even after a close that left its timer behind.
RequestsAnswered == <>[][~SetLoudSoundReduction]_attVars => <>[](queue = <<>>)

=============================================================================
