----------------------------- MODULE SettingsProofs -----------------------------
(***************************************************************************)
(* What the daemon may believe of the settings of the pods.                *)
(*                                                                         *)
(* AttClient: a reply is credited to the request it answers, except while  *)
(* answers come behind a request that has timed out, and the status is     *)
(* what was read back, for any bound on requests and late answers and any  *)
(* faults.                                                                 *)
(*                                                                         *)
(* PodSettings: an echo, a wish and the pods agree once the frames have    *)
(* arrived, for any settings, sticky or not, and any number of frames and  *)
(* of timers of earlier links.  What concerns ear detection is proved for  *)
(* firmware that does not report it.                                       *)
(***************************************************************************)
EXTENDS AttClient, PodSettings, SequenceTheorems, FiniteSetTheorems, TLAPS

-----------------------------------------------------------------------------
\* AttClient

\* What the pods may say to a request while they have a setting.
Answers(request, setting) ==
  {value \in ReplyValues :
    \/ value = "error"
    \/ request.op = "blob" /\ value = "blob"
    \/ request.op = "read" /\ value = setting
    \/ request.op = "write" /\ value = "none"}

\* At most one message is under way, on an open channel: the first request of the queue or an answer
\* to it.
OneUnderWay ==
  \/ asked = <<>> /\ replies = <<>>
  \/ /\ inFlight /\ queue # <<>> /\ channel = "open"
     /\ \/ asked = <<Head(queue)>> /\ replies = <<>>
        \/ /\ asked = <<>>
           /\ \E value \in Answers(Head(queue), loud) : replies = <<Reply(Head(queue), value)>>

\* A request that will tell, or has changed, what the pods have.
Tells(request) == request.op \in {"write", "read"}
Owed(requests) == \E i \in DOMAIN requests : Tells(requests[i])

\* What the status has is true, unless something failed or will yet be read back.
KnownOrOwed ==
  \/ failed \/ known = loud \/ Owed(queue)
  \/ channel = "closed" /\ known = "unknown"

\* Answers come behind on an open channel only, and only after a failure.
BehindFailed == behind => failed /\ channel = "open"

\* On a channel a request in flight is in the queue.
InFlightQueued == inFlight /\ channel # "closed" => queue # <<>>

AttInv ==
  /\ AttTypeOK /\ (behind \/ OneUnderWay) /\ KnownOrOwed /\ BehindFailed /\ InFlightQueued

\* What a request can be.
LEMMA RequestShapes ==
  /\ ReadBlob \in AttRequests /\ ReadBack \in AttRequests
  /\ \A s \in LoudSettings : Write(s) \in AttRequests /\ Tells(Write(s))
  /\ Tells(ReadBack)
  /\ \A request \in AttRequests :
       /\ request.op \in {"blob", "read", "write"}
       /\ request.op = "write" => request.loud \in LoudSettings
       /\ request.op # "write" => request.loud = "none"
<1> USE DEF AttRequests, ReadBlob, ReadBack, Write, Tells
<1>1. ReadBlob \in AttRequests /\ ReadBack \in AttRequests /\ Tells(ReadBack)
  OBVIOUS
<1>2. \A s \in LoudSettings : Write(s) \in AttRequests /\ Tells(Write(s))
  OBVIOUS
<1>3. ASSUME NEW request \in AttRequests
      PROVE  /\ request.op \in {"blob", "read", "write"}
             /\ request.op = "write" => request.loud \in LoudSettings
             /\ request.op # "write" => request.loud = "none"
  <2>1. CASE request = ReadBlob \/ request = ReadBack
    BY <2>1
  <2>2. CASE \E s \in LoudSettings : request = Write(s)
    BY <2>2
  <2>3. QED
    BY <2>1, <2>2
<1>4. QED
  BY <1>1, <1>2, <1>3

\* What is queued last is owed.
LEMMA AppendOwes ==
  ASSUME NEW requests \in Seq(AttRequests), NEW request \in AttRequests, Tells(request)
  PROVE  Owed(Append(requests, request))
<1>1. /\ Len(requests) + 1 \in DOMAIN Append(requests, request)
      /\ Append(requests, request)[Len(requests) + 1] = request
  OBVIOUS
<1>2. QED
  BY <1>1 DEF Owed

\* Finishing a request that tells nothing owes no less.
LEMMA TailOwes ==
  ASSUME NEW requests \in Seq(AttRequests), requests # <<>>, ~Tells(Head(requests)), Owed(requests)
  PROVE  Owed(Tail(requests))
<1>1. PICK i \in DOMAIN requests : Tells(requests[i])
  BY DEF Owed
<1>2. i \in 2 .. Len(requests)
  BY <1>1
<1>3. i - 1 \in DOMAIN Tail(requests) /\ Tail(requests)[i - 1] = requests[i]
  BY <1>2
<1>4. QED
  BY <1>1, <1>3 DEF Owed

\* Sending goes through, waits, or fails what it sends.
LEMMA SendNextFacts ==
  ASSUME AttTypeOK, NEW q \in Seq(AttRequests), NEW busy \in BOOLEAN, NEW fails \in BOOLEAN,
         SendNext(q, busy, fails)
  PROVE  /\ queue' \in Seq(AttRequests) /\ asked' \in Seq(AttRequests)
         /\ {inFlight', failed'} \subseteq BOOLEAN
         /\ \/ queue' = q /\ failed' = fails /\ asked' = asked /\ inFlight' = busy
            \/ /\ ~busy /\ queue' = q /\ failed' = fails /\ q # <<>> /\ channel = "open"
               /\ inFlight' = TRUE /\ asked' = Append(asked, Head(q))
            \/ ~busy /\ failed' = TRUE /\ asked' = asked /\ inFlight' = FALSE
<1>1. CASE queue' = q /\ inFlight' = busy /\ failed' = fails /\ UNCHANGED asked
  BY <1>1 DEF AttTypeOK
<1>2. CASE /\ ~busy /\ q # <<>> /\ channel = "open"
           /\ queue' = q /\ inFlight' = TRUE /\ asked' = Append(asked, Head(q)) /\ failed' = fails
  <2>1. Head(q) \in AttRequests
    BY <1>2
  <2>2. asked' \in Seq(AttRequests)
    BY <1>2, <2>1 DEF AttTypeOK
  <2>3. QED
    BY <1>2, <2>2
<1>3. CASE /\ ~busy /\ q # <<>>
           /\ queue' = Tail(q) /\ inFlight' = FALSE /\ failed' = TRUE /\ UNCHANGED asked
  <2>1. Tail(q) \in Seq(AttRequests)
    BY <1>3
  <2>2. QED
    BY <1>3, <2>1 DEF AttTypeOK
<1>4. QED
  BY <1>1, <1>2, <1>3 DEF SendNext

\* What sending leaves when nothing is in flight.
Sent(q, fails) ==
  /\ queue' \in Seq(AttRequests) /\ asked' \in Seq(AttRequests)
  /\ {inFlight', failed'} \subseteq BOOLEAN
  /\ inFlight' => queue' # <<>>
  /\ asked = <<>> =>
       \/ asked' = <<>>
       \/ inFlight' = TRUE /\ queue' # <<>> /\ channel = "open" /\ asked' = <<Head(queue')>>
  /\ failed' = TRUE \/ (failed' = fails /\ queue' = q)

\* If nothing was under way, at most one request is.
LEMMA SendFirst ==
  ASSUME AttTypeOK, NEW q \in Seq(AttRequests), NEW fails \in BOOLEAN, SendNext(q, FALSE, fails)
  PROVE  Sent(q, fails)
<1>1. /\ queue' \in Seq(AttRequests) /\ asked' \in Seq(AttRequests)
      /\ {inFlight', failed'} \subseteq BOOLEAN
      /\ \/ queue' = q /\ failed' = fails /\ asked' = asked /\ inFlight' = FALSE
         \/ /\ queue' = q /\ failed' = fails /\ q # <<>> /\ channel = "open"
            /\ inFlight' = TRUE /\ asked' = Append(asked, Head(q))
         \/ failed' = TRUE /\ asked' = asked /\ inFlight' = FALSE
  <2>1. FALSE \in BOOLEAN
    OBVIOUS
  <2>2. QED
    BY <2>1, SendNextFacts
<1>2. asked = <<>> => Append(asked, Head(q)) = <<Head(q)>>
  OBVIOUS
<1>3. CASE queue' = q /\ failed' = fails /\ asked' = asked /\ inFlight' = FALSE
  BY <1>1, <1>3 DEF Sent
<1>4. CASE /\ queue' = q /\ failed' = fails /\ q # <<>> /\ channel = "open"
           /\ inFlight' = TRUE /\ asked' = Append(asked, Head(q))
  BY <1>1, <1>2, <1>4 DEF Sent
<1>5. CASE failed' = TRUE /\ asked' = asked /\ inFlight' = FALSE
  <2>1. asked' = asked /\ failed' = TRUE /\ inFlight' = FALSE
    BY <1>5
  <2>2. /\ queue' \in Seq(AttRequests) /\ asked' \in Seq(AttRequests)
        /\ {inFlight', failed'} \subseteq BOOLEAN
    BY <1>1
  <2>3. QED
    BY <2>1, <2>2 DEF Sent
<1>6. QED
  BY <1>1, <1>3, <1>4, <1>5

\* Finishing the first request sends the second or stops.
LEMMA FinishFacts ==
  ASSUME AttTypeOK, NEW fails \in BOOLEAN, Finish(fails), queue # <<>>
  PROVE  Sent(Tail(queue), fails)
<1>1. Tail(queue) \in Seq(AttRequests)
  BY DEF AttTypeOK
<1>2. SendNext(Tail(queue), FALSE, fails)
  BY DEF Finish
<1>3. QED
  BY <1>1, <1>2, SendFirst

\* A closed channel with nothing asked.
LEMMA AttInitially == AttInit => AttInv
<1> SUFFICES ASSUME AttInit PROVE AttInv
  OBVIOUS
<1>1. /\ queue \in Seq(AttRequests) /\ asked \in Seq(AttRequests)
      /\ replies \in Seq([to : AttRequests, value : ReplyValues])
  BY DEF AttInit
<1>2. AttTypeOK
  BY <1>1 DEF AttInit, AttTypeOK
<1>3. OneUnderWay /\ KnownOrOwed /\ BehindFailed /\ InFlightQueued
  BY DEF AttInit, OneUnderWay, KnownOrOwed, BehindFailed, InFlightQueued
<1>4. QED
  BY <1>2, <1>3 DEF AttInv

\* Whatever ends the channel leaves nothing under way, and what was queued as failed.
LEMMA ClosedKeeps ==
  ASSUME AttInv, channel' = "closed", queue' = <<>>, asked' = <<>>, replies' = <<>>,
         failed' = (failed \/ queue # <<>>), behind' = FALSE,
         {attached', inFlight'} \subseteq BOOLEAN,
         known' = known \/ known' = "unknown", UNCHANGED loud
  PROVE  AttInv'
<1>1. /\ queue' \in Seq(AttRequests) /\ asked' \in Seq(AttRequests)
      /\ replies' \in Seq([to : AttRequests, value : ReplyValues])
  OBVIOUS
<1>2. failed' \in BOOLEAN /\ known' \in LoudSettings \cup {"unknown"}
  BY DEF AttInv, AttTypeOK
<1>3. AttTypeOK'
  BY <1>1, <1>2 DEF AttInv, AttTypeOK
<1>4. OneUnderWay' /\ BehindFailed' /\ InFlightQueued'
  BY DEF OneUnderWay, BehindFailed, InFlightQueued
<1>5. KnownOrOwed'
  <2>1. CASE queue = <<>>
    <3>1. ~Owed(queue)
      BY <2>1 DEF Owed
    <3>2. QED
      BY <3>1 DEF AttInv, KnownOrOwed
  <2>2. CASE queue # <<>>
    BY <2>2 DEF KnownOrOwed
  <2>3. QED
    BY <2>1, <2>2
<1>6. QED
  BY <1>3, <1>4, <1>5 DEF AttInv

\* What a request finished on an open channel leaves, whatever was sent next: with answers still to
\* come behind something has failed; otherwise the status is true, or something failed or is owed.
LEMMA SentKeeps ==
  ASSUME AttInv, NEW q, NEW fails \in BOOLEAN, Sent(q, fails), channel = "open",
         replies' \in Seq([to : AttRequests, value : ReplyValues]),
         behind' \in BOOLEAN, behind' \/ (asked = <<>> /\ replies' = <<>>),
         behind' => fails = TRUE,
         UNCHANGED <<attached, channel, loud>>, known' \in LoudSettings \cup {"unknown"},
         fails = TRUE \/ known' = loud \/ (failed' = fails /\ queue' = q => Owed(q))
           \/ (known' = known /\ fails = failed /\ queue # <<>> /\ q = Tail(queue)
                 /\ ~Tells(Head(queue)))
  PROVE  AttInv'
<1>a. AttTypeOK /\ KnownOrOwed /\ queue \in Seq(AttRequests) /\ {attached, failed} \subseteq BOOLEAN
      /\ loud \in LoudSettings
  BY DEF AttInv, AttTypeOK
<1>1. AttTypeOK'
  BY <1>a DEF AttTypeOK, Sent
<1>2. behind' \/ OneUnderWay'
  BY DEF OneUnderWay, Sent
<1>3. BehindFailed' /\ InFlightQueued'
  BY DEF BehindFailed, InFlightQueued, Sent
<1>4. KnownOrOwed'
  <2>1. CASE failed' = TRUE \/ known' = loud
    BY <2>1 DEF KnownOrOwed
  <2>2. CASE failed' # TRUE /\ known' # loud
    <3>1. failed' = fails /\ queue' = q /\ fails # TRUE
      BY <2>2 DEF Sent
    <3>2. CASE Owed(q)
      BY <3>1, <3>2 DEF KnownOrOwed
    <3>3. CASE /\ known' = known /\ fails = failed /\ queue # <<>> /\ q = Tail(queue)
               /\ ~Tells(Head(queue))
      <4>1. CASE Owed(queue)
        BY <1>a, <3>1, <3>3, <4>1, TailOwes DEF KnownOrOwed
      <4>2. CASE ~Owed(queue)
        BY <1>a, <2>2, <3>1, <3>3, <4>2 DEF KnownOrOwed
      <4>3. QED
        BY <4>1, <4>2
    <3>4. QED
      BY <2>2, <3>1, <3>2, <3>3
  <2>3. QED
    BY <2>1, <2>2
<1>5. QED
  BY <1>1, <1>2, <1>3, <1>4 DEF AttInv

\* Every step keeps the parts together.
LEMMA AttInductive ==
  ASSUME AttInv, [AttNext]_attVars
  PROVE  AttInv'
<1>a. /\ AttTypeOK /\ (behind \/ OneUnderWay) /\ KnownOrOwed /\ BehindFailed /\ InFlightQueued
  BY DEF AttInv
<1>b. /\ queue \in Seq(AttRequests) /\ asked \in Seq(AttRequests)
      /\ replies \in Seq([to : AttRequests, value : ReplyValues])
      /\ {attached, inFlight, failed, behind} \subseteq BOOLEAN /\ loud \in LoudSettings
      /\ known \in LoudSettings \cup {"unknown"}
      /\ channel \in {"closed", "connecting", "open"}
  BY <1>a DEF AttTypeOK
<1>1. ASSUME SetLoudSoundReduction PROVE AttInv'
  <2>1. PICK s \in LoudSettings :
          IF channel = "closed"
          THEN /\ channel' = "connecting"
               /\ queue' = queue \o <<ReadBlob, Write(s)>>
               /\ UNCHANGED <<inFlight, asked, failed>>
          ELSE /\ SendNext(Append(queue, Write(s)), inFlight, failed)
               /\ UNCHANGED channel
    BY <1>1 DEF SetLoudSoundReduction
  <2>2. Write(s) \in AttRequests /\ Tells(Write(s)) /\ ReadBlob \in AttRequests
    BY RequestShapes
  <2>3. CASE channel = "closed"
    <3>1. queue' = Append(Append(queue, ReadBlob), Write(s))
      BY <1>b, <2>1, <2>3
    <3>2. Append(queue, ReadBlob) \in Seq(AttRequests)
      BY <1>b, <2>2
    <3>3. queue' \in Seq(AttRequests)
      BY <2>2, <3>1, <3>2
    <3>9. Owed(queue')
      BY <2>2, <3>1, <3>2, AppendOwes
    <3>4. AttTypeOK'
      BY <1>1, <1>b, <2>1, <2>3, <3>3 DEF AttTypeOK, SetLoudSoundReduction
    <3>5. ~behind /\ behind' = behind
      BY <1>1, <1>a, <2>3 DEF BehindFailed, SetLoudSoundReduction
    <3>6. OneUnderWay'
      BY <1>1, <1>a, <2>1, <2>3, <3>5 DEF OneUnderWay, SetLoudSoundReduction
    <3>7. BehindFailed' /\ InFlightQueued'
      BY <3>5, <3>9 DEF BehindFailed, InFlightQueued, Owed
    <3>8. QED
      BY <3>4, <3>5, <3>6, <3>7, <3>9 DEF AttInv, KnownOrOwed
  <2>4. CASE channel # "closed"
    <3> DEFINE q == Append(queue, Write(s))
    <3>1. q \in Seq(AttRequests) /\ Owed(q) /\ q # <<>>
          /\ (queue # <<>> => Head(q) = Head(queue))
      <4>1. q \in Seq(AttRequests) /\ Owed(q)
        BY <1>b, <2>2, AppendOwes
      <4>2. q # <<>> /\ (queue # <<>> => Head(q) = Head(queue))
        BY <1>b
      <4>3. QED
        BY <4>1, <4>2
    <3>2. SendNext(q, inFlight, failed)
      BY <2>1, <2>4
    <3> HIDE DEF q
    <3>3. /\ queue' \in Seq(AttRequests) /\ asked' \in Seq(AttRequests)
          /\ {inFlight', failed'} \subseteq BOOLEAN
          /\ \/ queue' = q /\ failed' = failed /\ asked' = asked /\ inFlight' = inFlight
             \/ /\ ~inFlight /\ queue' = q /\ failed' = failed /\ q # <<>> /\ channel = "open"
                /\ inFlight' = TRUE /\ asked' = Append(asked, Head(q))
             \/ ~inFlight /\ failed' = TRUE /\ asked' = asked /\ inFlight' = FALSE
      BY <1>a, <1>b, <3>1, <3>2, SendNextFacts
    <3>4. UNCHANGED <<attached, channel, known, replies, loud, behind>>
      BY <1>1, <2>1, <2>4 DEF SetLoudSoundReduction
    <3>5. AttTypeOK'
      BY <1>b, <3>3, <3>4 DEF AttTypeOK
    <3>6. KnownOrOwed'
      BY <3>1, <3>3 DEF KnownOrOwed
    <3>7. ASSUME ~behind PROVE OneUnderWay'
      <4>1. CASE queue' = q /\ asked' = asked /\ inFlight' = inFlight
        BY <4>1, <1>a, <3>1, <3>4, <3>7 DEF OneUnderWay
      <4>2. CASE ~inFlight
        <5>1. asked = <<>> /\ replies = <<>>
          BY <4>2, <1>a, <3>7 DEF OneUnderWay
        <5>2. \/ asked' = <<>>
              \/ /\ asked' = <<Head(queue')>> /\ queue' # <<>> /\ inFlight' = TRUE
                 /\ channel = "open"
          BY <3>3, <4>2, <5>1
        <5>3. QED
          BY <3>4, <5>1, <5>2 DEF OneUnderWay
      <4>3. QED
        BY <3>3, <4>1, <4>2
    <3>8. BehindFailed' /\ InFlightQueued'
      BY <1>a, <3>1, <3>3, <3>4 DEF BehindFailed, InFlightQueued
    <3>9. QED
      BY <3>4, <3>5, <3>6, <3>7, <3>8 DEF AttInv
  <2>5. QED
    BY <2>3, <2>4
<1>2. ASSUME Teardown PROVE AttInv'
  <2>1. CASE channel = "closed"
    <3>1. UNCHANGED <<channel, queue, inFlight, asked, replies, failed, loud, behind>>
          /\ known' = "unknown" /\ attached' = FALSE
      BY <1>2, <2>1 DEF Teardown
    <3>2. AttTypeOK'
      BY <1>b, <3>1 DEF AttTypeOK
    <3>3. (behind' \/ OneUnderWay') /\ BehindFailed' /\ InFlightQueued'
      BY <1>a, <3>1 DEF OneUnderWay, BehindFailed, InFlightQueued
    <3>4. QED
      BY <2>1, <3>1, <3>2, <3>3 DEF AttInv, KnownOrOwed
  <2>2. CASE channel # "closed"
    BY <1>2, <1>b, <2>2, ClosedKeeps DEF Teardown, Close
  <2>3. QED
    BY <2>1, <2>2
<1>3. ASSUME Connected PROVE AttInv'
  <2>1. asked = <<>> /\ replies = <<>> /\ ~behind
    BY <1>3, <1>a DEF OneUnderWay, BehindFailed, Connected
  <2>2. /\ UNCHANGED <<attached, known, replies, loud, behind>>/\ channel = "connecting"
        /\ channel' = "open"
        /\ \/ UNCHANGED <<queue, inFlight, asked, failed>>
           \/ /\ queue # <<>> /\ inFlight' = TRUE /\ asked' = <<Head(queue)>>
              /\ UNCHANGED <<queue, failed>>
           \/ /\ queue # <<>> /\ queue' = Tail(queue) /\ failed' = TRUE
              /\ ~inFlight /\ UNCHANGED <<inFlight, asked>>
    BY <1>3 DEF Connected
  <2>3. AttTypeOK'
    <3>1. queue' \in Seq(AttRequests)
      <4>1. queue # <<>> => Tail(queue) \in Seq(AttRequests)
        BY <1>b
      <4>2. QED
        BY <1>b, <2>2, <4>1
    <3>2. asked' \in Seq(AttRequests)
      <4>1. queue # <<>> => Head(queue) \in AttRequests
        BY <1>b
      <4>2. QED
        <5>1. ASSUME queue # <<>> PROVE <<Head(queue)>> \in Seq(AttRequests)
          BY <4>1, <5>1
        <5>2. CASE UNCHANGED asked
          BY <1>b, <5>2
        <5>3. CASE queue # <<>> /\ asked' = <<Head(queue)>>
          BY <5>1, <5>3
        <5>4. QED
          BY <2>2, <5>2, <5>3
    <3>3. {inFlight', failed'} \subseteq BOOLEAN
      BY <1>b, <2>2
    <3>4. QED
      BY <1>b, <2>2, <3>1, <3>2, <3>3 DEF AttTypeOK
  <2>4. OneUnderWay'
    BY <2>1, <2>2 DEF OneUnderWay
  <2>5. KnownOrOwed'
    BY <1>a, <2>2 DEF KnownOrOwed
  <2>6. BehindFailed' /\ InFlightQueued'
    BY <1>a, <2>1, <2>2 DEF BehindFailed, InFlightQueued
  <2>7. QED
    BY <2>3, <2>4, <2>5, <2>6 DEF AttInv
<1>4. ASSUME ConnectFailed PROVE AttInv'
  BY <1>4, <1>b, ClosedKeeps DEF ConnectFailed, Close
<1>5. ASSUME Timeout PROVE AttInv'
  <2>1. /\ Finish(TRUE) /\ inFlight /\ UNCHANGED <<attached, channel, known, replies, loud>>
        /\ behind' = (asked # <<>> \/ replies # <<>>)
    BY <1>5 DEF Timeout
  <2>2. behind' => channel = "open"
    BY <1>a, <2>1 DEF OneUnderWay, BehindFailed
  <2>3. CASE queue # <<>>
    <3>1. Sent(Tail(queue), TRUE)
      BY <1>a, <2>1, <2>3, FinishFacts
    <3>2. AttTypeOK'
      BY <1>b, <2>1, <3>1 DEF AttTypeOK, Sent
    <3>3. KnownOrOwed' /\ BehindFailed' /\ InFlightQueued'
      BY <2>1, <2>2, <3>1 DEF KnownOrOwed, BehindFailed, InFlightQueued, Sent
    <3>4. behind' \/ OneUnderWay'
      BY <2>1, <3>1 DEF OneUnderWay, Sent
    <3>5. QED
      BY <3>2, <3>3, <3>4 DEF AttInv
  <2>4. CASE queue = <<>>
    <3>1. inFlight' = FALSE /\ failed' = TRUE /\ UNCHANGED <<queue, asked>>
      BY <2>1, <2>4 DEF Finish
    <3>2. AttTypeOK'
      BY <1>b, <2>1, <3>1 DEF AttTypeOK
    <3>3. KnownOrOwed' /\ BehindFailed' /\ InFlightQueued' /\ (behind' \/ OneUnderWay')
      BY <2>1, <2>2, <3>1 DEF OneUnderWay, KnownOrOwed, BehindFailed, InFlightQueued
    <3>4. QED
      BY <3>2, <3>3 DEF AttInv
  <2>5. QED
    BY <2>3, <2>4
<1>6. ASSUME Received PROVE AttInv'
  <2> DEFINE value == Head(replies).value
  <2>1. /\ channel = "open" /\ replies # <<>> /\ replies' = Tail(replies)
        /\ UNCHANGED <<attached, channel, loud>>
        /\ behind' = (behind /\ (Tail(replies) # <<>> \/ asked # <<>>))
    BY <1>6 DEF Received
  <2>2. replies' \in Seq([to : AttRequests, value : ReplyValues])
    BY <1>b, <2>1
  <2>3. ASSUME ~behind
        PROVE  /\ inFlight /\ asked = <<>> /\ replies' = <<>> /\ queue # <<>>
               /\ Head(queue) \in AttRequests /\ value \in Answers(Head(queue), loud)
    <3>1. PICK answer \in Answers(Head(queue), loud) :
            replies = <<Reply(Head(queue), answer)>> /\ asked = <<>> /\ inFlight /\ queue # <<>>
      BY <1>a, <2>1, <2>3 DEF OneUnderWay
    <3>2. Head(replies).value = answer /\ Tail(replies) = <<>>
      BY <3>1 DEF Reply
    <3>3. QED
      BY <1>b, <2>1, <3>1, <3>2
  <2>4. behind' \in BOOLEAN /\ (behind' \/ (asked = <<>> /\ replies' = <<>>))
    BY <1>b, <2>1, <2>3
  <2>5. (behind' => behind) /\ (behind => failed = TRUE)
    BY <1>a, <1>b, <2>1 DEF BehindFailed
  <2>6. inFlight => queue # <<>>
    BY <1>a, <2>1 DEF InFlightQueued
  <2> HIDE DEF value
  <2>7. ASSUME ~inFlight, UNCHANGED <<queue, inFlight, asked, known, failed>> PROVE AttInv'
    <3>1. behind
      BY <2>3, <2>7
    <3>2. AttTypeOK'
      BY <1>b, <2>1, <2>2, <2>4, <2>7 DEF AttTypeOK
    <3>3. KnownOrOwed' /\ BehindFailed' /\ InFlightQueued'
      BY <2>1, <2>5, <2>7, <3>1 DEF KnownOrOwed, BehindFailed, InFlightQueued
    <3>4. behind' \/ OneUnderWay'
      BY <2>4, <2>7 DEF OneUnderWay
    <3>5. QED
      BY <3>2, <3>3, <3>4 DEF AttInv
  <2>8. ASSUME inFlight, Head(queue).op = "write", value # "error", FinishWrite, UNCHANGED known
        PROVE  AttInv'
    <3> DEFINE q == Append(Tail(queue), ReadBack)
    <3>1. q \in Seq(AttRequests) /\ Owed(q) /\ Tail(q) \in Seq(AttRequests)
      <4>1. Tail(queue) \in Seq(AttRequests)
        BY <1>b, <2>6, <2>8
      <4>2. ReadBack \in AttRequests /\ Tells(ReadBack)
        BY RequestShapes
      <4>3. q \in Seq(AttRequests) /\ q # <<>> /\ Owed(q)
        BY <4>1, <4>2, AppendProperties, AppendOwes
      <4> HIDE DEF q
      <4>4. QED
        BY <4>3
    <3>2. SendNext(q, FALSE, failed) \/ SendNext(Tail(q), FALSE, TRUE)
      BY <2>8 DEF FinishWrite
    <3>3. known' \in LoudSettings \cup {"unknown"}
      BY <1>b, <2>8
    <3> HIDE DEF q
    <3>4. CASE SendNext(q, FALSE, failed)
      <4>1. Sent(q, failed)
        BY <1>a, <1>b, <3>1, <3>4, SendFirst
      <4>2. QED
        BY <1>b, <2>1, <2>2, <2>4, <2>5, <3>1, <3>3, <4>1, SentKeeps
    <3>5. CASE SendNext(Tail(q), FALSE, TRUE)
      <4>1. Sent(Tail(q), TRUE)
        BY <1>a, <3>1, <3>5, SendFirst
      <4>2. QED
        BY <1>b, <2>1, <2>2, <2>4, <2>5, <3>3, <4>1, SentKeeps
    <3>6. QED
      BY <3>2, <3>4, <3>5
  <2>9. ASSUME inFlight, Head(queue).op = "read", Reports(value), Finish(behind),
               known' \in IF value = "blob" THEN LoudSettings ELSE {value}
        PROVE  AttInv'
    <3>1. Sent(Tail(queue), behind)
      BY <1>a, <1>b, <2>6, <2>9, FinishFacts
    <3>2. ASSUME ~behind PROVE known' = loud
      BY <1>b, <2>3, <2>9, <3>2 DEF Answers, Reports, LoudSettings
    <3>3. known' \in LoudSettings \cup {"unknown"}
      <4>1. Head(replies) \in [to : AttRequests, value : ReplyValues]
        BY <1>b, <2>1, HeadTailProperties
      <4>2. value \in ReplyValues
        BY <4>1 DEF value
      <4>3. QED
        BY <2>9, <4>2 DEF Reports, ReplyValues
    <3>4. QED
      BY <1>b, <2>1, <2>2, <2>4, <2>5, <3>1, <3>2, <3>3, SentKeeps
  <2>10. ASSUME inFlight,
                \/ Head(queue).op = "blob"
                \/ Head(queue).op = "write" /\ value = "error"
                \/ Head(queue).op = "read" /\ ~Reports(value),
                Finish(failed \/ value = "error"), UNCHANGED known
         PROVE  AttInv'
    <3> DEFINE fails == failed \/ value = "error"
    <3>1. fails \in BOOLEAN /\ known' \in LoudSettings \cup {"unknown"}
      BY <1>b, <2>10
    <3>2. Sent(Tail(queue), fails)
      BY <1>a, <2>6, <2>10, <3>1, FinishFacts
    <3>3. ASSUME ~fails PROVE ~Tells(Head(queue))
      <4>1. ~behind /\ value # "error"
        BY <2>5, <3>3
      <4>2. Head(queue).op = "blob"
        BY <1>b, <2>3, <2>10, <4>1 DEF Answers, Reports, LoudSettings
      <4>3. QED
        BY <4>2 DEF Tells
    <3>4. fails = TRUE \/ (known' = known /\ fails = failed /\ queue # <<>> /\ ~Tells(Head(queue)))
      BY <1>b, <2>6, <2>10, <3>3
    <3>5. behind' => fails = TRUE
      BY <2>5
    <3> HIDE DEF fails
    <3>6. QED
      BY <2>1, <2>2, <2>4, <3>1, <3>2, <3>4, <3>5, SentKeeps
  <2>11. QED
    BY <1>6, <2>7, <2>8, <2>9, <2>10 DEF Received, value
<1>7. ASSUME LinkComesUp PROVE AttInv'
  <2>1. UNCHANGED <<channel, queue, inFlight, known, asked, replies, loud, failed, behind>>
        /\ attached' = TRUE
    BY <1>7 DEF LinkComesUp
  <2>2. AttTypeOK'
    BY <1>b, <2>1 DEF AttTypeOK
  <2>3. (behind' \/ OneUnderWay') /\ KnownOrOwed' /\ BehindFailed' /\ InFlightQueued'
    BY <1>a, <2>1 DEF OneUnderWay, KnownOrOwed, BehindFailed, InFlightQueued
  <2>4. QED
    BY <2>2, <2>3 DEF AttInv
<1>8. ASSUME PodsAnswer PROVE AttInv'
  <2> DEFINE request == Head(asked)
  <2> DEFINE Frames == [to : AttRequests, value : ReplyValues]
  <2>1. /\ asked # <<>> /\ asked' = Tail(asked) /\ channel = "open"
        /\ UNCHANGED <<attached, channel, queue, inFlight, known, failed>>
        /\ behind' = (behind /\ (asked' # <<>> \/ replies' # <<>>))
    BY <1>8 DEF PodsAnswer
  <2>2. request \in AttRequests /\ asked' \in Seq(AttRequests)
    BY <1>b, <2>1
  <2> HIDE DEF request
  <2>3. /\ loud' \in LoudSettings
        /\ loud' = loud \/ request.op = "write"
        /\ \/ replies' = replies
           \/ \E value \in Answers(request, loud') :
                replies' = Append(replies, Reply(request, value))
    <3>1. CASE /\ request.op = "blob"
               /\ replies' = Append(replies, Reply(request, "blob"))
               /\ UNCHANGED loud
      <4>1. "blob" \in Answers(request, loud')
        BY <3>1 DEF Answers, ReplyValues
      <4>2. QED
        BY <1>b, <3>1, <4>1
    <3>2. CASE /\ request.op = "read"
               /\ replies' = Append(replies, Reply(request, loud))
               /\ UNCHANGED loud
      <4>1. loud \in Answers(request, loud')
        BY <1>b, <3>2 DEF Answers, ReplyValues
      <4>2. QED
        BY <1>b, <3>2, <4>1
    <3>3. CASE /\ request.op = "write"
               /\ loud' = request.loud
               /\ replies' = Append(replies, Reply(request, "none"))
      <4>1. "none" \in Answers(request, loud') /\ request.loud \in LoudSettings
        BY <2>2, <3>3, RequestShapes DEF Answers, ReplyValues
      <4>2. QED
        BY <3>3, <4>1
    <3>4. CASE /\ replies' = Append(replies, Reply(request, "error"))
               /\ UNCHANGED loud
      <4>1. "error" \in Answers(request, loud')
        BY DEF Answers, ReplyValues
      <4>2. QED
        BY <1>b, <3>4, <4>1
    <3>5. CASE /\ loud' \in {loud} \cup ({request.loud} \cap LoudSettings)
               /\ UNCHANGED replies
      <4>1. request.op # "write" => request.loud \notin LoudSettings
        BY <2>2, RequestShapes DEF LoudSettings
      <4>2. QED
        BY <1>b, <3>5, <4>1
    <3>6. QED
      BY <1>8, <3>1, <3>2, <3>3, <3>4, <3>5 DEF PodsAnswer, request
  <2>4. replies' \in Seq(Frames)
    <3>1. ASSUME NEW value \in Answers(request, loud') PROVE Reply(request, value) \in Frames
      BY <2>2, <3>1 DEF Answers, Reply
    <3>2. replies \in Seq(Frames)
      BY <1>b
    <3> HIDE DEF Frames
    <3>3. \A frame \in Frames : Append(replies, frame) \in Seq(Frames)
      BY <3>2, AppendProperties
    <3>4. QED
      BY <2>3, <3>1, <3>2, <3>3
  <2>5. AttTypeOK'
    <3>1. {attached', inFlight', failed', behind'} \subseteq BOOLEAN
      BY <1>b, <2>1
    <3>2. queue' \in Seq(AttRequests) /\ known' \in LoudSettings \cup {"unknown"}
          /\ channel' \in {"closed", "connecting", "open"} /\ loud' \in LoudSettings
      BY <1>b, <2>1, <2>3
    <3>3. QED
      BY <2>2, <2>4, <3>1, <3>2 DEF AttTypeOK
  <2>6. ASSUME ~behind
        PROVE  /\ request = Head(queue) /\ asked' = <<>> /\ replies = <<>> /\ inFlight
               /\ queue # <<>>
    BY <1>a, <2>1, <2>6 DEF OneUnderWay, request
  <2>7. behind' \/ OneUnderWay'
    <3>1. CASE behind
      BY <2>1, <3>1 DEF OneUnderWay
    <3>2. CASE ~behind
      <4>1. \A value : Append(<<>>, Reply(request, value)) = <<Reply(request, value)>>
        OBVIOUS
      <4>2. QED
        BY <2>1, <2>3, <2>6, <3>2, <4>1 DEF OneUnderWay
    <3>3. QED
      BY <3>1, <3>2
  <2>8. KnownOrOwed'
    <3>1. CASE behind
      BY <1>a, <2>1, <3>1 DEF BehindFailed, KnownOrOwed
    <3>2. CASE ~behind /\ request.op = "write"
      <4>1. 1 \in DOMAIN queue /\ Tells(queue[1])
        BY <1>b, <2>6, <3>2 DEF Tells
      <4>2. QED
        BY <2>1, <4>1 DEF KnownOrOwed, Owed
    <3>3. CASE loud' = loud
      BY <1>a, <2>1, <3>3 DEF KnownOrOwed
    <3>4. QED
      BY <2>3, <3>1, <3>2, <3>3
  <2>9. BehindFailed' /\ InFlightQueued'
    BY <1>a, <2>1 DEF BehindFailed, InFlightQueued
  <2>10. QED
    BY <2>5, <2>7, <2>8, <2>9 DEF AttInv
<1>9. ASSUME PodsClose PROVE AttInv'
  BY <1>9, <1>b, ClosedKeeps DEF PodsClose
<1>10. ASSUME UNCHANGED attVars PROVE AttInv'
  <2>1. AttTypeOK'
    BY <1>b, <1>10 DEF attVars, AttTypeOK
  <2>2. (behind' \/ OneUnderWay') /\ KnownOrOwed' /\ BehindFailed' /\ InFlightQueued'
    BY <1>a, <1>10 DEF attVars, OneUnderWay, KnownOrOwed, BehindFailed, InFlightQueued
  <2>3. QED
    BY <2>1, <2>2 DEF AttInv
<1>11. QED
  BY <1>1, <1>2, <1>3, <1>4, <1>5, <1>6, <1>7, <1>8, <1>9, <1>10 DEF AttNext

\* So every state of the channel has them.
LEMMA AttInvariant == AttSpec => []AttInv
<1>1. AttInv /\ [AttNext]_attVars => AttInv'
  BY AttInductive
<1>2. QED
  BY <1>1, AttInitially, PTL DEF AttSpec

\* A reply is credited to the request it answers, whatever sends fail, whatever the pods leave
\* unanswered and however the channel closes and opens again, until a request times out with its
\* answer still to come; and again once that answer is in and nothing else is under way, or the
\* channel has closed (attclient.cpp onReadable).
THEOREM AnswersFindTheirOwn == AttSpec => []AnswersItsOwn
<1>1. AttInv => AnswersItsOwn
  <2> SUFFICES ASSUME AttInv, ~behind PROVE AnswersItsOwn
    BY DEF AnswersItsOwn
  <2>1. CASE asked = <<>> /\ replies = <<>>
    BY <2>1 DEF AnswersItsOwn
  <2>2. CASE inFlight /\ asked = <<Head(queue)>> /\ replies = <<>>
    BY <2>2 DEF AnswersItsOwn
  <2>3. ASSUME NEW value, inFlight, asked = <<>>, replies = <<Reply(Head(queue), value)>>
        PROVE  AnswersItsOwn
    BY <2>3 DEF AnswersItsOwn, Reply
  <2>4. QED
    BY <2>1, <2>2, <2>3 DEF AttInv, OneUnderWay
<1>2. QED
  BY <1>1, AttInvariant, PTL

\* And the status has what the pods have once all is done and nothing has failed since the last
\* read-back that was in step, late answers before it or none (main.cpp setLoudSoundReduction).
THEOREM StatusIsReadBack == AttSpec => []ReadBackTells
<1>1. AttInv => ReadBackTells
  <2>1. queue = <<>> => ~Owed(queue)
    BY DEF Owed
  <2>2. QED
    BY <2>1 DEF AttInv, KnownOrOwed, ReadBackTells
<1>2. QED
  BY <1>1, AttInvariant, PTL

-----------------------------------------------------------------------------
\* PodSettings

\* The values of a setting are among all values.
LEMMA ValuesAreAny == \A s : Values(s) \subseteq AnyValue
BY DEF Values, AnyValue, On, Off

\* What a frame can be.
LEMMA PodFrameShapes ==
  /\ \A s \in Settings : \A value \in Values(s) : SetFrame(s, value) \in PodFrames
  /\ \A mask \in BOOLEAN : Notify(mask) \in PodFrames
  /\ \A frame \in PodFrames :
       \/ /\ frame.op = "set" /\ frame.id \in Settings /\ frame.value \in Values(frame.id)
          /\ frame = SetFrame(frame.id, frame.value)
       \/ frame.op = "notify" /\ frame.quiet \in BOOLEAN
<1>1. \A s \in Settings : \A value \in Values(s) : SetFrame(s, value) \in PodFrames
  BY ValuesAreAny DEF PodFrames, SetFrame
<1>2. \A mask \in BOOLEAN : Notify(mask) \in PodFrames
  BY DEF PodFrames, Notify
<1>3. ASSUME NEW frame \in PodFrames
      PROVE  \/ /\ frame.op = "set" /\ frame.id \in Settings /\ frame.value \in Values(frame.id)
                /\ frame = SetFrame(frame.id, frame.value)
             \/ frame.op = "notify" /\ frame.quiet \in BOOLEAN
  <2>1. CASE frame \in [op : {"set"}, id : Settings, value : AnyValue]
             /\ frame.value \in Values(frame.id)
    BY <2>1 DEF SetFrame
  <2>2. CASE frame \in [op : {"notify"}, quiet : BOOLEAN]
    BY <2>2
  <2>3. QED
    BY <2>1, <2>2 DEF PodFrames
<1>4. QED
  BY <1>1, <1>2, <1>3

\* What the pods can send.
LEMMA HostFrameShapes ==
  /\ Ack \in HostFrames
  /\ \A s \in Echoed : \A value \in Values(s) : Echo(s, value) \in HostFrames
  /\ \A values \in [Echoed -> AnyValue] :
       (\A s \in Echoed : values[s] \in Values(s)) => Burst(values) \in HostFrames
  /\ \A frame \in HostFrames :
       \/ frame.op = "ack"
       \/ frame.op = "echo" /\ frame.id \in Echoed /\ frame.value \in Values(frame.id)
       \/ frame.op = "burst" /\ \A s \in Echoed : frame.values[s] \in Values(s)
<1>1. Ack \in HostFrames
  BY DEF HostFrames, Ack
<1>2. \A s \in Echoed : \A value \in Values(s) : Echo(s, value) \in HostFrames
  BY ValuesAreAny, SettingsAssumption DEF HostFrames, Echo
<1>3. \A values \in [Echoed -> AnyValue] :
        (\A s \in Echoed : values[s] \in Values(s)) => Burst(values) \in HostFrames
  BY DEF HostFrames, Burst
<1>4. ASSUME NEW frame \in HostFrames
      PROVE  \/ frame.op = "ack"
             \/ frame.op = "echo" /\ frame.id \in Echoed /\ frame.value \in Values(frame.id)
             \/ frame.op = "burst" /\ \A s \in Echoed : frame.values[s] \in Values(s)
  BY DEF HostFrames
<1>5. QED
  BY <1>1, <1>2, <1>3, <1>4

\* What lies in a queue after one more, or one less.
LEMMA QueueFacts ==
  ASSUME NEW S, NEW frames \in Seq(S)
  PROVE  /\ Len(frames) \in Nat
         /\ \A frame \in S : /\ Append(frames, frame) \in Seq(S)
                             /\ Len(Append(frames, frame)) = Len(frames) + 1
                             /\ Range(Append(frames, frame)) = Range(frames) \cup {frame}
         /\ frames # <<>> => /\ Head(frames) \in S /\ Tail(frames) \in Seq(S)
                             /\ Len(Tail(frames)) = Len(frames) - 1
                             /\ Range(frames) = {Head(frames)} \cup Range(Tail(frames))
<1>1. Len(frames) \in Nat
  OBVIOUS
<1>2. ASSUME NEW frame \in S
      PROVE  /\ Append(frames, frame) \in Seq(S)
             /\ Len(Append(frames, frame)) = Len(frames) + 1
             /\ Range(Append(frames, frame)) = Range(frames) \cup {frame}
  <2>1. Append(frames, frame) \in Seq(S) /\ Len(Append(frames, frame)) = Len(frames) + 1
    OBVIOUS
  <2>2. <<frame>> \in Seq(S) /\ Append(frames, frame) = frames \o <<frame>>
    OBVIOUS
  <2>3. Range(<<frame>>) = {frame}
    BY DEF Range
  <2>4. Range(Append(frames, frame)) = Range(frames) \cup {frame}
    <3> DEFINE last == <<frame>>
    <3>1. last \in Seq(S) /\ Append(frames, frame) = frames \o last /\ Range(last) = {frame}
      BY <2>2, <2>3
    <3> HIDE DEF last
    <3>2. Range(frames \o last) = Range(frames) \cup Range(last)
      BY <3>1, RangeConcatenation
    <3>3. QED
      BY <3>1, <3>2
  <2>5. QED
    BY <2>1, <2>4
<1>3. ASSUME frames # <<>>
      PROVE  /\ Head(frames) \in S /\ Tail(frames) \in Seq(S)
             /\ Len(Tail(frames)) = Len(frames) - 1
             /\ Range(frames) = {Head(frames)} \cup Range(Tail(frames))
  <2>1. /\ Head(frames) \in S /\ Tail(frames) \in Seq(S)
        /\ Len(Tail(frames)) = Len(frames) - 1
    BY <1>3
  <2>2. <<Head(frames)>> \in Seq(S) /\ frames = <<Head(frames)>> \o Tail(frames)
    BY <1>3
  <2>3. Range(<<Head(frames)>>) = {Head(frames)}
    BY DEF Range
  <2>4. Range(<<Head(frames)>> \o Tail(frames)) = {Head(frames)} \cup Range(Tail(frames))
    <3> DEFINE first == <<Head(frames)>>
    <3> DEFINE rest == Tail(frames)
    <3>1. first \in Seq(S) /\ Range(first) = {Head(frames)} /\ rest \in Seq(S)
      BY <2>1, <2>2, <2>3
    <3> HIDE DEF first, rest
    <3>2. Range(first \o rest) = Range(first) \cup Range(rest)
      BY <3>1, RangeConcatenation
    <3>3. QED
      BY <3>1, <3>2 DEF first, rest
  <2>5. QED
    BY <2>1, <2>2, <2>4
<1>4. QED
  BY <1>1, <1>2, <1>3

\* Nothing lies in an empty queue.
LEMMA EmptyQueue == Range(<<>>) = {}
BY DEF Range

\* The sequence of a finite set has each of its elements, and no more.
LEMMA SetToSeqFacts ==
  ASSUME NEW S, IsFiniteSet(S)
  PROVE  /\ SetToSeq(S) \in Seq(S) /\ Len(SetToSeq(S)) = Cardinality(S)
         /\ Range(SetToSeq(S)) = S /\ Cardinality(S) \in Nat
<1> DEFINE n == Cardinality(S)
<1> DEFINE f == SetToSeq(S)
<1>1. n \in Nat /\ ExistsBijection(1 .. n, S)
  BY FS_CardinalityType
<1>2. \E g \in [1 .. n -> S] : IsInjective(g)
  BY <1>1 DEF ExistsBijection, Bijection, Injection
<1>3. f \in [1 .. n -> S] /\ IsInjective(f)
  BY <1>2 DEF SetToSeq
<1> HIDE DEF f
<1>4. f \in Seq(S) /\ Len(f) = n
  BY <1>1, <1>3
<1>5. f \in Surjection(1 .. n, S)
  <2>1. f \in Injection(1 .. n, S)
    BY <1>3 DEF Injection
  <2>2. IsFiniteSet(1 .. n) /\ Cardinality(1 .. n) = n
    BY <1>1, FS_Interval
  <2>3. QED
    BY <2>1, <2>2, FS_Injection
<1>6. Range(f) = S
  BY <1>3, <1>5 DEF Surjection, Range
<1>7. QED
  BY <1>1, <1>4, <1>6 DEF f

\* At most one frame is due for a setting.
LEMMA DueFacts ==
  ASSUME SettingsTypeOK
  PROVE  /\ IsFiniteSet(Due) /\ Due \subseteq PodFrames
         /\ \A frame \in Due :
              /\ frame.op = "set" /\ frame.id \in Settings
              /\ desired[frame.id] = {frame.value}
         /\ \A s \in Settings :
              ReassertFor(s) => \E frame \in Due : frame.op = "set" /\ frame.id = s
<1>1. \A s \in Settings : desired[s] = {} \/ \E value \in Values(s) : desired[s] = {value}
  BY DEF SettingsTypeOK, Optional
<1>2. ASSUME NEW frame \in Due
      PROVE  /\ frame \in PodFrames /\ frame.op = "set" /\ frame.id \in Settings
             /\ desired[frame.id] = {frame.value}
             /\ \E s \in Settings : frame = SetFrame(s, CHOOSE value : value \in desired[s])
  <2>1. PICK s \in Settings : \E value \in desired[s] : frame = SetFrame(s, value)
    BY DEF Due
  <2>2. PICK value \in Values(s) : desired[s] = {value} /\ frame = SetFrame(s, value)
    BY <1>1, <2>1
  <2>3. (CHOOSE v : v \in desired[s]) = value
    BY <2>2
  <2>4. frame \in PodFrames
    BY <2>2, PodFrameShapes
  <2>5. frame.op = "set" /\ frame.id = s /\ frame.value = value
    BY <2>2 DEF SetFrame
  <2>6. QED
    BY <2>2, <2>3, <2>4, <2>5
<1>3. IsFiniteSet(Due)
  <2> DEFINE framing == [s \in Settings |-> SetFrame(s, CHOOSE value : value \in desired[s])]
  <2>1. framing \in Surjection(Settings, Range(framing))
    BY DEF Surjection, Range
  <2>2. IsFiniteSet(Range(framing))
    BY <2>1, FS_Surjection, SettingsAssumption
  <2>3. Due \subseteq Range(framing)
    BY <1>2 DEF Range
  <2>4. QED
    BY <2>2, <2>3, FS_Subset
<1>4. ASSUME NEW s \in Settings, ReassertFor(s)
      PROVE  \E frame \in Due : frame.op = "set" /\ frame.id = s
  <2>1. PICK value : value \in desired[s]
    BY <1>1, <1>4 DEF ReassertFor
  <2>2. SetFrame(s, value) \in Due
    BY <1>4, <2>1 DEF Due
  <2>3. QED
    BY <2>2 DEF SetFrame
<1>5. QED
  BY <1>2, <1>3, <1>4

\* What is under way, by what the queues hold.
LEMMA UnderWay ==
  ASSUME NEW frames, NEW s
  PROVE  /\ About(frames, s) <=>
              \E frame \in Range(frames) : frame.op \in {"set", "echo"} /\ frame.id = s
         /\ Reporting(frames) <=> \E frame \in Range(frames) : frame.op \in {"notify", "burst"}
BY DEF About, Reporting, Range

\* A bud is added to buds.
LEMMA EncodeTyped ==
  ASSUME SettingsTypeOK, NEW s \in Settings, NEW request \in Requests(s)
  PROVE  Encode(s, request) \in Values(s)
<1>1. CASE s # Hold
  BY <1>1 DEF Encode, Requests, Values
<1>2. CASE s = Hold
  <2>1. CurrentSettingBytes(desired, s) \in Optional(SUBSET Buds)
    BY <1>2 DEF CurrentSettingBytes, SettingsTypeOK, Values
  <2>2. UNION CurrentSettingBytes(desired, s) \subseteq Buds
    BY <2>1 DEF Optional
  <2>3. request \subseteq Buds
    BY <1>2 DEF Requests
  <2>4. QED
    BY <1>2, <2>2, <2>3 DEF Encode, Values
<1>3. QED
  BY <1>1, <1>2

\* What a verb does to the wishes and to what is under way.
VerbSaves(s, value) ==
  /\ desired' = [desired EXCEPT ![s] = {value}]
  /\ sure' = [sure EXCEPT ![s] = Calm(s)]
  /\ UNCHANGED <<linkVars, echoed, resend, reassert, stale, burst, podsVars, toHost, forgotten>>

VerbWrites(s, value) ==
  /\ toPods' \in Seq(PodFrames) /\ Len(toPods') <= MaxFrames
  /\ Range(toPods') = Range(toPods) \cup {SetFrame(s, value)}
       \cup (IF s = EarDetection THEN {RequestNotificationsPacket(desired')} ELSE {})

\* The notification request is a frame.
LEMMA RequestTyped ==
  ASSUME NEW wishes
  PROVE  RequestNotificationsPacket(wishes) \in PodFrames
BY PodFrameShapes DEF RequestNotificationsPacket

\* A verb saves its value, and writes it unless the pods echoed it.
LEMMA VerbFacts ==
  ASSUME SettingsTypeOK, NEW s \in Settings, NEW request \in Requests(s),
         SetPodSetting(s, request)
  PROVE  \E value \in Values(s) :
           /\ value = Encode(s, request)
           /\ VerbSaves(s, value)
           /\ \/ echoed[s] = {value} /\ UNCHANGED toPods
              \/ echoed[s] # {value} /\ link = "open" /\ VerbWrites(s, value)
<1> DEFINE value == Encode(s, request)
<1> DEFINE wishes == [desired EXCEPT ![s] = {value}]
<1> DEFINE frames == <<SetFrame(s, value)>> \o
                     (IF s = EarDetection THEN <<RequestNotificationsPacket(wishes)>> ELSE <<>>)
<1>1. value \in Values(s)
  BY EncodeTyped
<1>2. VerbSaves(s, value)
  BY DEF SetPodSetting, VerbSaves
<1>3. \/ echoed[s] = {value} /\ UNCHANGED toPods
      \/ /\ echoed[s] # {value} /\ link = "open" /\ Len(toPods \o frames) <= MaxFrames
         /\ toPods' = toPods \o frames
  BY DEF SetPodSetting
<1>4. desired' = wishes
  BY DEF SetPodSetting
<1>5. ASSUME echoed[s] # {value}, toPods' = toPods \o frames, Len(toPods \o frames) <= MaxFrames
      PROVE  VerbWrites(s, value)
  <2>1. SetFrame(s, value) \in PodFrames /\ RequestNotificationsPacket(wishes) \in PodFrames
    BY <1>1, PodFrameShapes, RequestTyped
  <2>2. frames \in Seq(PodFrames)
        /\ Range(frames) = {SetFrame(s, value)}
             \cup (IF s = EarDetection THEN {RequestNotificationsPacket(wishes)} ELSE {})
    <3> DEFINE set == SetFrame(s, value)
    <3> DEFINE ask == RequestNotificationsPacket(wishes)
    <3>1. set \in PodFrames /\ ask \in PodFrames
      BY <2>1
    <3> HIDE DEF set, ask
    <3> DEFINE first == <<set>>
    <3> DEFINE rest == IF s = EarDetection THEN <<ask>> ELSE <<>>
    <3>2. first \in Seq(PodFrames) /\ Range(first) = {set}
      BY <3>1 DEF Range
    <3>3. rest \in Seq(PodFrames) /\ Range(rest) = IF s = EarDetection THEN {ask} ELSE {}
      <4>1. <<ask>> \in Seq(PodFrames) /\ Range(<<ask>>) = {ask}
        BY <3>1 DEF Range
      <4>2. <<>> \in Seq(PodFrames) /\ Range(<<>>) = {}
        BY EmptyQueue
      <4>3. QED
        BY <4>1, <4>2
    <3>4. frames = first \o rest
      BY DEF set, ask
    <3> HIDE DEF first, rest, frames
    <3>5. frames \in Seq(PodFrames) /\ Range(frames) = Range(first) \cup Range(rest)
      BY <3>2, <3>3, <3>4, RangeConcatenation
    <3>6. QED
      BY <3>2, <3>3, <3>5 DEF set, ask
  <2> HIDE DEF frames
  <2>3. toPods \in Seq(PodFrames)
    BY DEF SettingsTypeOK
  <2>4. Range(toPods \o frames) = Range(toPods) \cup Range(frames)
    BY <2>2, <2>3, RangeConcatenation
  <2>5. toPods' \in Seq(PodFrames)
    BY <1>5, <2>2, <2>3
  <2>6. QED
    BY <1>4, <1>5, <2>2, <2>4, <2>5 DEF VerbWrites
<1>6. QED
  BY <1>1, <1>2, <1>3, <1>5

\* What a queue gains from a request of notifications, and from the sticky wishes.
Asks ==
  /\ toPods' \in Seq(PodFrames) /\ Len(toPods') <= MaxFrames
  /\ toPods' = Append(toPods, RequestNotificationsPacket(desired))
  /\ Range(toPods') = Range(toPods) \cup {RequestNotificationsPacket(desired)}

Reasserts ==
  /\ toPods' \in Seq(PodFrames) /\ Len(toPods') <= MaxFrames
  /\ \E due \in Seq(Due) : toPods' = toPods \o due
  /\ Range(toPods') = Range(toPods) \cup Due

\* A request of notifications that fits the queue.
LEMMA AskFacts ==
  ASSUME SettingsTypeOK, Len(toPods) < MaxFrames,
         toPods' = Append(toPods, RequestNotificationsPacket(desired))
  PROVE  Asks
<1>1. toPods \in Seq(PodFrames) /\ RequestNotificationsPacket(desired) \in PodFrames
  BY RequestTyped DEF SettingsTypeOK
<1>2. /\ toPods' \in Seq(PodFrames) /\ Len(toPods') = Len(toPods) + 1 /\ Len(toPods) \in Nat
      /\ Range(toPods') = Range(toPods) \cup {RequestNotificationsPacket(desired)}
  BY <1>1, QueueFacts
<1>3. Len(toPods') <= MaxFrames
  BY <1>2, BoundAssumption
<1>4. QED
  BY <1>2, <1>3 DEF Asks

\* The sticky wishes are sent again on an open link only.
LEMMA ReassertFacts ==
  ASSUME SettingsTypeOK, ReassertStickySettings
  PROVE  (link = "open" /\ Reasserts) \/ (link # "open" /\ UNCHANGED toPods)
<1>1. CASE link = "open"
  <2> DEFINE due == SetToSeq(Due)
  <2>1. /\ due \in Seq(Due) /\ Len(due) = Cardinality(Due) /\ Range(due) = Due
        /\ Cardinality(Due) \in Nat
    BY DueFacts, SetToSeqFacts
  <2>2. toPods \in Seq(PodFrames) /\ toPods' = toPods \o due
        /\ Len(toPods) + Cardinality(Due) <= MaxFrames
    BY <1>1 DEF SettingsTypeOK, ReassertStickySettings
  <2>3. Due \subseteq PodFrames
    BY DueFacts
  <2> HIDE DEF due
  <2>4. due \in Seq(PodFrames)
    BY <2>1, <2>3
  <2>5. Range(toPods') = Range(toPods) \cup Due
    BY <2>1, <2>2, <2>4, RangeConcatenation
  <2>6. toPods' \in Seq(PodFrames) /\ Len(toPods') = Len(toPods) + Len(due)
    BY <2>2, <2>4
  <2>7. QED
    BY <1>1, <2>1, <2>2, <2>5, <2>6 DEF Reasserts
<1>2. CASE link # "open"
  BY <1>2 DEF ReassertStickySettings
<1>3. QED
  BY <1>1, <1>2

-----------------------------------------------------------------------------
\* Types, one group of variables at a time

\* The link, its report and its timers.
LEMMA TimersTyped ==
  ASSUME SettingsTypeOK, [Next]_vars
  PROVE  /\ link' \in {"down", "open"} /\ burst' \in {"none", "asked", "read"}
         /\ {recovery', resend', reassert', stale', quiet', forgotten'} \subseteq BOOLEAN
<1> DEFINE Typed ==
      /\ link' \in {"down", "open"} /\ burst' \in {"none", "asked", "read"}
      /\ {recovery', resend', reassert', stale', quiet', forgotten'} \subseteq BOOLEAN
<1> USE DEF linkVars, podsVars, history
<1>t. /\ link \in {"down", "open"} /\ burst \in {"none", "asked", "read"}
      /\ {recovery, resend, reassert, stale, quiet, forgotten} \subseteq BOOLEAN
  BY DEF SettingsTypeOK
<1>1. ASSUME NEW s \in Settings, NEW request \in Requests(s), SetPodSetting(s, request) PROVE Typed
  BY <1>1, <1>t DEF SetPodSetting
<1>2. CASE LinkOpens
  <2>1. UNCHANGED <<burst, resend, reassert, stale, quiet, forgotten>>
    BY <1>2 DEF LinkOpens, daemonVars
  <2>2. link' = "open" /\ recovery' \in {recovery, FALSE}
    BY <1>2 DEF LinkOpens
  <2>3. QED
    BY <1>t, <2>1, <2>2
<1>3. ASSUME FeaturesAck PROVE Typed
  <2>1. UNCHANGED <<link, recovery, quiet, forgotten>>
    BY <1>3 DEF FeaturesAck
  <2>2. burst' \in {"asked", burst} /\ {resend', reassert', stale'} \subseteq BOOLEAN
    BY <1>3, <1>t DEF FeaturesAck
  <2>3. QED
    BY <1>t, <2>1, <2>2
<1>4. CASE Record
  BY <1>4, <1>t DEF Record
<1>5. ASSUME ResendShot PROVE Typed
  <2>1. resend' = FALSE /\ UNCHANGED <<link, recovery, reassert, stale, burst, quiet, forgotten>>
    BY <1>5 DEF ResendShot
  <2>2. QED
    BY <1>t, <2>1
<1>6. ASSUME ReassertShot PROVE Typed
  <2>1. reassert' = FALSE /\ UNCHANGED <<link, recovery, resend, stale, burst, quiet, forgotten>>
    BY <1>6 DEF ReassertShot
  <2>2. QED
    BY <1>t, <2>1
<1>7. ASSUME StaleShot PROVE Typed
  <2>1. /\ UNCHANGED <<link, recovery, resend, reassert, burst, quiet, forgotten>>
        /\ stale' \in BOOLEAN
    BY <1>7 DEF StaleShot
  <2>2. QED
    BY <1>t, <2>1
<1>8. ASSUME LinkLost PROVE Typed
  <2>1. /\ burst' = "none" /\ resend' = FALSE /\ reassert' = FALSE /\ quiet' = FALSE
        /\ forgotten' = FALSE /\ stale' = (stale \/ resend \/ reassert)
    BY <1>8 DEF LinkLost, LinkGone
  <2>2. link' = "down" /\ recovery' \in BOOLEAN
    BY <1>8 DEF LinkLost
  <2>3. stale' \in BOOLEAN
    BY <1>t, <2>1
  <2>4. QED
    BY <2>1, <2>2, <2>3
<1>9. ASSUME Finalized PROVE Typed
  <2>1. /\ UNCHANGED <<link, resend, reassert, stale, burst, quiet>>
        /\ recovery' = FALSE /\ forgotten' \in BOOLEAN
    BY <1>9 DEF Finalized
  <2>2. QED
    BY <1>t, <2>1
<1>10. CASE Restart
  BY <1>10 DEF Restart
<1>11. ASSUME PodsServe PROVE Typed
  <2>1. quiet' \in BOOLEAN
    <3>1. Head(toPods) \in PodFrames
      BY <1>11, QueueFacts DEF PodsServe, SettingsTypeOK
    <3>2. Head(toPods).op = "notify" => Head(toPods).quiet \in BOOLEAN
      BY <3>1, PodFrameShapes
    <3>3. QED
      BY <1>11, <1>t, <3>2 DEF PodsServe
  <2>2. QED
    BY <1>11, <1>t, <2>1 DEF PodsServe, daemonVars
<1>12. CASE PodsChange
  BY <1>12, <1>t DEF PodsChange, daemonVars
<1>13. ASSUME RecoveryBegins \/ FinishControlRecovery PROVE Typed
  <2>1. /\ UNCHANGED <<link, resend, reassert, stale, burst, quiet, forgotten>>
        /\ recovery' \in BOOLEAN
    BY <1>13 DEF RecoveryBegins, FinishControlRecovery, daemonVars
  <2>2. QED
    BY <1>t, <2>1
<1>14. CASE UNCHANGED vars
  BY <1>14, <1>t DEF vars, daemonVars
<1>15. QED
  BY <1>1, <1>2, <1>3, <1>4, <1>5, <1>6, <1>7, <1>8, <1>9, <1>10, <1>11, <1>12, <1>13, <1>14
  DEF Next

\* The wishes, and which of them are sure.
LEMMA WishesTyped ==
  ASSUME SettingsTypeOK, [Next]_vars
  PROVE  /\ desired' \in [Settings -> Optional(AnyValue)] /\ sure' \in [Settings -> BOOLEAN]
         /\ \A s \in Settings : desired'[s] \in Optional(Values(s))
<1> DEFINE Typed ==
      /\ desired' \in [Settings -> Optional(AnyValue)] /\ sure' \in [Settings -> BOOLEAN]
      /\ \A s \in Settings : desired'[s] \in Optional(Values(s))
<1>t. /\ desired \in [Settings -> Optional(AnyValue)] /\ sure \in [Settings -> BOOLEAN]
      /\ \A s \in Settings : desired[s] \in Optional(Values(s))
  BY DEF SettingsTypeOK
<1>n. NoneSure \in [Settings -> BOOLEAN]
  BY DEF NoneSure
<1>1. ASSUME NEW s \in Settings, NEW request \in Requests(s), SetPodSetting(s, request) PROVE Typed
  <2>1. PICK value \in Values(s) : VerbSaves(s, value)
    BY <1>1, VerbFacts
  <2>2. {value} \in Optional(Values(s)) /\ {value} \in Optional(AnyValue)
    BY ValuesAreAny DEF Optional
  <2>3. Calm(s) \in BOOLEAN
    BY DEF Calm
  <2>4. desired' = [desired EXCEPT ![s] = {value}] /\ sure' = [sure EXCEPT ![s] = Calm(s)]
    BY <2>1 DEF VerbSaves
  <2>5. desired' \in [Settings -> Optional(AnyValue)]
        /\ \A r \in Settings : desired'[r] \in Optional(Values(r))
    BY <1>t, <2>2, <2>4
  <2>6. sure' \in [Settings -> BOOLEAN]
    BY <1>t, <2>3, <2>4
  <2>7. QED
    BY <2>5, <2>6
<1>2. CASE UNCHANGED <<desired, sure>>
  BY <1>2, <1>t
<1>3. CASE desired' = desired /\ sure' = NoneSure
  BY <1>3, <1>t, <1>n
<1>4. ASSUME ReassertShot PROVE Typed
  <2>1. desired' = desired
        /\ sure' = [s \in Settings |->
                      sure[s] \/ (s \in Sticky /\ ~About(toPods, s) /\ ~About(toHost, s))]
    BY <1>4 DEF ReassertShot
  <2>2. sure' \in [Settings -> BOOLEAN]
    BY <2>1
  <2>3. QED
    BY <1>t, <2>1, <2>2
<1>5. ASSUME PodsChange PROVE Typed
  <2>1. PICK s \in Settings : sure' = [sure EXCEPT ![s] = FALSE]
    BY <1>5 DEF PodsChange
  <2>2. desired' = desired
    BY <1>5 DEF PodsChange, daemonVars
  <2>3. QED
    BY <1>t, <2>1, <2>2
<1>6. LinkOpens \/ RecoveryBegins \/ FinishControlRecovery \/ FeaturesAck \/ Record \/ ResendShot \/
        StaleShot \/ Finalized \/ PodsServe
        \/ UNCHANGED vars => UNCHANGED <<desired, sure>>
  BY DEF LinkOpens, RecoveryBegins, FinishControlRecovery, FeaturesAck, Record, ResendShot,
         StaleShot, Finalized, PodsServe, vars,
         daemonVars, linkVars, history
<1>7. LinkLost \/ Restart => desired' = desired /\ sure' = NoneSure
  BY DEF LinkLost, LinkGone, Restart
<1>8. QED
  BY <1>1, <1>2, <1>3, <1>4, <1>5, <1>6, <1>7 DEF Next

\* The echoes.
LEMMA EchoesTyped ==
  ASSUME SettingsTypeOK, [Next]_vars
  PROVE  /\ echoed' \in [Settings -> Optional(AnyValue)]
         /\ \A s \in Settings : echoed'[s] \in Optional(Values(s))
<1> DEFINE Typed ==
      /\ echoed' \in [Settings -> Optional(AnyValue)]
      /\ \A s \in Settings : echoed'[s] \in Optional(Values(s))
<1>t. /\ echoed \in [Settings -> Optional(AnyValue)]
      /\ \A s \in Settings : echoed[s] \in Optional(Values(s))
  BY DEF SettingsTypeOK
<1>1. CASE UNCHANGED echoed
  BY <1>1, <1>t
<1>2. ASSUME echoed' = Nothing PROVE Typed
  BY <1>2 DEF Nothing, Optional
<1>3. ASSUME Record PROVE Typed
  <2> DEFINE frame == Head(toHost)
  <2>1. frame \in HostFrames
    BY <1>3, QueueFacts DEF Record, SettingsTypeOK
  <2>2. \A s \in Settings : \A value \in Values(s) :
          {value} \in Optional(Values(s)) /\ {value} \in Optional(AnyValue)
    BY ValuesAreAny DEF Optional
  <2>3. CASE frame.op = "echo"
    <3>1. frame.id \in Settings /\ frame.value \in Values(frame.id)
      BY <2>1, <2>3, HostFrameShapes, SettingsAssumption
    <3>2. echoed' = [echoed EXCEPT ![frame.id] = {frame.value}]
      BY <1>3, <2>3 DEF Record
    <3> HIDE DEF frame
    <3>3. QED
      BY <1>t, <2>2, <3>1, <3>2
  <2>4. CASE frame.op # "echo"
    <3>1. frame.op = "burst"
      BY <1>3, <2>4 DEF Record
    <3>2. \A s \in Echoed : frame.values[s] \in Values(s)
      BY <2>1, <3>1, HostFrameShapes
    <3>3. echoed' = [s \in Settings |-> IF s \in Echoed THEN {frame.values[s]} ELSE echoed[s]]
      BY <1>3, <2>4 DEF Record
    <3> HIDE DEF frame
    <3>4. QED
      BY <1>t, <2>2, <3>2, <3>3
  <2>5. QED
    BY <2>3, <2>4
<1>4. (\E s \in Settings : \E request \in Requests(s) : SetPodSetting(s, request))
        => UNCHANGED echoed
  BY DEF SetPodSetting
<1>5. LinkOpens \/ RecoveryBegins \/ FinishControlRecovery \/ FeaturesAck \/ ResendShot \/
        ReassertShot \/ StaleShot \/ PodsServe \/ PodsChange
        \/ UNCHANGED vars => UNCHANGED echoed
  BY DEF LinkOpens, RecoveryBegins, FinishControlRecovery, FeaturesAck, ResendShot, ReassertShot,
         StaleShot, PodsServe, PodsChange, vars,
         daemonVars
<1>6. LinkLost \/ Finalized \/ Restart => UNCHANGED echoed \/ echoed' = Nothing
  BY DEF LinkLost, Finalized, Restart
<1>7. QED
  BY <1>1, <1>2, <1>3, <1>4, <1>5, <1>6 DEF Next

\* What the pods do with the first frame, by what it is.
LEMMA ServeFacts ==
  ASSUME SettingsTypeOK, PodsServe
  PROVE  /\ toPods # <<>> /\ Head(toPods) \in PodFrames /\ toPods' = Tail(toPods)
         /\ Len(toHost) < MaxFrames /\ UNCHANGED <<linkVars, daemonVars, history>>
         /\ Head(toPods).op = "set" =>
              /\ Head(toPods).id \in Settings /\ Head(toPods).value \in Values(Head(toPods).id)
              /\ pods' = [pods EXCEPT ![Head(toPods).id] = Head(toPods).value]
              /\ quiet' = quiet
              /\ \/ /\ Head(toPods).id \in Echoed /\ pods' # pods
                    /\ toHost' = Append(toHost, Echo(Head(toPods).id, Head(toPods).value))
                 \/ (Head(toPods).id \notin Echoed \/ pods' = pods) /\ toHost' = toHost
         /\ Head(toPods).op # "set" =>
              /\ Head(toPods).op = "notify" /\ quiet' = Head(toPods).quiet
              /\ \/ burst = "asked"
                 \/ pods' = pods
              /\ pods' \in [Settings -> AnyValue]
              /\ \A s \in Settings : pods'[s] \in Values(s) /\ (s \notin Sticky => pods'[s] = pods[s])
              /\ toHost' = Append(toHost, Burst([s \in Echoed |-> pods'[s]]))
<1> DEFINE frame == Head(toPods)
<1>1. toPods # <<>> /\ frame \in PodFrames /\ toPods' = Tail(toPods) /\ Len(toHost) < MaxFrames
  BY QueueFacts DEF PodsServe, SettingsTypeOK
<1>2. UNCHANGED <<linkVars, daemonVars, history>>
  BY DEF PodsServe
<1>3. ASSUME frame.op = "set"
      PROVE  /\ frame.id \in Settings /\ frame.value \in Values(frame.id)
             /\ pods' = [pods EXCEPT ![frame.id] = frame.value] /\ quiet' = quiet
             /\ \/ /\ frame.id \in Echoed /\ pods' # pods
                   /\ toHost' = Append(toHost, Echo(frame.id, frame.value))
                \/ (frame.id \notin Echoed \/ pods' = pods) /\ toHost' = toHost
  <2>1. frame.id \in Settings /\ frame.value \in Values(frame.id)
    BY <1>1, <1>3, PodFrameShapes
  <2>2. QED
    BY <1>3, <2>1 DEF PodsServe
<1>4. ASSUME frame.op # "set"
      PROVE  /\ frame.op = "notify" /\ quiet' = frame.quiet
             /\ burst = "asked" \/ pods' = pods
             /\ pods' \in [Settings -> AnyValue]
             /\ \A s \in Settings : pods'[s] \in Values(s) /\ (s \notin Sticky => pods'[s] = pods[s])
             /\ toHost' = Append(toHost, Burst([s \in Echoed |-> pods'[s]]))
  <2>1. /\ frame.op = "notify" /\ quiet' = frame.quiet
        /\ toHost' = Append(toHost, Burst([s \in Echoed |-> pods'[s]]))
    BY <1>4 DEF PodsServe
  <2>2. pods \in [Settings -> AnyValue] /\ \A s \in Settings : pods[s] \in Values(s)
    BY DEF SettingsTypeOK
  <2>3. CASE pods' = pods
    BY <2>1, <2>2, <2>3
  <2>4. CASE pods' # pods
    <3>1. burst = "asked"
      BY <1>4, <2>4 DEF PodsServe
    <3>2. PICK left \in [Sticky -> {On, Off}] :
            pods' = [s \in Settings |-> IF s \in Sticky THEN left[s] ELSE pods[s]]
      BY <1>4, <2>4 DEF PodsServe
    <3>3. \A s \in Sticky : left[s] \in Values(s)
      BY SettingsAssumption DEF Values
    <3>4. \A s \in Settings : pods'[s] \in Values(s) /\ (s \notin Sticky => pods'[s] = pods[s])
      BY <2>2, <3>2, <3>3
    <3>5. pods' \in [Settings -> AnyValue]
      BY <3>2, <3>4, ValuesAreAny
    <3>6. QED
      BY <2>1, <3>1, <3>4, <3>5
  <2>5. QED
    BY <2>3, <2>4
<1>5. QED
  BY <1>1, <1>2, <1>3, <1>4

\* What the pods hold, and what they say.
LEMMA PodsTyped ==
  ASSUME SettingsTypeOK, [Next]_vars
  PROVE  pods' \in [Settings -> AnyValue] /\ \A s \in Settings : pods'[s] \in Values(s)
<1> DEFINE Typed == pods' \in [Settings -> AnyValue] /\ \A s \in Settings : pods'[s] \in Values(s)
<1>t. pods \in [Settings -> AnyValue] /\ \A s \in Settings : pods[s] \in Values(s)
  BY DEF SettingsTypeOK
<1>1. ASSUME NEW s \in Settings, NEW value \in Values(s), pods' = [pods EXCEPT ![s] = value]
      PROVE  Typed
  BY <1>1, <1>t, ValuesAreAny
<1>2. ASSUME PodsServe PROVE Typed
  <2>1. CASE Head(toPods).op = "set"
    BY <1>1, <1>2, <2>1, ServeFacts
  <2>2. CASE Head(toPods).op # "set"
    BY <1>2, <2>2, ServeFacts
  <2>3. QED
    BY <2>1, <2>2
<1>3. ASSUME PodsChange PROVE Typed
  <2>1. PICK s \in Settings : \E value \in Values(s) : pods' = [pods EXCEPT ![s] = value]
    BY <1>3 DEF PodsChange
  <2>2. PICK value \in Values(s) : pods' = [pods EXCEPT ![s] = value]
    BY <2>1
  <2>3. QED
    BY <1>1, <2>2
<1>4. CASE UNCHANGED pods
  BY <1>4, <1>t
<1>5. (\E s \in Settings : \E request \in Requests(s) : SetPodSetting(s, request))
        => UNCHANGED pods
  BY DEF SetPodSetting, podsVars
<1>6. LinkOpens \/ RecoveryBegins \/ FinishControlRecovery \/ FeaturesAck \/ Record \/ ResendShot \/
        ReassertShot \/ StaleShot \/ LinkLost
        \/ Finalized \/ Restart \/ UNCHANGED vars => UNCHANGED pods
  BY DEF LinkOpens, RecoveryBegins, FinishControlRecovery, FeaturesAck, Record, ResendShot,
         ReassertShot, StaleShot, LinkLost, LinkGone,
         Finalized, Restart, vars, podsVars
<1>7. QED
  BY <1>2, <1>3, <1>4, <1>5, <1>6 DEF Next

\* The frames written.
LEMMA ToPodsTyped ==
  ASSUME SettingsTypeOK, [Next]_vars
  PROVE  toPods' \in Seq(PodFrames) /\ Len(toPods') <= MaxFrames
<1> DEFINE Typed == toPods' \in Seq(PodFrames) /\ Len(toPods') <= MaxFrames
<1>t. toPods \in Seq(PodFrames) /\ Len(toPods) <= MaxFrames /\ MaxFrames \in Nat
  BY BoundAssumption DEF SettingsTypeOK
<1>1. CASE UNCHANGED toPods
  BY <1>1, <1>t
<1>2. ASSUME toPods' = <<>> PROVE Typed
  BY <1>2, <1>t
<1>3. ASSUME NEW s \in Settings, NEW request \in Requests(s), SetPodSetting(s, request) PROVE Typed
  BY <1>1, <1>3, VerbFacts DEF VerbWrites
<1>4. Asks \/ Reasserts => Typed
  BY DEF Asks, Reasserts
<1>5. ASSUME FeaturesAck PROVE Typed
  <2>1. CASE link = "open"
    BY <1>4, <1>5, <2>1, AskFacts DEF FeaturesAck
  <2>2. CASE link # "open"
    BY <1>1, <1>5, <2>2 DEF FeaturesAck
  <2>3. QED
    BY <2>1, <2>2
<1>6. ASSUME ResendShot PROVE Typed
  BY <1>1, <1>4, <1>6, AskFacts DEF ResendShot
<1>7. ASSUME ReassertShot PROVE Typed
  BY <1>1, <1>4, <1>7, ReassertFacts DEF ReassertShot
<1>8. ASSUME StaleShot PROVE Typed
  BY <1>1, <1>4, <1>8, AskFacts, ReassertFacts DEF StaleShot
<1>9. ASSUME PodsServe PROVE Typed
  <2>1. toPods # <<>> /\ toPods' = Tail(toPods)
    BY <1>9, ServeFacts
  <2>2. toPods' \in Seq(PodFrames) /\ Len(toPods') = Len(toPods) - 1 /\ Len(toPods) \in Nat
    BY <1>t, <2>1, QueueFacts
  <2>3. QED
    BY <1>t, <2>2
<1>10. LinkLost \/ Restart => toPods' = <<>>
  BY DEF LinkLost, LinkGone, Restart
<1>11. LinkOpens \/ RecoveryBegins \/ FinishControlRecovery \/ Record \/ Finalized \/ PodsChange \/
        UNCHANGED vars
         => UNCHANGED toPods
  BY DEF LinkOpens, RecoveryBegins, FinishControlRecovery, Record, Finalized, PodsChange, vars
<1>12. QED
  BY <1>1, <1>2, <1>3, <1>5, <1>6, <1>7, <1>8, <1>9, <1>10, <1>11 DEF Next

\* The frames the pods sent.
LEMMA ToHostTyped ==
  ASSUME SettingsTypeOK, [Next]_vars
  PROVE  toHost' \in Seq(HostFrames) /\ Len(toHost') <= MaxFrames
<1> DEFINE Typed == toHost' \in Seq(HostFrames) /\ Len(toHost') <= MaxFrames
<1>t. toHost \in Seq(HostFrames) /\ Len(toHost) <= MaxFrames /\ MaxFrames \in Nat \ {0}
  BY BoundAssumption DEF SettingsTypeOK
<1>1. CASE UNCHANGED toHost
  BY <1>1, <1>t
<1>2. ASSUME toHost # <<>>, toHost' = Tail(toHost) PROVE Typed
  <2>1. toHost' \in Seq(HostFrames) /\ Len(toHost') = Len(toHost) - 1 /\ Len(toHost) \in Nat
    BY <1>2, <1>t, QueueFacts
  <2>2. QED
    BY <1>t, <2>1
<1>3. ASSUME NEW frame \in HostFrames, Len(toHost) < MaxFrames, toHost' = Append(toHost, frame)
      PROVE  Typed
  <2>1. toHost' \in Seq(HostFrames) /\ Len(toHost') = Len(toHost) + 1 /\ Len(toHost) \in Nat
    BY <1>3, <1>t, QueueFacts
  <2>2. QED
    BY <1>3, <1>t, <2>1
<1>4. ASSUME LinkOpens PROVE Typed
  <2>1. toHost' = <<Ack>> /\ Ack \in HostFrames
    BY <1>4, HostFrameShapes DEF LinkOpens
  <2>2. QED
    BY <1>t, <2>1
<1>5. ASSUME LinkLost PROVE Typed
  <2>1. PICK read \in 0 .. Len(toHost) : toHost' = SubSeq(toHost, 1, read)
    BY <1>5 DEF LinkLost, LinkGone
  <2>2. toHost' \in Seq(HostFrames) /\ Len(toHost') = read
    BY <1>t, <2>1
  <2>3. QED
    BY <1>t, <2>1, <2>2
<1>6. ASSUME Restart PROVE Typed
  BY <1>6, <1>t DEF Restart
<1>7. ASSUME PodsServe PROVE Typed
  <2>1. CASE Head(toPods).op = "set"
    BY <1>1, <1>3, <1>7, <2>1, ServeFacts, HostFrameShapes
  <2>2. CASE Head(toPods).op # "set"
    <3> DEFINE values == [s \in Echoed |-> pods'[s]]
    <3>1. toHost' = Append(toHost, Burst(values)) /\ Len(toHost) < MaxFrames
      BY <1>7, <2>2, ServeFacts
    <3>2. \A s \in Settings : pods'[s] \in Values(s) /\ pods'[s] \in AnyValue
      BY PodsTyped, <1>7 DEF Next
    <3>3. values \in [Echoed -> AnyValue] /\ \A s \in Echoed : values[s] \in Values(s)
      BY <3>2, SettingsAssumption
    <3> HIDE DEF values
    <3>4. Burst(values) \in HostFrames
      BY <3>3, HostFrameShapes
    <3>5. QED
      BY <1>3, <3>1, <3>4
  <2>3. QED
    BY <2>1, <2>2
<1>8. ASSUME PodsChange PROVE Typed
  <2>1. PICK s \in Settings : \E value \in Values(s) :
          toHost' = IF link = "open" /\ s \in Echoed THEN Append(toHost, Echo(s, value)) ELSE toHost
    BY <1>8 DEF PodsChange
  <2>2. Len(toHost) < MaxFrames
    BY <1>8 DEF PodsChange
  <2>3. QED
    BY <1>1, <1>3, <2>1, <2>2, HostFrameShapes
<1>9. FeaturesAck \/ Record => toHost # <<>> /\ toHost' = Tail(toHost)
  BY DEF FeaturesAck, Record
<1>10. (\E s \in Settings : \E request \in Requests(s) : SetPodSetting(s, request))
        => UNCHANGED toHost
  BY DEF SetPodSetting
<1>11. RecoveryBegins \/ FinishControlRecovery \/ ResendShot \/ ReassertShot \/ StaleShot \/
        Finalized \/ UNCHANGED vars
         => UNCHANGED toHost
  BY DEF RecoveryBegins, FinishControlRecovery, ResendShot, ReassertShot, StaleShot, Finalized, vars
<1>12. QED
  BY <1>1, <1>2, <1>4, <1>5, <1>6, <1>7, <1>8, <1>9, <1>10, <1>11 DEF Next

\* The types hold at first, and are kept.
LEMMA SettingsInitTyped == ASSUME Init PROVE SettingsTypeOK
<1>1. /\ Nothing \in [Settings -> Optional(AnyValue)] /\ NoneSure \in [Settings -> BOOLEAN]
      /\ \A s \in Settings : Nothing[s] \in Optional(Values(s))
  BY DEF Nothing, NoneSure, Optional
<1>2. pods \in [Settings -> AnyValue] /\ \A s \in Settings : pods[s] \in Values(s)
  BY DEF Init
<1>3. desired = Nothing /\ echoed = Nothing /\ sure = NoneSure
  BY DEF Init
<1>4. /\ {desired, echoed} \subseteq [Settings -> Optional(AnyValue)]
      /\ \A s \in Settings :
           {desired[s], echoed[s]} \subseteq Optional(Values(s)) /\ pods[s] \in Values(s)
  BY <1>1, <1>2, <1>3
<1>5. toPods \in Seq(PodFrames) /\ Len(toPods) = 0 /\ toHost \in Seq(HostFrames) /\ Len(toHost) = 0
  BY DEF Init
<1>6. Len(toPods) <= MaxFrames /\ Len(toHost) <= MaxFrames
  BY <1>5, BoundAssumption
<1>7. link = "down" /\ burst = "none"
  BY DEF Init
<1>8. {recovery, resend, reassert, stale, quiet, forgotten} \subseteq BOOLEAN
  BY DEF Init
<1>9. QED
  BY <1>1, <1>2, <1>3, <1>4, <1>5, <1>6, <1>7, <1>8 DEF SettingsTypeOK

\* And every step keeps them.
LEMMA SettingsStepTyped == ASSUME SettingsTypeOK, [Next]_vars PROVE SettingsTypeOK'
BY TimersTyped, WishesTyped, EchoesTyped, PodsTyped, ToPodsTyped, ToHostTyped DEF SettingsTypeOK

-----------------------------------------------------------------------------
\* What every state of the settings has

\* A frame of the pods that says what a setting is, and what it says.
Speaks(frame, s) == frame.op = "burst" \/ (frame.op = "echo" /\ frame.id = s)
Said(frame, s) == IF frame.op = "burst" THEN frame.values[s] ELSE frame.value

Silent(frames, s) == \A i \in DOMAIN frames : ~Speaks(frames[i], s)

\* If any frame speaks of the setting, the last one says the value.
LastSays(frames, s, value) ==
  \A i \in DOMAIN frames :
    Speaks(frames[i], s) /\ (\A j \in DOMAIN frames : j > i => ~Speaks(frames[j], s))
      => Said(frames[i], s) = value

Sets(frame, s) == frame.op = "set" /\ frame.id = s

\* Without a link nothing is armed, written, or sure.
LinkRests ==
  link # "open" => ~resend /\ ~reassert /\ burst = "none" /\ toPods = <<>> /\ sure = NoneSure

EchoedOnly == \A s \in Settings \ Echoed : echoed[s] = {}

\* The acknowledgement comes before all else of its link.
AckFirst == \A i \in DOMAIN toHost : toHost[i].op = "ack" => i = 1 /\ burst = "none"

SureMeansRead == \A s \in Settings : sure[s] => burst = "read"

\* The echo is what the pods hold, or a teardown has cleared it.
EchoKnown(s) == echoed[s] = {pods[s]} \/ (forgotten /\ echoed[s] = {})

\* What the pods hold is what they said last, or what was recorded once all is parsed.
EchoFollows ==
  link = "open" => \A s \in Echoed :
    /\ LastSays(toHost, s, pods[s])
    /\ burst = "read" /\ Silent(toHost, s) => EchoKnown(s)

\* A sure wish is in every frame that sets it, and on the pods once none is under way.
WishFollows ==
  \A s \in Settings : sure[s] =>
    /\ \A frame \in Range(toPods) : Sets(frame, s) => desired[s] = {frame.value}
    /\ (\A frame \in Range(toPods) : ~Sets(frame, s)) => desired[s] \in {{}, {pods[s]}}

\* The last request of notifications under way asks for the mask; without one the pods have it.
Unmasked(frames) == \A i \in DOMAIN frames : frames[i].op # "notify"
LastMask(frames, mask) ==
  \A i \in DOMAIN frames :
    frames[i].op = "notify" /\ (\A j \in DOMAIN frames : j > i => frames[j].op # "notify")
      => frames[i].quiet = mask

Mask == desired[EarDetection] = {Off}

\* On a link that has asked for notifications the mask follows the wish for ear detection.
MaskFollows ==
  link = "open" /\ burst # "none" =>
    /\ LastMask(toPods, Mask)
    /\ Unmasked(toPods) => quiet = Mask

SettingsInv ==
  /\ SettingsTypeOK /\ LinkRests /\ EchoedOnly /\ AckFirst /\ SureMeansRead
  /\ EchoFollows /\ WishFollows

\* A parsed frame leaves the others to speak as before.
LEMMA TailSays ==
  ASSUME NEW S, NEW frames \in Seq(S), frames # <<>>, NEW s, NEW value
  PROVE  /\ LastSays(frames, s, value) => LastSays(Tail(frames), s, value)
         /\ Silent(Tail(frames), s) =>
              /\ ~Speaks(Head(frames), s) => Silent(frames, s)
              /\ Speaks(Head(frames), s) /\ LastSays(frames, s, value) => Said(Head(frames), s) = value
<1>1. /\ DOMAIN frames = 1 .. Len(frames) /\ Len(frames) \in Nat \ {0}
      /\ DOMAIN Tail(frames) = 1 .. (Len(frames) - 1)
      /\ \A i \in 1 .. (Len(frames) - 1) : Tail(frames)[i] = frames[i + 1]
      /\ Head(frames) = frames[1]
  OBVIOUS
<1>2. ASSUME LastSays(frames, s, value) PROVE LastSays(Tail(frames), s, value)
  <2> SUFFICES ASSUME NEW i \in 1 .. (Len(frames) - 1), Speaks(Tail(frames)[i], s),
                      \A j \in 1 .. (Len(frames) - 1) : j > i => ~Speaks(Tail(frames)[j], s)
               PROVE  Said(Tail(frames)[i], s) = value
    BY <1>1 DEF LastSays
  <2>1. i + 1 \in DOMAIN frames /\ Speaks(frames[i + 1], s)
    BY <1>1
  <2>2. ASSUME NEW j \in DOMAIN frames, j > i + 1 PROVE ~Speaks(frames[j], s)
    <3>1. j - 1 \in 1 .. (Len(frames) - 1) /\ j - 1 > i /\ (j - 1) + 1 = j
      BY <1>1, <2>2
    <3>2. QED
      BY <1>1, <3>1
  <2>3. Said(frames[i + 1], s) = value
    BY <1>2, <2>1, <2>2 DEF LastSays
  <2>4. QED
    BY <1>1, <2>3
<1>3. ASSUME Silent(Tail(frames), s)
      PROVE  \A j \in DOMAIN frames : j > 1 => ~Speaks(frames[j], s)
  <2> SUFFICES ASSUME NEW j \in DOMAIN frames, j > 1 PROVE ~Speaks(frames[j], s)
    OBVIOUS
  <2>1. j - 1 \in 1 .. (Len(frames) - 1) /\ (j - 1) + 1 = j
    BY <1>1
  <2>2. QED
    BY <1>1, <1>3, <2>1 DEF Silent
<1>4. ASSUME Silent(Tail(frames), s), ~Speaks(Head(frames), s) PROVE Silent(frames, s)
  BY <1>1, <1>3, <1>4 DEF Silent
<1>5. ASSUME Silent(Tail(frames), s), Speaks(Head(frames), s), LastSays(frames, s, value)
      PROVE  Said(Head(frames), s) = value
  BY <1>1, <1>3, <1>5 DEF LastSays
<1>6. QED
  BY <1>2, <1>4, <1>5

\* A frame that is sent has the last word on what it speaks of, and none on the rest.
LEMMA AppendSays ==
  ASSUME NEW S, NEW frames \in Seq(S), NEW frame, NEW s, NEW value
  PROVE  /\ Speaks(frame, s) => /\ ~Silent(Append(frames, frame), s)
                                /\ Said(frame, s) = value => LastSays(Append(frames, frame), s, value)
         /\ ~Speaks(frame, s) =>
              /\ Silent(Append(frames, frame), s) => Silent(frames, s)
              /\ LastSays(frames, s, value) => LastSays(Append(frames, frame), s, value)
<1> DEFINE n == Len(frames)
<1> DEFINE more == Append(frames, frame)
<1>1. /\ n \in Nat /\ DOMAIN frames = 1 .. n /\ DOMAIN more = 1 .. (n + 1)
      /\ \A i \in 1 .. n : more[i] = frames[i]
      /\ more[n + 1] = frame
  OBVIOUS
<1> HIDE DEF n, more
<1>2. Speaks(frame, s) => ~Silent(more, s)
  BY <1>1 DEF Silent
<1>3. ASSUME Speaks(frame, s), Said(frame, s) = value PROVE LastSays(more, s, value)
  <2> SUFFICES ASSUME NEW i \in 1 .. (n + 1), Speaks(more[i], s),
                      \A j \in 1 .. (n + 1) : j > i => ~Speaks(more[j], s)
               PROVE  Said(more[i], s) = value
    BY <1>1 DEF LastSays
  <2>1. n + 1 \in 1 .. (n + 1) /\ Speaks(more[n + 1], s)
    BY <1>1, <1>3
  <2>2. ~(n + 1 > i)
    BY <2>1
  <2>3. i = n + 1
    BY <1>1, <2>2
  <2>4. QED
    BY <1>1, <1>3, <2>3
<1>4. Silent(more, s) => Silent(frames, s)
  BY <1>1 DEF Silent
<1>5. ASSUME ~Speaks(frame, s), LastSays(frames, s, value) PROVE LastSays(more, s, value)
  <2> SUFFICES ASSUME NEW i \in 1 .. (n + 1), Speaks(more[i], s),
                      \A j \in 1 .. (n + 1) : j > i => ~Speaks(more[j], s)
               PROVE  Said(more[i], s) = value
    BY <1>1 DEF LastSays
  <2>1. i # n + 1
    BY <1>1, <1>5
  <2>2. i \in 1 .. n
    BY <1>1, <2>1
  <2>3. Speaks(frames[i], s) /\ \A j \in 1 .. n : j > i => ~Speaks(frames[j], s)
    BY <1>1, <2>2
  <2>4. QED
    BY <1>1, <1>5, <2>2, <2>3 DEF LastSays
<1>6. QED
  BY <1>2, <1>3, <1>4, <1>5 DEF more

\* Each part of the invariant is kept by every step.
LEMMA LinkRestsStep ==
  ASSUME SettingsInv, [Next]_vars
  PROVE  LinkRests'
<1>t. LinkRests /\ SettingsTypeOK
  BY DEF SettingsInv
<1>1. ASSUME link' # "open", link # "open",
             UNCHANGED <<resend, reassert, burst, toPods, sure>>
      PROVE  LinkRests'
  BY <1>t, <1>1 DEF LinkRests, NoneSure
<1>2. ASSUME link' = "open" PROVE LinkRests'
  BY <1>2 DEF LinkRests
<1>3. ASSUME NEW s \in Settings, NEW request \in Requests(s), SetPodSetting(s, request), link # "open"
      PROVE  LinkRests'
  <2>1. \E value \in Values(s) : VerbSaves(s, value) /\ UNCHANGED toPods
    BY <1>3, <1>t, VerbFacts
  <2>2. /\ UNCHANGED <<link, resend, reassert, burst, toPods>>
        /\ sure' = [sure EXCEPT ![s] = Calm(s)]
    BY <2>1 DEF VerbSaves, linkVars, history
  <2>3. Calm(s) = FALSE /\ sure = NoneSure
    BY <1>3, <1>t DEF Calm, LinkRests
  <2>4. sure' = NoneSure
    BY <2>2, <2>3 DEF NoneSure
  <2>5. QED
    BY <1>3, <1>t, <2>2, <2>4 DEF LinkRests, NoneSure
<1>4. ASSUME LinkGone PROVE LinkRests'
  BY <1>4 DEF LinkGone, LinkRests, NoneSure
<1>5. ASSUME Restart PROVE LinkRests'
  BY <1>5 DEF Restart, LinkRests, NoneSure
<1>6. ASSUME FeaturesAck, link # "open" PROVE LinkRests'
  BY <1>1, <1>6 DEF FeaturesAck, linkVars, history
<1>7. ASSUME Record, link # "open" PROVE LinkRests'
  <2>1. burst = "none"
    BY <1>7, <1>t DEF LinkRests
  <2>2. UNCHANGED <<link, resend, reassert, burst, toPods, sure>>
    BY <1>7, <2>1 DEF Record, linkVars, history
  <2>3. QED
    BY <1>1, <1>7, <2>2
<1>8. ASSUME StaleShot, link # "open" PROVE LinkRests'
  <2>1. UNCHANGED <<link, resend, reassert, burst, toPods, sure>>
    BY <1>8, <1>t, ReassertFacts DEF StaleShot, linkVars, history
  <2>2. QED
    BY <1>1, <1>8, <2>1
<1>9. ASSUME PodsChange, link # "open" PROVE LinkRests'
  <2>1. UNCHANGED <<link, resend, reassert, burst, toPods>>
    BY <1>9 DEF PodsChange, daemonVars, linkVars, history
  <2>2. sure = NoneSure
    BY <1>9, <1>t DEF LinkRests
  <2>3. sure' = NoneSure
    <3>1. PICK s \in Settings : sure' = [sure EXCEPT ![s] = FALSE]
      BY <1>9 DEF PodsChange
    <3>2. QED
      BY <2>2, <3>1 DEF NoneSure
  <2>4. QED
    BY <1>1, <1>9, <2>1, <2>2, <2>3
<1>10. ASSUME ResendShot \/ ReassertShot \/ PodsServe PROVE link = "open" /\ link' = link
  BY <1>10, <1>t, ServeFacts DEF ResendShot, ReassertShot, LinkRests, linkVars, history
<1>11. LinkOpens => link' = "open"
  BY DEF LinkOpens
<1>12. LinkLost => LinkGone
  BY DEF LinkLost
<1>13. Finalized \/ RecoveryBegins \/ FinishControlRecovery
         => UNCHANGED <<link, resend, reassert, burst, toPods, sure>>
  BY DEF Finalized, RecoveryBegins, FinishControlRecovery, daemonVars, history
<1>14. FeaturesAck \/ Record \/ StaleShot \/ PodsChange => link' = link
  BY DEF FeaturesAck, Record, StaleShot, PodsChange, linkVars
<1>15. ASSUME UNCHANGED vars PROVE LinkRests'
  <2>1. UNCHANGED <<link, resend, reassert, burst, toPods, sure>>
    BY <1>15 DEF vars, daemonVars, linkVars, history
  <2>2. QED
    BY <1>1, <1>2, <2>1
<1>16. (\E s \in Settings : \E request \in Requests(s) : SetPodSetting(s, request)) => link' = link
  BY DEF SetPodSetting, linkVars, history
<1>17. QED
  BY <1>1, <1>2, <1>3, <1>4, <1>5, <1>6, <1>7, <1>8, <1>9, <1>10, <1>11, <1>12, <1>13, <1>14,
     <1>15, <1>16 DEF Next

\* Only what the firmware reports is recorded.
LEMMA EchoedOnlyStep ==
  ASSUME SettingsInv, [Next]_vars
  PROVE  EchoedOnly'
<1>t. EchoedOnly /\ SettingsTypeOK
  BY DEF SettingsInv
<1>1. UNCHANGED echoed => EchoedOnly'
  BY <1>t DEF EchoedOnly
<1>2. echoed' = Nothing => EchoedOnly'
  BY DEF EchoedOnly, Nothing
<1>3. ASSUME Record PROVE EchoedOnly'
  <2>1. Head(toHost) \in HostFrames
    BY <1>3, <1>t, QueueFacts DEF Record, SettingsTypeOK
  <2>2. CASE Head(toHost).op = "echo"
    <3>1. Head(toHost).id \in Echoed
      BY <2>1, <2>2, HostFrameShapes
    <3>2. echoed' = [echoed EXCEPT ![Head(toHost).id] = {Head(toHost).value}]
      BY <1>3, <2>2 DEF Record
    <3>3. echoed \in [Settings -> Optional(AnyValue)]
      BY <1>t DEF SettingsTypeOK
    <3>4. QED
      BY <1>t, <3>1, <3>2, <3>3 DEF EchoedOnly
  <2>3. CASE Head(toHost).op # "echo"
    <3>1. echoed' = [s \in Settings |-> IF s \in Echoed THEN {Head(toHost).values[s]} ELSE echoed[s]]
      BY <1>3, <2>3 DEF Record
    <3>2. QED
      BY <1>t, <3>1 DEF EchoedOnly
  <2>4. QED
    BY <2>2, <2>3
<1>4. (\E s \in Settings : \E request \in Requests(s) : SetPodSetting(s, request))
        => UNCHANGED echoed
  BY DEF SetPodSetting
<1>5. LinkOpens \/ RecoveryBegins \/ FinishControlRecovery \/ FeaturesAck \/ ResendShot \/
        ReassertShot \/ StaleShot \/ PodsServe \/ PodsChange
        \/ UNCHANGED vars => UNCHANGED echoed
  BY DEF LinkOpens, RecoveryBegins, FinishControlRecovery, FeaturesAck, ResendShot, ReassertShot,
         StaleShot, PodsServe, PodsChange, vars,
         daemonVars
<1>6. LinkLost \/ Finalized \/ Restart => UNCHANGED echoed \/ echoed' = Nothing
  BY DEF LinkLost, Finalized, Restart
<1>7. QED
  BY <1>1, <1>2, <1>3, <1>4, <1>5, <1>6 DEF Next

\* A link opens once what was read from the last one is parsed.
LEMMA AckFirstStep ==
  ASSUME SettingsInv, [Next]_vars
  PROVE  AckFirst'
<1>t. AckFirst /\ LinkRests /\ SettingsTypeOK
  BY DEF SettingsInv
<1>h. toHost \in Seq(HostFrames) /\ Len(toHost) \in Nat /\ DOMAIN toHost = 1 .. Len(toHost)
  BY <1>t DEF SettingsTypeOK
<1>1. UNCHANGED <<toHost, burst>> => AckFirst'
  BY <1>t DEF AckFirst
<1>2. ASSUME toHost # <<>>, toHost' = Tail(toHost) PROVE AckFirst'
  <2>1. DOMAIN toHost' = 1 .. (Len(toHost) - 1)
        /\ \A i \in 1 .. (Len(toHost) - 1) : toHost'[i] = toHost[i + 1]
    BY <1>h, <1>2
  <2>2. ASSUME NEW i \in 1 .. (Len(toHost) - 1) PROVE toHost'[i].op # "ack"
    <3>1. i + 1 \in DOMAIN toHost /\ i + 1 # 1
      BY <1>h
    <3>2. QED
      BY <1>t, <2>1, <3>1 DEF AckFirst
  <2>3. QED
    BY <2>1, <2>2 DEF AckFirst
<1>3. ASSUME NEW frame, frame.op # "ack", toHost' = Append(toHost, frame), UNCHANGED burst
      PROVE  AckFirst'
  <2>1. /\ DOMAIN toHost' = 1 .. (Len(toHost) + 1)
        /\ \A i \in 1 .. Len(toHost) : toHost'[i] = toHost[i]
        /\ toHost'[Len(toHost) + 1] = frame
    BY <1>h, <1>3
  <2>2. ASSUME NEW i \in DOMAIN toHost', toHost'[i].op = "ack" PROVE i = 1 /\ burst' = "none"
    <3>1. i # Len(toHost) + 1
      BY <1>3, <2>1, <2>2
    <3>2. i \in DOMAIN toHost
      BY <1>h, <2>1, <2>2, <3>1
    <3>3. QED
      BY <1>h, <1>t, <1>3, <2>1, <2>2, <3>2 DEF AckFirst
  <2>3. QED
    BY <2>2 DEF AckFirst
<1>4. ASSUME LinkOpens PROVE AckFirst'
  <2>1. toHost' = <<Ack>> /\ burst' = "none"
    BY <1>4, <1>t DEF LinkOpens, LinkRests, daemonVars
  <2>2. DOMAIN toHost' = {1}
    BY <2>1
  <2>3. QED
    BY <2>1, <2>2 DEF AckFirst
<1>5. ASSUME LinkLost PROVE AckFirst'
  <2>1. burst' = "none"
    BY <1>5 DEF LinkLost, LinkGone
  <2>2. PICK read \in 0 .. Len(toHost) : toHost' = SubSeq(toHost, 1, read)
    BY <1>5 DEF LinkLost, LinkGone
  <2>3. DOMAIN toHost' = 1 .. read /\ \A i \in 1 .. read : toHost'[i] = toHost[i]
    BY <1>h, <2>2
  <2>4. QED
    BY <1>h, <1>t, <2>1, <2>3 DEF AckFirst
<1>6. ASSUME Restart PROVE AckFirst'
  <2>1. DOMAIN toHost' = {}
    BY <1>6 DEF Restart
  <2>2. QED
    BY <2>1 DEF AckFirst
<1>7. ASSUME PodsServe PROVE AckFirst'
  <2>1. \A s, value : Echo(s, value).op # "ack"
    BY DEF Echo
  <2>2. \A values : Burst(values).op # "ack"
    BY DEF Burst
  <2>3. UNCHANGED burst
    BY <1>7 DEF PodsServe, daemonVars
  <2>4. CASE Head(toPods).op = "set"
    BY <1>1, <1>3, <1>7, <1>t, <2>1, <2>3, <2>4, ServeFacts
  <2>5. CASE Head(toPods).op # "set"
    BY <1>3, <1>7, <1>t, <2>2, <2>3, <2>5, ServeFacts
  <2>6. QED
    BY <2>4, <2>5
<1>8. ASSUME PodsChange PROVE AckFirst'
  <2>1. \A s, value : Echo(s, value).op # "ack"
    BY DEF Echo
  <2>2. UNCHANGED burst /\ \E s, value : toHost' = Append(toHost, Echo(s, value)) \/ toHost' = toHost
    BY <1>8 DEF PodsChange, daemonVars
  <2>3. QED
    BY <1>1, <1>3, <2>1, <2>2
<1>9. FeaturesAck \/ Record => toHost # <<>> /\ toHost' = Tail(toHost)
  BY DEF FeaturesAck, Record
<1>10. (\E s \in Settings : \E request \in Requests(s) : SetPodSetting(s, request))
        => UNCHANGED <<toHost, burst>>
  BY DEF SetPodSetting
<1>11. RecoveryBegins \/ FinishControlRecovery \/ ResendShot \/ ReassertShot \/ StaleShot \/
        Finalized \/ UNCHANGED vars
         => UNCHANGED <<toHost, burst>>
  BY DEF RecoveryBegins, FinishControlRecovery, ResendShot, ReassertShot, StaleShot, Finalized,
         vars, daemonVars
<1>12. QED
  BY <1>1, <1>2, <1>4, <1>5, <1>6, <1>7, <1>8, <1>9, <1>10, <1>11 DEF Next

\* An acknowledgement that is parsed finds nothing sure.
LEMMA AckFindsNone ==
  ASSUME SettingsInv, FeaturesAck
  PROVE  burst = "none" /\ \A s \in Settings : ~sure[s]
<1>1. toHost \in Seq(HostFrames) /\ toHost # <<>> /\ Head(toHost).op = "ack"
  BY DEF SettingsInv, SettingsTypeOK, FeaturesAck
<1>2. 1 \in DOMAIN toHost /\ toHost[1].op = "ack"
  BY <1>1
<1>3. burst = "none"
  BY <1>2 DEF SettingsInv, AckFirst
<1>4. \A s \in Settings : sure[s] => burst = "read"
  BY DEF SettingsInv, SureMeansRead
<1>5. QED
  BY <1>3, <1>4

\* A wish is sure only after the report of its link.
LEMMA SureMeansReadStep ==
  ASSUME SettingsInv, [Next]_vars
  PROVE  SureMeansRead'
<1>t. SureMeansRead /\ SettingsTypeOK /\ sure \in [Settings -> BOOLEAN]
  BY DEF SettingsInv, SettingsTypeOK
<1>1. UNCHANGED <<sure, burst>> => SureMeansRead'
  BY <1>t DEF SureMeansRead
<1>2. sure' = NoneSure => SureMeansRead'
  BY DEF SureMeansRead, NoneSure
<1>3. ASSUME NEW s \in Settings, NEW request \in Requests(s), SetPodSetting(s, request)
      PROVE  SureMeansRead'
  <2>1. sure' = [sure EXCEPT ![s] = Calm(s)] /\ burst' = burst
    BY <1>3 DEF SetPodSetting
  <2>2. Calm(s) => burst = "read"
    BY DEF Calm
  <2>3. QED
    BY <1>t, <2>1, <2>2 DEF SureMeansRead
<1>4. ASSUME FeaturesAck PROVE SureMeansRead'
  <2>1. sure' = sure /\ \A s \in Settings : ~sure[s]
    BY <1>4, AckFindsNone DEF FeaturesAck, linkVars, history
  <2>2. QED
    BY <2>1 DEF SureMeansRead
<1>5. ASSUME Record PROVE SureMeansRead'
  <2>1. sure' = sure /\ (burst = "read" => burst' = "read")
    BY <1>5 DEF Record, linkVars, history
  <2>2. QED
    BY <1>t, <2>1 DEF SureMeansRead
<1>6. ASSUME ReassertShot PROVE SureMeansRead'
  BY <1>6 DEF ReassertShot, SureMeansRead
<1>7. ASSUME PodsChange PROVE SureMeansRead'
  <2>1. PICK s \in Settings : sure' = [sure EXCEPT ![s] = FALSE]
    BY <1>7 DEF PodsChange
  <2>2. burst' = burst
    BY <1>7 DEF PodsChange, daemonVars
  <2>3. QED
    BY <1>t, <2>1, <2>2 DEF SureMeansRead
<1>8. LinkOpens \/ RecoveryBegins \/ FinishControlRecovery \/ ResendShot \/ StaleShot \/ Finalized
        \/ PodsServe \/ UNCHANGED vars
        => UNCHANGED <<sure, burst>>
  BY DEF LinkOpens, RecoveryBegins, FinishControlRecovery, ResendShot, StaleShot, Finalized,
         PodsServe, vars, daemonVars, linkVars, history
<1>9. LinkLost \/ Restart => sure' = NoneSure
  BY DEF LinkLost, LinkGone, Restart
<1>10. QED
  BY <1>1, <1>2, <1>3, <1>4, <1>5, <1>6, <1>7, <1>8, <1>9 DEF Next

\* The pods echo each change they report, and the last echo recorded is the last they sent.
LEMMA EchoFollowsStep ==
  ASSUME SettingsInv, [Next]_vars
  PROVE  EchoFollows'
<1>t. EchoFollows /\ SettingsTypeOK
  BY DEF SettingsInv
<1>h. /\ toHost \in Seq(HostFrames) /\ Echoed \subseteq Settings
      /\ echoed \in [Settings -> Optional(AnyValue)] /\ pods \in [Settings -> AnyValue]
  BY <1>t, SettingsAssumption DEF SettingsTypeOK
<1>1. ASSUME UNCHANGED <<link, toHost, pods, echoed, burst, forgotten>> PROVE EchoFollows'
  BY <1>t, <1>1 DEF EchoFollows, EchoKnown
<1>2. link' # "open" => EchoFollows'
  BY DEF EchoFollows
<1>3. ASSUME LinkOpens PROVE EchoFollows'
  <2>1. toHost' = <<Ack>> /\ burst' = "none"
    BY <1>3 DEF LinkOpens, daemonVars, SettingsInv, LinkRests
  <2>2. DOMAIN toHost' = {1} /\ toHost'[1].op = "ack"
    BY <2>1 DEF Ack
  <2>3. QED
    BY <2>1, <2>2 DEF EchoFollows, LastSays, Speaks
<1>4. ASSUME FeaturesAck, link = "open" PROVE EchoFollows'
  <2>1. toHost # <<>> /\ toHost' = Tail(toHost) /\ burst' = "asked" /\ pods' = pods
    BY <1>4 DEF FeaturesAck, podsVars
  <2>2. ASSUME NEW s \in Echoed PROVE LastSays(toHost', s, pods'[s])
    <3>1. LastSays(toHost, s, pods[s])
      BY <1>4, <1>t DEF EchoFollows
    <3>2. LastSays(Tail(toHost), s, pods[s])
      BY <1>h, <2>1, <3>1, TailSays
    <3>3. QED
      BY <2>1, <3>2
  <2>3. QED
    BY <2>1, <2>2 DEF EchoFollows
<1>5. ASSUME Record, link = "open" PROVE EchoFollows'
  <2> DEFINE frame == Head(toHost)
  <2>1. /\ toHost # <<>> /\ toHost' = Tail(toHost) /\ pods' = pods /\ forgotten' = forgotten
        /\ frame \in HostFrames
        /\ frame.op \in {"echo", "burst"}
    BY <1>5, <1>h, QueueFacts DEF Record, podsVars, history
  <2>2. ASSUME NEW s \in Echoed
        PROVE  /\ LastSays(toHost', s, pods'[s])
               /\ burst' = "read" /\ Silent(toHost', s) => EchoKnown(s)'
    <3>1. LastSays(toHost, s, pods[s]) /\ (burst = "read" /\ Silent(toHost, s) => EchoKnown(s))
      BY <1>5, <1>t DEF EchoFollows
    <3>2. LastSays(Tail(toHost), s, pods[s])
      BY <1>h, <2>1, <3>1, TailSays
    <3>3. ASSUME burst' = "read", Silent(Tail(toHost), s) PROVE EchoKnown(s)'
      <4>1. CASE ~Speaks(frame, s)
        <5>1. frame.op = "echo" /\ frame.id # s
          BY <2>1, <4>1 DEF Speaks
        <5>2. echoed' = [echoed EXCEPT ![frame.id] = {frame.value}] /\ burst' = burst
          BY <1>5, <5>1 DEF Record
        <5>3. Silent(toHost, s)
          BY <1>h, <2>1, <3>3, <4>1, TailSays
        <5>4. echoed'[s] = echoed[s]
          BY <1>h, <5>1, <5>2
        <5>5. QED
          BY <2>1, <3>1, <3>3, <5>2, <5>3, <5>4 DEF EchoKnown
      <4>2. CASE Speaks(frame, s)
        <5>1. Said(frame, s) = pods[s]
          BY <1>h, <2>1, <3>1, <3>3, <4>2, TailSays
        <5>2. CASE frame.op = "burst"
          <6>1. echoed' = [r \in Settings |-> IF r \in Echoed THEN {frame.values[r]} ELSE echoed[r]]
            BY <1>5, <5>2 DEF Record
          <6>2. QED
            BY <1>h, <2>1, <5>1, <5>2, <6>1 DEF Said, EchoKnown
        <5>3. CASE frame.op # "burst"
          <6>1. frame.op = "echo" /\ frame.id = s
            BY <2>1, <4>2, <5>3 DEF Speaks
          <6>2. echoed' = [echoed EXCEPT ![frame.id] = {frame.value}]
            BY <1>5, <6>1 DEF Record
          <6>3. QED
            BY <1>h, <2>1, <5>1, <6>1, <6>2 DEF Said, EchoKnown
        <5>4. QED
          BY <5>2, <5>3
      <4>3. QED
        BY <4>1, <4>2
    <3>4. QED
      BY <2>1, <3>2, <3>3
  <2>3. QED
    BY <2>2 DEF EchoFollows
<1>6. ASSUME NEW s \in Settings, NEW value, link = "open",
             UNCHANGED <<echoed, burst, forgotten>>,
             pods' = [pods EXCEPT ![s] = value],
             \/ s \in Echoed /\ toHost' = Append(toHost, Echo(s, value))
             \/ (s \notin Echoed \/ pods' = pods) /\ toHost' = toHost
      PROVE  EchoFollows'
  <2>1. ASSUME NEW r \in Echoed
        PROVE  /\ LastSays(toHost', r, pods'[r])
               /\ burst' = "read" /\ Silent(toHost', r) => EchoKnown(r)'
    <3>1. LastSays(toHost, r, pods[r]) /\ (burst = "read" /\ Silent(toHost, r) => EchoKnown(r))
      BY <1>6, <1>t DEF EchoFollows
    <3>2. CASE toHost' = toHost
      <4>1. pods'[r] = pods[r]
        <5>1. CASE pods' = pods
          BY <5>1
        <5>2. CASE r # s
          BY <1>6, <1>h, <5>2
        <5>3. CASE r = s /\ toHost' = Append(toHost, Echo(s, value))
          <6>1. Speaks(Echo(s, value), r) /\ Said(Echo(s, value), r) = value
            BY <5>3 DEF Speaks, Said, Echo
          <6>2. Len(Append(toHost, Echo(s, value))) = Len(toHost) + 1 /\ Len(toHost) \in Nat
            BY <1>h
          <6>3. QED
            BY <3>2, <5>3, <6>2
        <5>4. QED
          BY <1>6, <5>1, <5>2, <5>3
      <4>2. QED
        BY <1>6, <3>1, <3>2, <4>1 DEF EchoKnown
    <3>3. CASE toHost' = Append(toHost, Echo(s, value))
      <4>1. CASE r = s
        <5>1. Speaks(Echo(s, value), r) /\ Said(Echo(s, value), r) = pods'[r]
          BY <1>6, <1>h, <4>1 DEF Speaks, Said, Echo
        <5>2. QED
          BY <1>h, <3>3, <5>1, AppendSays
      <4>2. CASE r # s
        <5>1. ~Speaks(Echo(s, value), r) /\ pods'[r] = pods[r]
          BY <1>6, <1>h, <4>2 DEF Speaks, Echo
        <5>2. QED
          BY <1>6, <1>h, <3>1, <3>3, <5>1, AppendSays DEF EchoKnown
      <4>3. QED
        BY <4>1, <4>2
    <3>4. QED
      BY <1>6, <3>2, <3>3
  <2>2. QED
    BY <2>1 DEF EchoFollows
<1>7. ASSUME PodsServe PROVE EchoFollows'
  <2>1. link = "open" /\ UNCHANGED <<link, echoed, burst, forgotten>>
    BY <1>7, <1>t, ServeFacts DEF SettingsInv, LinkRests, daemonVars, linkVars, history
  <2>2. CASE Head(toPods).op = "set"
    BY <1>6, <1>7, <1>t, <2>1, <2>2, ServeFacts
  <2>3. CASE Head(toPods).op # "set"
    <3> DEFINE frame == Burst([s \in Echoed |-> pods'[s]])
    <3>1. toHost' = Append(toHost, frame)
      BY <1>7, <1>t, <2>3, ServeFacts
    <3>2. ASSUME NEW s \in Echoed PROVE Speaks(frame, s) /\ Said(frame, s) = pods'[s]
      BY DEF Speaks, Said, Burst
    <3> HIDE DEF frame
    <3>3. ASSUME NEW s \in Echoed PROVE LastSays(toHost', s, pods'[s]) /\ ~Silent(toHost', s)
      BY <1>h, <3>1, <3>2, AppendSays
    <3>4. QED
      BY <3>3 DEF EchoFollows
  <2>4. QED
    BY <2>2, <2>3
<1>8. ASSUME PodsChange, link = "open" PROVE EchoFollows'
  <2>1. PICK s \in Settings : \E value \in Values(s) :
          /\ pods' = [pods EXCEPT ![s] = value]
          /\ toHost' = IF link = "open" /\ s \in Echoed THEN Append(toHost, Echo(s, value)) ELSE toHost
    BY <1>8 DEF PodsChange
  <2>2. UNCHANGED <<echoed, burst, forgotten>>
    BY <1>8 DEF PodsChange, daemonVars
  <2>3. QED
    BY <1>6, <1>8, <2>1, <2>2
<1>9. (\E s \in Settings : \E request \in Requests(s) : SetPodSetting(s, request))
        => UNCHANGED <<link, toHost, pods, echoed, burst, forgotten>>
  BY DEF SetPodSetting, podsVars, linkVars
<1>10. RecoveryBegins \/ FinishControlRecovery \/ ResendShot \/ ReassertShot \/ StaleShot \/
        UNCHANGED vars
         => UNCHANGED <<link, toHost, pods, echoed, burst, forgotten>>
  BY DEF RecoveryBegins, FinishControlRecovery, ResendShot, ReassertShot, StaleShot, vars,
         daemonVars, podsVars, linkVars, history
<1>11. LinkLost \/ Restart => link' # "open"
  BY DEF LinkLost, Restart
<1>12. ASSUME Finalized PROVE EchoFollows'
  <2>1. /\ UNCHANGED <<link, toHost, pods, burst>>
        /\ echoed' = Nothing /\ forgotten' = (link = "open")
    BY <1>12 DEF Finalized, podsVars
  <2>2. ASSUME link = "open", NEW s \in Echoed
        PROVE  LastSays(toHost', s, pods'[s]) /\ EchoKnown(s)'
    BY <1>h, <1>t, <2>1, <2>2 DEF EchoFollows, EchoKnown, Nothing
  <2>3. QED
    BY <2>1, <2>2 DEF EchoFollows
<1>13. FeaturesAck \/ Record \/ PodsChange => link' = link
  BY DEF FeaturesAck, Record, PodsChange, linkVars
<1>14. QED
  BY <1>1, <1>2, <1>3, <1>4, <1>5, <1>7, <1>8, <1>9, <1>10, <1>11, <1>12, <1>13 DEF Next

\* With nothing under way the echo of a setting is what the pods hold.
LEMMA EchoesAreTrue ==
  ASSUME SettingsInv, NEW s \in Settings, link = "open", burst = "read",
         ~About(toHost, s), ~Reporting(toHost), echoed[s] # {}
  PROVE  echoed[s] = {pods[s]}
<1>1. s \in Echoed
  BY DEF SettingsInv, EchoedOnly
<1>2. Silent(toHost, s)
  BY DEF Silent, Speaks, About, Reporting
<1>3. QED
  BY <1>1, <1>2 DEF SettingsInv, EchoFollows, EchoKnown

\* A sure wish is the only one under way, or on the pods.
LEMMA WishFollowsStep ==
  ASSUME SettingsInv, [Next]_vars
  PROVE  WishFollows'
<1>t. WishFollows /\ SettingsTypeOK
  BY DEF SettingsInv
<1>h. /\ toPods \in Seq(PodFrames) /\ pods \in [Settings -> AnyValue]
      /\ desired \in [Settings -> Optional(AnyValue)] /\ sure \in [Settings -> BOOLEAN]
  BY <1>t DEF SettingsTypeOK
<1> DEFINE Follows(s) ==
      /\ \A frame \in Range(toPods) : Sets(frame, s) => desired[s] = {frame.value}
      /\ (\A frame \in Range(toPods) : ~Sets(frame, s)) => desired[s] \in {{}, {pods[s]}}
<1> DEFINE FollowsNext(s) ==
      /\ \A frame \in Range(toPods') : Sets(frame, s) => desired'[s] = {frame.value}
      /\ (\A frame \in Range(toPods') : ~Sets(frame, s)) => desired'[s] \in {{}, {pods'[s]}}
<1>f. \A s \in Settings : sure[s] => Follows(s)
  BY <1>t DEF WishFollows
<1>g. (\A s \in Settings : sure'[s] => FollowsNext(s)) => WishFollows'
  BY DEF WishFollows
<1>1. ASSUME UNCHANGED <<sure, toPods, desired, pods>> PROVE WishFollows'
  BY <1>f, <1>g, <1>1
<1>2. sure' = NoneSure => WishFollows'
  BY DEF WishFollows, NoneSure
<1>3. ASSUME NEW s \in Settings, NEW request \in Requests(s), SetPodSetting(s, request)
      PROVE  WishFollows'
  <2>1. PICK value \in Values(s) :
          /\ VerbSaves(s, value)
          /\ \/ echoed[s] = {value} /\ UNCHANGED toPods
             \/ echoed[s] # {value} /\ link = "open" /\ VerbWrites(s, value)
    BY <1>3, <1>t, VerbFacts
  <2>2. /\ desired' = [desired EXCEPT ![s] = {value}] /\ sure' = [sure EXCEPT ![s] = Calm(s)]
        /\ pods' = pods
    BY <2>1 DEF VerbSaves, podsVars
  <2>3. ASSUME NEW r \in Settings, r # s, sure'[r] PROVE FollowsNext(r)
    <3>1. Follows(r) /\ desired'[r] = desired[r]
      BY <1>f, <1>h, <2>2, <2>3
    <3>2. \A frame \in Range(toPods') : Sets(frame, r) => frame \in Range(toPods)
      BY <2>1, <2>3 DEF VerbWrites, Sets, SetFrame, RequestNotificationsPacket, Notify
    <3>3. Range(toPods) \subseteq Range(toPods')
      BY <2>1 DEF VerbWrites
    <3>4. QED
      BY <2>2, <3>1, <3>2, <3>3
  <2>4. ASSUME sure'[s] PROVE FollowsNext(s)
    <3>1. Calm(s) /\ desired'[s] = {value}
      BY <1>h, <2>2, <2>4
    <3>2. \A frame \in Range(toPods) : ~Sets(frame, s)
      BY <3>1, UnderWay DEF Calm, Sets
    <3>3. CASE echoed[s] = {value} /\ UNCHANGED toPods
      <4>1. echoed[s] = {pods[s]}
        BY <3>1, <3>3, EchoesAreTrue DEF Calm
      <4>2. QED
        BY <2>2, <3>1, <3>2, <3>3, <4>1
    <3>4. CASE VerbWrites(s, value)
      <4>1. SetFrame(s, value) \in Range(toPods') /\ Sets(SetFrame(s, value), s)
        BY <3>4 DEF VerbWrites, Sets, SetFrame
      <4>2. ASSUME NEW frame \in Range(toPods'), Sets(frame, s) PROVE frame = SetFrame(s, value)
        BY <3>2, <3>4, <4>2 DEF VerbWrites, Sets, RequestNotificationsPacket, Notify
      <4>3. SetFrame(s, value).value = value
        BY DEF SetFrame
      <4>4. QED
        BY <3>1, <4>1, <4>2, <4>3
    <3>5. QED
      BY <2>1, <3>3, <3>4
  <2>5. QED
    BY <1>g, <2>3, <2>4
<1>4. ASSUME Asks, UNCHANGED <<sure, desired, pods>> PROVE WishFollows'
  <2>1. Range(toPods') = Range(toPods) \cup {RequestNotificationsPacket(desired)}
    BY <1>4 DEF Asks
  <2>2. \A s \in Settings : ~Sets(RequestNotificationsPacket(desired), s)
    BY DEF Sets, RequestNotificationsPacket, Notify
  <2>3. QED
    BY <1>f, <1>g, <1>4, <2>1, <2>2
<1>5. ASSUME NEW s \in Settings, NEW frame \in Due, Sets(frame, s) PROVE desired[s] = {frame.value}
  BY <1>5, <1>t, DueFacts DEF Sets
<1>6. ASSUME Reasserts, UNCHANGED <<sure, desired, pods>> PROVE WishFollows'
  <2>1. Range(toPods') = Range(toPods) \cup Due
    BY <1>6 DEF Reasserts
  <2>2. QED
    BY <1>f, <1>g, <1>5, <1>6, <2>1
<1>7. ASSUME FeaturesAck PROVE WishFollows'
  <2>1. sure' = sure /\ \A s \in Settings : ~sure[s]
    BY <1>7, AckFindsNone DEF FeaturesAck, linkVars, history
  <2>2. QED
    BY <2>1 DEF WishFollows
<1>8. ASSUME ResendShot PROVE WishFollows'
  <2>1. UNCHANGED <<sure, desired, pods>>
    BY <1>8 DEF ResendShot, podsVars, linkVars, history
  <2>2. Asks \/ UNCHANGED toPods
    BY <1>8, <1>t, AskFacts DEF ResendShot
  <2>3. QED
    BY <1>1, <1>4, <2>1, <2>2
<1>9. ASSUME StaleShot PROVE WishFollows'
  <2>1. UNCHANGED <<sure, desired, pods>>
    BY <1>9 DEF StaleShot, podsVars, linkVars, history
  <2>2. Asks \/ Reasserts \/ UNCHANGED toPods
    BY <1>9, <1>t, AskFacts, ReassertFacts DEF StaleShot
  <2>3. QED
    BY <1>1, <1>4, <1>6, <2>1, <2>2
<1>10. ASSUME ReassertShot PROVE WishFollows'
  <2>1. /\ UNCHANGED <<desired, pods>> /\ burst = "read" /\ ~Reporting(toPods) /\ ~Reporting(toHost)
        /\ reassert
        /\ sure' = [s \in Settings |->
                      sure[s] \/ (s \in Sticky /\ ~About(toPods, s) /\ ~About(toHost, s))]
    BY <1>10 DEF ReassertShot, podsVars
  <2>2. link = "open"
    BY <2>1 DEF SettingsInv, LinkRests
  <2>3. Range(toPods') = Range(toPods) \cup Due
    BY <1>10, <1>t, <2>2, ReassertFacts DEF ReassertShot, Reasserts
  <2>4. ASSUME NEW s \in Settings, sure[s] PROVE FollowsNext(s)
    BY <1>f, <1>5, <2>1, <2>3, <2>4
  <2>5. ASSUME NEW s \in Settings, s \in Sticky, ~About(toPods, s), ~About(toHost, s)
        PROVE  FollowsNext(s)
    <3>1. \A frame \in Range(toPods) : ~Sets(frame, s)
      BY <2>5, UnderWay DEF Sets
    <3>2. \A frame \in Range(toPods') : Sets(frame, s) => desired'[s] = {frame.value}
      BY <1>5, <2>1, <2>3, <3>1
    <3>3. ASSUME \A frame \in Range(toPods') : ~Sets(frame, s)
          PROVE  desired'[s] \in {{}, {pods'[s]}}
      <4>1. ~ReassertFor(s)
        BY <1>t, <2>3, <3>3, DueFacts DEF Sets
      <4>2. desired[s] = {} \/ echoed[s] = desired[s]
        BY <2>5, <4>1 DEF ReassertFor
      <4>3. QED
        BY <2>1, <2>2, <2>5, <4>2, EchoesAreTrue
    <3>4. QED
      BY <3>2, <3>3
  <2>6. QED
    BY <1>g, <2>1, <2>4, <2>5
<1>11. ASSUME PodsServe PROVE WishFollows'
  <2>1. /\ toPods # <<>> /\ Head(toPods) \in PodFrames /\ toPods' = Tail(toPods)
        /\ UNCHANGED <<sure, desired, burst>>
    BY <1>11, <1>t, ServeFacts DEF daemonVars, linkVars, history
  <2>2. Range(toPods) = {Head(toPods)} \cup Range(toPods')
    BY <1>h, <2>1, QueueFacts
  <2>3. ASSUME NEW s \in Settings, sure[s] PROVE FollowsNext(s)
    <3>1. Follows(s) /\ burst = "read"
      BY <1>f, <2>3 DEF SettingsInv, SureMeansRead
    <3>2. CASE Sets(Head(toPods), s)
      <4>1. desired[s] = {Head(toPods).value}
        BY <2>2, <3>1, <3>2
      <4>2. pods'[s] = Head(toPods).value
        BY <1>11, <1>h, <1>t, <3>2, ServeFacts DEF Sets
      <4>3. QED
        BY <2>1, <2>2, <3>1, <4>1, <4>2
    <3>3. CASE ~Sets(Head(toPods), s)
      <4>1. pods'[s] = pods[s]
        <5>1. CASE Head(toPods).op = "set"
          BY <1>11, <1>h, <1>t, <3>3, <5>1, ServeFacts DEF Sets
        <5>2. CASE Head(toPods).op # "set"
          BY <1>11, <1>t, <3>1, <5>2, ServeFacts
        <5>3. QED
          BY <5>1, <5>2
      <4>2. QED
        BY <2>1, <2>2, <3>1, <3>3, <4>1
    <3>4. QED
      BY <3>2, <3>3
  <2>4. QED
    BY <1>g, <2>1, <2>3
<1>12. ASSUME PodsChange PROVE WishFollows'
  <2>1. PICK s \in Settings : \E value \in Values(s) :
          pods' = [pods EXCEPT ![s] = value] /\ sure' = [sure EXCEPT ![s] = FALSE]
    BY <1>12 DEF PodsChange
  <2>2. UNCHANGED <<desired, toPods>>
    BY <1>12 DEF PodsChange, daemonVars
  <2>3. ASSUME NEW r \in Settings, sure'[r] PROVE sure[r] /\ pods'[r] = pods[r]
    BY <1>h, <2>1, <2>3
  <2>4. QED
    BY <1>f, <1>g, <2>2, <2>3
<1>13. LinkOpens \/ RecoveryBegins \/ FinishControlRecovery \/ Record \/ Finalized \/ UNCHANGED vars
         => UNCHANGED <<sure, toPods, desired, pods>>
  BY DEF LinkOpens, RecoveryBegins, FinishControlRecovery, Record, Finalized, vars, daemonVars,
         podsVars, linkVars, history
<1>14. LinkLost \/ Restart => sure' = NoneSure
  BY DEF LinkLost, LinkGone, Restart
<1>15. QED
  BY <1>1, <1>2, <1>3, <1>7, <1>8, <1>9, <1>10, <1>11, <1>12, <1>13, <1>14 DEF Next

\* Frames that ask for no notifications leave the mask to those before them.
LEMMA UnmaskedAfter ==
  ASSUME NEW S, NEW frames \in Seq(S), NEW T, NEW more \in Seq(T), Unmasked(more), NEW mask
  PROVE  /\ LastMask(frames, mask) => LastMask(frames \o more, mask)
         /\ Unmasked(frames \o more) => Unmasked(frames)
<1> DEFINE n == Len(frames)
<1> DEFINE all == frames \o more
<1>1. /\ n \in Nat /\ DOMAIN frames = 1 .. n
      /\ Len(more) \in Nat /\ DOMAIN more = 1 .. Len(more)
      /\ DOMAIN all = 1 .. (n + Len(more))
      /\ \A i \in 1 .. n : all[i] = frames[i]
      /\ \A i \in DOMAIN all : i > n => all[i] = more[i - n]
  OBVIOUS
<1> HIDE DEF n, all
<1>2. ASSUME NEW i \in DOMAIN all, i > n PROVE all[i].op # "notify"
  <2>1. i - n \in DOMAIN more
    BY <1>1, <1>2
  <2>2. QED
    BY <1>1, <1>2, <2>1 DEF Unmasked
<1>3. ASSUME LastMask(frames, mask) PROVE LastMask(all, mask)
  <2> SUFFICES ASSUME NEW i \in DOMAIN all, all[i].op = "notify",
                      \A j \in DOMAIN all : j > i => all[j].op # "notify"
               PROVE  all[i].quiet = mask
    BY DEF LastMask
  <2>1. i \in 1 .. n
    BY <1>1, <1>2
  <2>2. \A j \in 1 .. n : j > i => frames[j].op # "notify"
    BY <1>1
  <2>3. QED
    BY <1>1, <1>3, <2>1, <2>2 DEF LastMask
<1>4. Unmasked(all) => Unmasked(frames)
  BY <1>1 DEF Unmasked
<1>5. QED
  BY <1>3, <1>4 DEF all

\* The last frame has the last word on the mask.
LEMMA LastAsks ==
  ASSUME NEW S, NEW frames \in Seq(S), frames # <<>>, NEW mask,
         frames[Len(frames)] = Notify(mask)
  PROVE  LastMask(frames, mask) /\ ~Unmasked(frames)
<1>1. Len(frames) \in DOMAIN frames /\ DOMAIN frames = 1 .. Len(frames) /\ Len(frames) \in Nat
  OBVIOUS
<1>2. Notify(mask).op = "notify" /\ Notify(mask).quiet = mask
  BY DEF Notify
<1>3. ~Unmasked(frames)
  BY <1>1, <1>2 DEF Unmasked
<1>4. LastMask(frames, mask)
  <2> SUFFICES ASSUME NEW i \in DOMAIN frames,
                      \A j \in DOMAIN frames : j > i => frames[j].op # "notify"
               PROVE  frames[i].quiet = mask
    BY DEF LastMask
  <2>1. ~(Len(frames) > i)
    BY <1>1, <1>2
  <2>2. i = Len(frames)
    BY <1>1, <2>1
  <2>3. QED
    BY <1>2, <2>2
<1>5. QED
  BY <1>3, <1>4

\* What is left once the pods have obeyed a frame.
LEMMA TailMask ==
  ASSUME NEW S, NEW frames \in Seq(S), frames # <<>>, NEW mask, LastMask(frames, mask)
  PROVE  /\ LastMask(Tail(frames), mask)
         /\ Unmasked(Tail(frames)) =>
              IF Head(frames).op = "notify" THEN Head(frames).quiet = mask ELSE Unmasked(frames)
<1>1. /\ DOMAIN frames = 1 .. Len(frames) /\ Len(frames) \in Nat \ {0}
      /\ DOMAIN Tail(frames) = 1 .. (Len(frames) - 1)
      /\ \A i \in 1 .. (Len(frames) - 1) : Tail(frames)[i] = frames[i + 1]
      /\ Head(frames) = frames[1]
  OBVIOUS
<1>2. LastMask(Tail(frames), mask)
  <2> SUFFICES ASSUME NEW i \in 1 .. (Len(frames) - 1), Tail(frames)[i].op = "notify",
                      \A j \in 1 .. (Len(frames) - 1) : j > i => Tail(frames)[j].op # "notify"
               PROVE  Tail(frames)[i].quiet = mask
    BY <1>1 DEF LastMask
  <2>1. i + 1 \in DOMAIN frames /\ frames[i + 1].op = "notify"
    BY <1>1
  <2>2. ASSUME NEW j \in DOMAIN frames, j > i + 1 PROVE frames[j].op # "notify"
    <3>1. j - 1 \in 1 .. (Len(frames) - 1) /\ j - 1 > i /\ (j - 1) + 1 = j
      BY <1>1, <2>2
    <3>2. QED
      BY <1>1, <3>1
  <2>3. frames[i + 1].quiet = mask
    BY <2>1, <2>2 DEF LastMask
  <2>4. QED
    BY <1>1, <2>3
<1>3. ASSUME Unmasked(Tail(frames))
      PROVE  \A j \in DOMAIN frames : j > 1 => frames[j].op # "notify"
  <2> SUFFICES ASSUME NEW j \in DOMAIN frames, j > 1 PROVE frames[j].op # "notify"
    OBVIOUS
  <2>1. j - 1 \in 1 .. (Len(frames) - 1) /\ (j - 1) + 1 = j
    BY <1>1
  <2>2. QED
    BY <1>1, <1>3, <2>1 DEF Unmasked
<1>4. ASSUME Unmasked(Tail(frames)), Head(frames).op = "notify" PROVE Head(frames).quiet = mask
  BY <1>1, <1>3, <1>4 DEF LastMask
<1>5. ASSUME Unmasked(Tail(frames)), Head(frames).op # "notify" PROVE Unmasked(frames)
  BY <1>1, <1>3, <1>5 DEF Unmasked
<1>6. QED
  BY <1>2, <1>4, <1>5

\* The mask, where the firmware does not report ear detection: its wish is then all there is.
LEMMA MaskFollowsStep ==
  ASSUME EarDetection \notin Echoed, SettingsInv, MaskFollows, [Next]_vars
  PROVE  MaskFollows'
<1>t. SettingsTypeOK /\ EarDetection \in Settings
  BY SettingsAssumption DEF SettingsInv
<1>h. /\ toPods \in Seq(PodFrames) /\ desired \in [Settings -> Optional(AnyValue)]
      /\ echoed[EarDetection] = {}
  BY <1>t DEF SettingsTypeOK, SettingsInv, EchoedOnly
<1>m. RequestNotificationsPacket(desired) = Notify(Mask)
  BY <1>h DEF RequestNotificationsPacket, CurrentSettingBytes, Mask
<1>1. ASSUME UNCHANGED <<link, toPods, desired, quiet>>, burst' # "none" => burst # "none"
      PROVE  MaskFollows'
  BY <1>1 DEF MaskFollows, Mask
<1>2. link' # "open" \/ burst' = "none" => MaskFollows'
  BY DEF MaskFollows
<1>3. ASSUME NEW due, NEW S, due \in Seq(S), Unmasked(due), toPods' = toPods \o due, Mask' = Mask,
             UNCHANGED <<link, burst, quiet>>
      PROVE  MaskFollows'
  BY <1>h, <1>3, UnmaskedAfter DEF MaskFollows
<1>4. ASSUME toPods' \in Seq(PodFrames), toPods' # <<>>, toPods'[Len(toPods')] = Notify(Mask')
      PROVE  MaskFollows'
  BY <1>4, LastAsks DEF MaskFollows
<1>5. ASSUME Asks, desired' = desired PROVE MaskFollows'
  <2>1. toPods' \in Seq(PodFrames) /\ toPods' = Append(toPods, Notify(Mask')) /\ Mask' = Mask
    BY <1>5, <1>m DEF Asks, Mask
  <2>2. toPods' # <<>> /\ toPods'[Len(toPods')] = Notify(Mask')
    BY <1>h, <2>1
  <2>3. QED
    BY <1>4, <2>1, <2>2
<1>6. ASSUME Reasserts, UNCHANGED <<link, burst, desired, quiet>> PROVE MaskFollows'
  <2>1. PICK due \in Seq(Due) : toPods' = toPods \o due
    BY <1>6 DEF Reasserts
  <2>2. \A frame \in Due : frame.op # "notify"
    BY <1>t, DueFacts
  <2>3. Unmasked(due)
    BY <2>1, <2>2 DEF Unmasked
  <2>4. QED
    BY <1>3, <1>6, <2>1, <2>3 DEF Mask
<1>7. ASSUME NEW s \in Settings, NEW request \in Requests(s), SetPodSetting(s, request)
      PROVE  MaskFollows'
  <2>1. PICK value \in Values(s) :
          /\ value = Encode(s, request) /\ VerbSaves(s, value)
          /\ \/ echoed[s] = {value} /\ UNCHANGED toPods
             \/ echoed[s] # {value} /\ link = "open" /\ VerbWrites(s, value)
    BY <1>7, <1>t, VerbFacts
  <2>2. /\ desired' = [desired EXCEPT ![s] = {value}]
        /\ UNCHANGED <<link, burst, quiet>>
    BY <2>1 DEF VerbSaves, podsVars, linkVars
  <2> DEFINE set == SetFrame(s, value)
  <2> DEFINE ask == RequestNotificationsPacket(desired')
  <2>3. \/ echoed[s] = {value} /\ UNCHANGED toPods
        \/ toPods' = toPods \o (<<set>> \o (IF s = EarDetection THEN <<ask>> ELSE <<>>))
    BY <1>7, <2>1, <2>2 DEF SetPodSetting
  <2>4. CASE s # EarDetection
    <3>1. Mask' = Mask
      BY <1>h, <1>t, <2>2, <2>4 DEF Mask
    <3>2. CASE UNCHANGED toPods
      BY <2>2, <3>1, <3>2 DEF MaskFollows
    <3>3. CASE toPods' = toPods \o (<<set>> \o (IF s = EarDetection THEN <<ask>> ELSE <<>>))
      <4>1. toPods' = toPods \o <<set>>
        BY <2>4, <3>3
      <4>2. <<set>> \in Seq({set}) /\ DOMAIN <<set>> = {1} /\ <<set>>[1] = set
        OBVIOUS
      <4>3. set.op # "notify"
        BY DEF SetFrame
      <4>4. Unmasked(<<set>>)
        BY <4>2, <4>3 DEF Unmasked
      <4>5. QED
        BY <1>3, <2>2, <3>1, <4>1, <4>2, <4>4
    <3>4. QED
      BY <2>3, <3>2, <3>3
  <2>5. CASE s = EarDetection
    <3>1. echoed' = echoed /\ echoed[s] # {value}
      BY <1>h, <2>1, <2>5 DEF VerbSaves
    <3>2. ask = Notify(Mask')
      BY <1>h, <3>1 DEF RequestNotificationsPacket, CurrentSettingBytes, Mask
    <3>3. toPods' \in Seq(PodFrames)
      BY <2>1, <3>1 DEF VerbWrites
    <3>4. toPods' = toPods \o <<set, ask>>
      BY <2>3, <2>5, <3>1
    <3> HIDE DEF set, ask
    <3>5. toPods' # <<>> /\ toPods'[Len(toPods')] = ask
      BY <1>h, <3>4
    <3>6. QED
      BY <1>4, <3>2, <3>3, <3>5
  <2>6. QED
    BY <2>4, <2>5
<1>8. ASSUME FeaturesAck PROVE MaskFollows'
  <2>1. CASE link = "open"
    BY <1>5, <1>8, <1>t, <2>1, AskFacts DEF FeaturesAck
  <2>2. CASE link # "open"
    BY <1>2, <1>8, <2>2 DEF FeaturesAck, linkVars
  <2>3. QED
    BY <2>1, <2>2
<1>9. ASSUME ResendShot PROVE MaskFollows'
  <2>1. UNCHANGED <<link, burst, desired, quiet>>
    BY <1>9 DEF ResendShot, podsVars, linkVars
  <2>2. Asks \/ UNCHANGED toPods
    BY <1>9, <1>t, AskFacts DEF ResendShot
  <2>3. QED
    BY <1>1, <1>5, <2>1, <2>2
<1>10. ASSUME StaleShot PROVE MaskFollows'
  <2>1. UNCHANGED <<link, burst, desired, quiet>>
    BY <1>10 DEF StaleShot, podsVars, linkVars
  <2>2. Asks \/ Reasserts \/ UNCHANGED toPods
    BY <1>10, <1>t, AskFacts, ReassertFacts DEF StaleShot
  <2>3. QED
    BY <1>1, <1>5, <1>6, <2>1, <2>2
<1>11. ASSUME ReassertShot PROVE MaskFollows'
  <2>1. UNCHANGED <<link, burst, desired, quiet>>
    BY <1>11 DEF ReassertShot, podsVars, linkVars
  <2>2. Reasserts \/ UNCHANGED toPods
    BY <1>11, <1>t, ReassertFacts DEF ReassertShot
  <2>3. QED
    BY <1>1, <1>6, <2>1, <2>2
<1>12. ASSUME PodsServe PROVE MaskFollows'
  <2>1. /\ toPods # <<>> /\ toPods' = Tail(toPods)
        /\ UNCHANGED <<link, burst, desired>> /\ Mask' = Mask
        /\ Head(toPods).op = "set" => quiet' = quiet
        /\ Head(toPods).op # "set" => Head(toPods).op = "notify" /\ quiet' = Head(toPods).quiet
    BY <1>12, <1>t, ServeFacts DEF daemonVars, linkVars, Mask
  <2> SUFFICES ASSUME link = "open", burst # "none"
               PROVE  LastMask(toPods', Mask) /\ (Unmasked(toPods') => quiet' = Mask)
    BY <2>1 DEF MaskFollows
  <2>2. LastMask(toPods, Mask) /\ (Unmasked(toPods) => quiet = Mask)
    BY DEF MaskFollows
  <2>3. /\ LastMask(Tail(toPods), Mask)
        /\ Unmasked(Tail(toPods)) =>
             IF Head(toPods).op = "notify" THEN Head(toPods).quiet = Mask ELSE Unmasked(toPods)
    BY <1>h, <2>1, <2>2, TailMask
  <2>4. QED
    BY <2>1, <2>2, <2>3
<1>13. ASSUME Record PROVE MaskFollows'
  <2>1. UNCHANGED <<link, toPods, desired, quiet>> /\ (burst' # "none" => burst # "none")
    BY <1>13 DEF Record, linkVars, podsVars
  <2>2. QED
    BY <1>1, <2>1
<1>14. LinkOpens => burst' = "none"
  BY <1>t DEF LinkOpens, daemonVars, SettingsInv, LinkRests
<1>15. RecoveryBegins \/ FinishControlRecovery \/ Finalized \/ PodsChange \/ UNCHANGED vars
         => UNCHANGED <<link, burst, toPods, desired, quiet>>
  BY DEF RecoveryBegins, FinishControlRecovery, Finalized, PodsChange, vars, linkVars, daemonVars,
         podsVars
<1>16. LinkLost \/ Restart => link' # "open"
  BY DEF LinkLost, Restart
<1>17. QED
  BY <1>1, <1>2, <1>7, <1>8, <1>9, <1>10, <1>11, <1>12, <1>13, <1>14, <1>15, <1>16 DEF Next

\* Before the first link nothing is known, armed or under way.
LEMMA SettingsInitially == ASSUME Init PROVE SettingsInv /\ MaskFollows
<1>1. SettingsTypeOK
  BY SettingsInitTyped
<1>2. LinkRests /\ SureMeansRead /\ WishFollows
  BY DEF Init, LinkRests, SureMeansRead, WishFollows, NoneSure
<1>3. EchoedOnly /\ EchoFollows
  BY DEF Init, EchoedOnly, EchoFollows, Nothing
<1>4. AckFirst
  <2>1. DOMAIN toHost = {}
    BY DEF Init
  <2>2. QED
    BY <2>1 DEF AckFirst
<1>5. MaskFollows
  BY DEF Init, MaskFollows
<1>6. QED
  BY <1>1, <1>2, <1>3, <1>4, <1>5 DEF SettingsInv

\* The parts together are inductive.
LEMMA SettingsInductive == ASSUME SettingsInv, [Next]_vars PROVE SettingsInv'
BY SettingsStepTyped, LinkRestsStep, EchoedOnlyStep, AckFirstStep, SureMeansReadStep,
   EchoFollowsStep, WishFollowsStep DEF SettingsInv

\* So every state of the settings has them.
LEMMA SettingsInvariant == Spec => []SettingsInv
BY SettingsInitially, SettingsInductive, PTL DEF Spec

\* Every variable has its type, the frames under way included.
THEOREM SettingsTypeCorrect == Spec => []SettingsTypeOK
BY SettingsInvariant, PTL DEF SettingsInv

\* What was echoed is what the pods hold once nothing about the setting is under way, and it is
\* known unless a teardown has cleared it under this link: for any settings, frames under way and
\* timers, and whatever the firmware echoes.
THEOREM EchoTells == Spec => []EchoIsTruth
<1>1. ASSUME SettingsInv PROVE EchoIsTruth
  <2> SUFFICES ASSUME NEW s \in Echoed, Calm(s)
               PROVE  echoed[s] = {pods[s]} \/ (forgotten /\ echoed[s] = {})
    BY DEF EchoIsTruth
  <2>1. Silent(toHost, s)
    BY DEF Calm, Silent, Speaks, About, Reporting
  <2>2. QED
    BY <1>1, <2>1 DEF Calm, SettingsInv, EchoFollows, EchoKnown
<1>2. QED
  BY <1>1, SettingsInvariant, PTL

\* With nothing under way a sure wish is what the pods hold.
LEMMA WishesAreHeld ==
  ASSUME SettingsInv, NEW s \in Settings, Calm(s), sure[s], desired[s] # {}
  PROVE  desired[s] = {pods[s]}
<1>1. \A frame \in Range(toPods) : ~Sets(frame, s)
  BY UnderWay DEF Calm, Sets
<1>2. QED
  BY <1>1 DEF SettingsInv, WishFollows

\* A wish made, or sent again, while nothing about its setting is under way is what the pods
\* hold: for any settings, sticky or not, frames under way and timers of earlier links.
THEOREM WishIsHeld == Spec => []WishHolds
<1>1. SettingsInv => WishHolds
  BY WishesAreHeld DEF WishHolds
<1>2. QED
  BY <1>1, SettingsInvariant, PTL

\* On every link, from its first request of notifications on, the pods' mask follows the wish for
\* ear detection, made on this link or before it, where the firmware does not report that setting
\* ("Not echoed on this firmware", knowledge/aap-control-command-echo.md).
THEOREM MaskIsTheWish ==
  ASSUME EarDetection \notin Echoed
  PROVE  Spec => []MaskFollowsWish
<1>1. MaskFollows => MaskFollowsWish
  BY DEF MaskFollows, MaskFollowsWish, Unmasked, Mask
<1>2. Spec => []MaskFollows
  BY SettingsInitially, SettingsInvariant, MaskFollowsStep, PTL DEF Spec
<1>3. QED
  BY <1>1, <1>2, PTL

\* A verb about one bud leaves the other as the pods have it, by their echo or, where they sent
\* none, by the wish: for any settings, frames and timers, and whatever the firmware echoes.
THEOREM BudIsKept == Spec => []OtherBudKept
<1>1. ASSUME SettingsInv PROVE OtherBudKept
  <2> SUFFICES ASSUME Calm(Hold), echoed[Hold] # {} \/ (sure[Hold] /\ desired[Hold] # {}),
                      NEW bud \in Buds
               PROVE  Encode(Hold, {bud}) = pods[Hold] \cup {bud}
    BY DEF OtherBudKept
  <2>1. Hold \in Settings
    BY SettingsAssumption
  <2>2. CurrentSettingBytes(desired, Hold) = {pods[Hold]}
    <3>1. CASE echoed[Hold] # {}
      BY <1>1, <2>1, <3>1, EchoesAreTrue DEF Calm, CurrentSettingBytes
    <3>2. CASE echoed[Hold] = {}
      BY <1>1, <2>1, <3>2, WishesAreHeld DEF CurrentSettingBytes
    <3>3. QED
      BY <3>1, <3>2
  <2>3. QED
    BY <2>2 DEF Encode
<1>2. QED
  BY <1>1, SettingsInvariant, PTL

=============================================================================
