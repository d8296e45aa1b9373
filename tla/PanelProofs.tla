------------------------------ MODULE PanelProofs ------------------------------
(***************************************************************************)
(* Panel.tla for any fields, values, clicks and disturbances.  The queue   *)
(* holds at most one verb for a field (OnePerField), and a verb runs       *)
(* whenever one waits (BusyWhileWaiting): so the verb of the last click is *)
(* the one that waits for its field, or else the one that runs, and when   *)
(* the head of the queue starts nothing is left behind it for its field.   *)
(***************************************************************************)
EXTENDS Panel, SequenceTheorems, TLAPS

\* Some verb for f waits in the queue; the verb (f, v) does.
Waits(items, f) == \E n \in DOMAIN items : items[n].field = f
Has(items, f, v) == \E n \in DOMAIN items : items[n].field = f /\ items[n].value = v

AtMostOne(items) ==
  \A m, n \in DOMAIN items : items[m].field = items[n].field => m = n

OnePerField == AtMostOne(queue)

BusyWhileWaiting ==
  /\ command = "none" <=> inFlight = NoItem
  /\ inFlight = NoItem => queue = <<>>

\* The last click on a field waits, or it runs and nothing waits for its field.
LastOfField(f) ==
  unanswered[f] # NoValue =>
    \/ Has(queue, f, unanswered[f])
    \/ ~Waits(queue, f) /\ Runs(f) /\ inFlight.value = unanswered[f]

LastWaitsOrRuns == \A f \in Fields : LastOfField(f)

IInv == PanelTypeOK /\ OnePerField /\ BusyWhileWaiting /\ LastWaitsOrRuns

-----------------------------------------------------------------------------
\* The queue

\* A click adds its verb or puts it in the place of the one that waits for the field, and moves no
\* other verb.
LEMMA EnqueueFacts ==
  ASSUME NEW items \in Seq(Items), AtMostOne(items), NEW item \in Items
  PROVE  /\ Enqueue(items, item) \in Seq(Items)
         /\ AtMostOne(Enqueue(items, item))
         /\ Has(Enqueue(items, item), item.field, item.value)
         /\ \A f \in Fields \ {item.field} :
              /\ Waits(Enqueue(items, item), f) <=> Waits(items, f)
              /\ \A v : Has(items, f, v) => Has(Enqueue(items, item), f, v)
<1>1. CASE QueuedAt(items, item.field) = {}
  <2>1. Enqueue(items, item) = Append(items, item)
    BY <1>1 DEF Enqueue
  <2>2. \A n \in DOMAIN items : items[n].field # item.field
    BY <1>1 DEF QueuedAt
  <2>3. /\ Append(items, item) \in Seq(Items)
        /\ DOMAIN items = 1 .. Len(items) /\ Len(items) \in Nat
        /\ DOMAIN Append(items, item) = 1 .. Len(items) + 1
        /\ Append(items, item)[Len(items) + 1] = item
        /\ \A n \in 1 .. Len(items) : Append(items, item)[n] = items[n]
    OBVIOUS
  <2>4. AtMostOne(Append(items, item))
    BY <2>2, <2>3 DEF AtMostOne
  <2>5. Has(Append(items, item), item.field, item.value)
    BY <2>3 DEF Has
  <2>6. ASSUME NEW f \in Fields \ {item.field}
        PROVE  /\ Waits(Append(items, item), f) <=> Waits(items, f)
               /\ \A v : Has(items, f, v) => Has(Append(items, item), f, v)
    BY <2>3 DEF Waits, Has
  <2>. QED BY <2>1, <2>3, <2>4, <2>5, <2>6
<1>2. CASE QueuedAt(items, item.field) # {}
  <2> DEFINE replaced ==
        [n \in DOMAIN items |-> IF items[n].field = item.field THEN item ELSE items[n]]
  <2>1. Enqueue(items, item) = replaced
    BY <1>2 DEF Enqueue
  <2>2. DOMAIN items = 1 .. Len(items) /\ Len(items) \in Nat
    OBVIOUS
  <2>3. \A n \in 1 .. Len(items) : items[n] \in Items
    OBVIOUS
  <2>4. replaced \in Seq(Items)
    <3>1. replaced \in [1 .. Len(items) -> Items]
      BY <2>2, <2>3
    <3>. QED BY <3>1, <2>2, SeqDef
  <2>5. \A n \in DOMAIN items : replaced[n].field = items[n].field
    OBVIOUS
  <2>6. DOMAIN replaced = DOMAIN items
    OBVIOUS
  <2>7. \A n \in DOMAIN items : items[n].field # item.field => replaced[n] = items[n]
    OBVIOUS
  <2>8. PICK n \in DOMAIN items : items[n].field = item.field
    BY <1>2 DEF QueuedAt
  <2>9. replaced[n] = item
    BY <2>8
  <2> HIDE DEF replaced
  <2>10. AtMostOne(replaced)
    BY <2>5, <2>6 DEF AtMostOne
  <2>11. Has(replaced, item.field, item.value)
    BY <2>6, <2>8, <2>9 DEF Has
  <2>12. \A f \in Fields \ {item.field} :
           /\ Waits(replaced, f) <=> Waits(items, f)
           /\ \A v : Has(items, f, v) => Has(replaced, f, v)
    BY <2>5, <2>6, <2>7 DEF Waits, Has
  <2>. QED BY <2>1, <2>4, <2>10, <2>11, <2>12
<1>. QED BY <1>1, <1>2

\* The head of a queue with one verb for each field is the verb of its field; the others stay.
LEMMA HeadFacts ==
  ASSUME NEW items \in Seq(Items), items # <<>>, AtMostOne(items)
  PROVE  /\ Head(items) \in Items /\ Tail(items) \in Seq(Items)
         /\ AtMostOne(Tail(items))
         /\ ~Waits(Tail(items), Head(items).field)
         /\ \A v : Has(items, Head(items).field, v) => v = Head(items).value
         /\ \A f \in Fields \ {Head(items).field} :
              /\ Waits(Tail(items), f) <=> Waits(items, f)
              /\ \A v : Has(items, f, v) => Has(Tail(items), f, v)
<1>1. /\ Len(items) \in Nat /\ Len(items) >= 1
      /\ DOMAIN items = 1 .. Len(items)
      /\ Head(items) = items[1] /\ items[1] \in Items
      /\ Tail(items) \in Seq(Items)
      /\ DOMAIN Tail(items) = 1 .. Len(items) - 1
      /\ \A n \in 1 .. Len(items) - 1 : Tail(items)[n] = items[n + 1]
  OBVIOUS
<1> DEFINE rest == Tail(items)
<1> HIDE DEF rest
<1>2. /\ DOMAIN rest = 1 .. Len(items) - 1
      /\ \A n \in 1 .. Len(items) - 1 : rest[n] = items[n + 1]
  BY <1>1 DEF rest
<1>3. AtMostOne(rest)
  BY <1>1, <1>2 DEF AtMostOne
<1>4. ~Waits(rest, items[1].field)
  <2>1. ASSUME NEW n \in 1 .. Len(items) - 1
        PROVE  rest[n].field # items[1].field
    <3>1. n + 1 \in 1 .. Len(items) /\ 1 \in 1 .. Len(items) /\ n + 1 # 1
      BY <1>1
    <3>. QED BY <1>1, <1>2, <3>1 DEF AtMostOne
  <2>. QED BY <1>2, <2>1 DEF Waits
<1>5. \A v : Has(items, items[1].field, v) => v = items[1].value
  BY <1>1 DEF AtMostOne, Has
<1>6. ASSUME NEW n \in DOMAIN items, n # 1
      PROVE  n - 1 \in DOMAIN rest /\ rest[n - 1] = items[n]
  <2>1. n - 1 \in 1 .. Len(items) - 1 /\ (n - 1) + 1 = n
    BY <1>1, <1>6
  <2>2. rest[n - 1] = items[(n - 1) + 1]
    BY <1>2, <2>1
  <2>. QED BY <1>2, <2>1, <2>2
<1>7. ASSUME NEW n \in DOMAIN rest
      PROVE  n + 1 \in DOMAIN items /\ rest[n] = items[n + 1]
  BY <1>1, <1>2
<1>8. ASSUME NEW f \in Fields, f # items[1].field
      PROVE  /\ Waits(rest, f) <=> Waits(items, f)
             /\ \A v : Has(items, f, v) => Has(rest, f, v)
  <2>1. ASSUME NEW n \in DOMAIN items, items[n].field = f
        PROVE  n - 1 \in DOMAIN rest /\ rest[n - 1] = items[n]
    <3>1. n # 1
      BY <1>8, <2>1
    <3>. QED BY <1>6, <3>1
  <2>2. Waits(items, f) => Waits(rest, f)
    BY <2>1 DEF Waits
  <2>3. Waits(rest, f) => Waits(items, f)
    BY <1>7 DEF Waits
  <2>4. ASSUME NEW v, Has(items, f, v)
        PROVE  Has(rest, f, v)
    <3>1. PICK n \in DOMAIN items : items[n].field = f /\ items[n].value = v
      BY <2>4 DEF Has
    <3>. QED BY <2>1, <3>1 DEF Has
  <2>. QED BY <2>2, <2>3, <2>4
<1>. QED BY <1>1, <1>3, <1>4, <1>5, <1>8 DEF rest

-----------------------------------------------------------------------------
\* The invariant

THEOREM InitIInv == Init => IInv
<1> SUFFICES ASSUME Init PROVE IInv
  OBVIOUS
<1>1. PanelTypeOK
  <2>1. DefaultStatus \in Statuses
    BY PanelAssumption DEF DefaultStatus, Statuses
  <2>2. Nothing \in [Fields -> Optional(Values)]
    BY DEF Nothing, Optional
  <2>3. clicks \in 0 .. MaxClicks /\ disturbances \in 0 .. MaxDisturbances
    BY BoundsAssumption DEF Init
  <2>4. queue \in Seq(Items) /\ packets \in Seq(Items)
    BY DEF Init
  <2>. QED BY <2>1, <2>2, <2>3, <2>4 DEF Init, PanelTypeOK
<1>2. OnePerField /\ BusyWhileWaiting
  BY DEF Init, OnePerField, AtMostOne, BusyWhileWaiting
<1>3. LastWaitsOrRuns
  BY DEF Init, LastWaitsOrRuns, LastOfField, Nothing
<1>. QED BY <1>1, <1>2, <1>3 DEF IInv

\* Steps that leave the verbs and the clicks as they are keep what relates them.
LEMMA VerbsStay ==
  ASSUME IInv, UNCHANGED <<queue, inFlight, unanswered>>,
         command' = "none" <=> command = "none"
  PROVE  OnePerField' /\ BusyWhileWaiting' /\ LastWaitsOrRuns'
BY DEF IInv, OnePerField, BusyWhileWaiting, LastWaitsOrRuns, LastOfField, Runs

\* What a setter leaves of the status and of the packets.
LEMMA ApplyTypes ==
  ASSUME PanelTypeOK, NEW item \in Items, Apply(item) \/ Refuse
  PROVE  status' \in Statuses /\ packets' \in Seq(Items)
<1>1. CASE SetWithReport(item)
  BY <1>1 DEF SetWithReport, PanelTypeOK
<1>2. CASE SetAtOnce(item)
  BY <1>2 DEF SetAtOnce, PanelTypeOK, Statuses, Items
<1>3. CASE Refuse
  BY <1>3 DEF Refuse, PanelTypeOK
<1>. QED BY <1>1, <1>2, <1>3 DEF Apply

LEMMA AnswerVerbKeeps == IInv /\ AnswerVerb => IInv'
<1> SUFFICES ASSUME IInv, AnswerVerb PROVE IInv'
  OBVIOUS
<1>1. inFlight \in Items
  BY DEF IInv, PanelTypeOK, BusyWhileWaiting, AnswerVerb
<1>2. status' \in Statuses /\ packets' \in Seq(Items)
  BY <1>1, ApplyTypes DEF AnswerVerb, IInv
<1>3. PanelTypeOK'
  BY <1>2 DEF IInv, PanelTypeOK, AnswerVerb, holdVars
<1>4. command' = "none" <=> command = "none"
  BY DEF AnswerVerb
<1>. QED BY <1>3, <1>4, VerbsStay DEF IInv, AnswerVerb, holdVars

LEMMA AnswerLateVerbKeeps == IInv /\ AnswerLateVerb => IInv'
<1> SUFFICES ASSUME IInv, AnswerLateVerb PROVE IInv'
  OBVIOUS
<1>1. PICK item \in late : late' = late \ {item} /\ (Apply(item) \/ Refuse)
  BY DEF AnswerLateVerb
<1>2. item \in Items
  BY DEF IInv, PanelTypeOK
<1>3. status' \in Statuses /\ packets' \in Seq(Items)
  BY <1>1, <1>2, ApplyTypes DEF IInv
<1>4. PanelTypeOK'
  BY <1>1, <1>3 DEF IInv, PanelTypeOK, AnswerLateVerb, panelVars, holdVars
<1>. QED BY <1>4, VerbsStay DEF IInv, AnswerLateVerb, panelVars, holdVars

LEMMA PodsReportKeeps == IInv /\ PodsReport => IInv'
<1> SUFFICES ASSUME IInv, PodsReport PROVE IInv'
  OBVIOUS
<1>1. packets \in Seq(Items) /\ packets # <<>>
  BY DEF IInv, PanelTypeOK, PodsReport
<1>2. Head(packets) \in Items /\ Tail(packets) \in Seq(Items)
  BY <1>1
<1>3. status' \in Statuses
  BY <1>2 DEF IInv, PanelTypeOK, PodsReport, Statuses, Items
<1>4. PanelTypeOK'
  BY <1>2, <1>3 DEF IInv, PanelTypeOK, PodsReport, panelVars, holdVars
<1>. QED BY <1>4, VerbsStay DEF IInv, PodsReport, panelVars, holdVars

\* The other steps of the daemon and of what is around it.
LEMMA OutsideKeeps ==
  IInv /\ (StatusChanges \/ WriteStateFile \/ DaemonStarts \/ DaemonQuits \/ DaemonDies) => IInv'
<1> SUFFICES ASSUME IInv,
                    StatusChanges \/ WriteStateFile \/ DaemonStarts \/ DaemonQuits \/ DaemonDies
             PROVE  IInv'
  OBVIOUS
<1>1. CASE StatusChanges
  <2>1. status' \in Statuses
    BY <1>1 DEF IInv, PanelTypeOK, StatusChanges, Statuses
  <2>2. disturbances' \in 0 .. MaxDisturbances
    BY <1>1, BoundsAssumption DEF IInv, PanelTypeOK, StatusChanges
  <2>3. PanelTypeOK'
    BY <1>1, <2>1, <2>2 DEF IInv, PanelTypeOK, StatusChanges, panelVars, holdVars
  <2>. QED BY <1>1, <2>3, VerbsStay DEF IInv, StatusChanges, panelVars, holdVars
<1>2. CASE WriteStateFile
  <2>1. PanelTypeOK'
    BY <1>2 DEF IInv, PanelTypeOK, WriteStateFile, StatusJson, holdVars
  <2>. QED BY <1>2, <2>1, VerbsStay DEF IInv, WriteStateFile, holdVars
<1>3. CASE DaemonStarts
  <2>1. DefaultStatus \in Statuses
    BY PanelAssumption DEF DefaultStatus, Statuses
  <2>2. PanelTypeOK'
    BY <1>3, <2>1 DEF IInv, PanelTypeOK, DaemonStarts, panelVars, holdVars
  <2>. QED BY <1>3, <2>2, VerbsStay DEF IInv, DaemonStarts, panelVars, holdVars
<1>4. CASE DaemonQuits \/ DaemonDies
  <2>1. ProcessEnds /\ (file' = NoFile \/ file' = file) /\ (changed' = TRUE \/ changed' = changed)
    BY <1>4 DEF DaemonQuits, DaemonDies
  <2>2. disturbances' \in 0 .. MaxDisturbances
    BY <2>1, BoundsAssumption DEF IInv, PanelTypeOK, ProcessEnds
  <2>3. /\ command' \in {"none", "running", "ok", "error"}
        /\ command' = "none" <=> command = "none"
    BY <2>1 DEF IInv, PanelTypeOK, ProcessEnds
  <2>4. changed' \in BOOLEAN /\ (file' = NoFile \/ file' \in Statuses)
    BY <2>1 DEF IInv, PanelTypeOK
  <2>5. packets' \in Seq(Items) /\ late' \subseteq Items
    BY <2>1 DEF ProcessEnds
  <2>6. PanelTypeOK'
    BY <2>1, <2>2, <2>3, <2>4, <2>5 DEF IInv, PanelTypeOK, ProcessEnds, holdVars
  <2>. QED BY <2>1, <2>3, <2>6, VerbsStay DEF IInv, ProcessEnds, holdVars
<1>. QED BY <1>1, <1>2, <1>3, <1>4

LEMMA CommandKeeps == IInv /\ Command => IInv'
<1> SUFFICES ASSUME IInv, Command PROVE IInv'
  OBVIOUS
<1>1. command = "running" /\ command' = "error"
  BY DEF Command, CannotConnect, GivesUp
<1>2. inFlight \in Items
  BY <1>1 DEF IInv, PanelTypeOK, BusyWhileWaiting
<1>3. CASE CannotConnect
  <2>1. PanelTypeOK'
    BY <1>3 DEF IInv, PanelTypeOK, CannotConnect, daemonVars, holdVars
  <2>. QED BY <1>1, <1>3, <2>1, VerbsStay DEF IInv, CannotConnect, holdVars
<1>4. CASE GivesUp
  <2>1. disturbances' \in 0 .. MaxDisturbances
    BY <1>4, BoundsAssumption DEF IInv, PanelTypeOK, GivesUp
  <2>2. PanelTypeOK'
    BY <1>2, <1>4, <2>1 DEF IInv, PanelTypeOK, GivesUp, holdVars
  <2>. QED BY <1>1, <1>4, <2>2, VerbsStay DEF IInv, GivesUp, holdVars
<1>. QED BY <1>3, <1>4 DEF Command

\* The panel's timers and reads.
LEMMA ReadsKeep ==
  IInv /\ (HoldComesDue \/ SettleTimer \/ FileChanged \/ Loaded \/ LoadFailed) => IInv'
<1> SUFFICES ASSUME IInv, HoldComesDue \/ SettleTimer \/ FileChanged \/ Loaded \/ LoadFailed
             PROVE  IInv'
  OBVIOUS
<1>1. UNCHANGED <<queue, inFlight, unanswered, command>>
  BY DEF HoldComesDue, SettleTimer, FileChanged, Loaded, LoadFailed
<1>2. CASE HoldComesDue
  BY <1>1, <1>2, VerbsStay DEF IInv, PanelTypeOK, HoldComesDue, daemonVars
<1>3. CASE SettleTimer \/ FileChanged \/ LoadFailed
  BY <1>1, <1>3, VerbsStay
     DEF IInv, PanelTypeOK, SettleTimer, FileChanged, LoadFailed, daemonVars, holdVars
<1>4. CASE Loaded
  <2> DEFINE kept == Settle(holds, file)
  <2>1. kept \in [Fields -> Optional(Values)]
    BY DEF IInv, PanelTypeOK, Settle, Optional
  <2>2. file \in Statuses
    BY <1>4 DEF IInv, PanelTypeOK, Loaded
  <2>3. /\ holds' = kept /\ overdue' = {} /\ settleTimer' = AnyHold(kept)
        /\ shown' = [f \in Fields |-> IF Held(kept, f) THEN kept[f] ELSE file[f]]
    BY <1>4 DEF Loaded, ApplyStatus
  <2> HIDE DEF kept
  <2>4. shown' \in Statuses
    BY <2>1, <2>2, <2>3 DEF Statuses, Held, Optional
  <2>5. settleTimer' \in BOOLEAN
    BY <2>3 DEF AnyHold
  <2>6. PanelTypeOK'
    BY <1>4, <2>1, <2>3, <2>4, <2>5 DEF IInv, PanelTypeOK, Loaded, daemonVars
  <2>. QED BY <1>1, <2>6, VerbsStay DEF IInv
<1>. QED BY <1>2, <1>3, <1>4

\* The last click on a field takes the place of the verb that waits for it.
LEMMA ClickKeeps == IInv /\ Click => IInv'
<1> SUFFICES ASSUME IInv, Click PROVE IInv'
  OBVIOUS
<1>1. PICK item \in Items :
        /\ holds' = PendingAfter(holds, item)
        /\ overdue' = overdue \ {item.field}
        /\ settleTimer' = TRUE
        /\ shown' = [shown EXCEPT ![item.field] = item.value]
        /\ unanswered' = PendingAfter(unanswered, item)
        /\ IF inFlight = NoItem
           THEN Start(item) /\ UNCHANGED queue
           ELSE queue' = Enqueue(queue, item) /\ UNCHANGED <<inFlight, command>>
  BY DEF Click
<1>2. item.field \in Fields /\ item.value \in Values /\ item # NoItem
  BY PanelAssumption DEF Items
<1>3. /\ queue \in Seq(Items) /\ AtMostOne(queue)
      /\ unanswered \in [Fields -> Optional(Values)]
  BY DEF IInv, PanelTypeOK, OnePerField
<1>4. /\ queue' \in Seq(Items)
      /\ inFlight' = NoItem \/ inFlight' \in Items
      /\ command' \in {"none", "running", "ok", "error"}
  BY <1>1, <1>3, EnqueueFacts DEF IInv, PanelTypeOK, Start
<1>5. /\ holds' \in [Fields -> Optional(Values)]
      /\ unanswered' \in [Fields -> Optional(Values)]
      /\ shown' \in Statuses
  BY <1>1, <1>2 DEF IInv, PanelTypeOK, PendingAfter, Optional, Statuses
<1>6. clicks' \in 0 .. MaxClicks
  BY BoundsAssumption DEF IInv, PanelTypeOK, Click
<1>7. PanelTypeOK'
  BY <1>1, <1>4, <1>5, <1>6 DEF IInv, PanelTypeOK, Click, daemonVars
<1>8. OnePerField'
  BY <1>1, <1>3, EnqueueFacts DEF OnePerField
<1>9. BusyWhileWaiting'
  BY <1>1, <1>2 DEF IInv, BusyWhileWaiting, Start
<1>10. unanswered'[item.field] = item.value
  BY <1>1, <1>2, <1>3 DEF PendingAfter
<1>11. \A f \in Fields \ {item.field} : unanswered'[f] = unanswered[f]
  BY <1>1, <1>3 DEF PendingAfter
<1>12. CASE inFlight = NoItem
  <2>1. queue' = <<>> /\ queue = <<>> /\ inFlight' = item
    BY <1>1, <1>12 DEF IInv, BusyWhileWaiting, Start
  <2>2. ASSUME NEW f \in Fields, f # item.field
        PROVE  unanswered[f] = NoValue
    BY <1>12, <2>1 DEF IInv, LastWaitsOrRuns, LastOfField, Has, Waits, Runs
  <2>3. LastOfField(item.field)'
    BY <1>2, <1>10, <2>1 DEF LastOfField, Has, Waits, Runs
  <2>4. ASSUME NEW f \in Fields, f # item.field
        PROVE  LastOfField(f)'
    BY <1>11, <2>2, <2>4 DEF LastOfField
  <2>5. LastWaitsOrRuns'
    BY <2>3, <2>4 DEF LastWaitsOrRuns
  <2>. QED BY <1>7, <1>8, <1>9, <2>5 DEF IInv
<1>13. CASE inFlight # NoItem
  <2>1. queue' = Enqueue(queue, item) /\ inFlight' = inFlight
    BY <1>1, <1>13
  <2>2. LastOfField(item.field)'
    BY <1>3, <1>10, <2>1, EnqueueFacts DEF LastOfField
  <2>3. ASSUME NEW f \in Fields, f # item.field
        PROVE  LastOfField(f)'
    <3>1. /\ Waits(queue', f) <=> Waits(queue, f)
          /\ \A v : Has(queue, f, v) => Has(queue', f, v)
      BY <1>3, <2>1, <2>3, EnqueueFacts
    <3>2. LastOfField(f)
      BY DEF IInv, LastWaitsOrRuns
    <3>. QED BY <1>11, <2>1, <2>3, <3>1, <3>2 DEF LastOfField, Runs
  <2>4. LastWaitsOrRuns'
    BY <2>2, <2>3 DEF LastWaitsOrRuns
  <2>. QED BY <1>7, <1>8, <1>9, <2>4 DEF IInv
<1>. QED BY <1>12, <1>13

\* The verb that ended was the last click on its field only if none waits for it; the one that
\* starts has nothing behind it for its field.
LEMMA CommandExitsKeeps == IInv /\ CommandExits => IInv'
<1> SUFFICES ASSUME IInv, CommandExits PROVE IInv'
  OBVIOUS
<1>1. inFlight \in Items /\ inFlight # NoItem /\ inFlight.field \in Fields
  BY PanelAssumption DEF IInv, PanelTypeOK, BusyWhileWaiting, CommandExits, Items
<1>2. /\ queue \in Seq(Items) /\ AtMostOne(queue)
      /\ unanswered \in [Fields -> Optional(Values)]
      /\ holds \in [Fields -> Optional(Values)]
  BY DEF IInv, PanelTypeOK, OnePerField
<1> DEFINE kept == IF command = "error" THEN DropHold(holds, inFlight.field) ELSE holds
           ended == IF command = "error" THEN {inFlight.field} ELSE {}
<1>3. kept \in [Fields -> Optional(Values)]
  BY <1>2 DEF DropHold, Optional
<1>4. /\ IF queue = <<>>
         THEN /\ holds' = kept /\ overdue' = overdue \ ended
              /\ inFlight' = NoItem /\ command' = "none"
              /\ UNCHANGED queue
         ELSE /\ holds' = PendingAfter(kept, Head(queue))
              /\ overdue' = (overdue \ ended) \ {Head(queue).field}
              /\ Start(Head(queue))
              /\ queue' = Tail(queue)
      /\ settleTimer' = IF command = "error" \/ queue # <<>> THEN AnyHold(holds') ELSE settleTimer
      /\ reading' = (reading \/ Rereads)
      /\ unanswered' = IF QueuedAt(queue, inFlight.field) = {}
                       THEN DropHold(unanswered, inFlight.field) ELSE unanswered
      /\ UNCHANGED <<daemonVars, shown, changed, reachable, clicks, disturbances>>
  BY DEF CommandExits
<1> HIDE DEF kept, ended
<1>5. unanswered' \in [Fields -> Optional(Values)]
  BY <1>2, <1>4 DEF DropHold, Optional
<1>6. overdue' \subseteq Fields
  BY <1>4 DEF IInv, PanelTypeOK
<1>7. settleTimer' \in BOOLEAN /\ reading' \in BOOLEAN
  <2>1. settleTimer' = AnyHold(holds') \/ settleTimer' = settleTimer
    BY <1>4
  <2>. QED BY <1>4, <2>1, ZenonT(30) DEF IInv, PanelTypeOK, AnyHold, Rereads
<1>8. ASSUME NEW f \in Fields
      PROVE  unanswered'[f] # NoValue =>
               /\ unanswered'[f] = unanswered[f]
               /\ f = inFlight.field => Waits(queue, f)
  BY <1>1, <1>2, <1>4 DEF DropHold, QueuedAt, Waits
<1>9. CASE queue = <<>>
  <2>1. queue' = <<>> /\ inFlight' = NoItem /\ command' = "none" /\ holds' = kept
    BY <1>4, <1>9
  <2>2. PanelTypeOK'
    BY <1>2, <1>3, <1>4, <1>5, <1>6, <1>7, <1>9, <2>1 DEF IInv, PanelTypeOK, daemonVars
  <2>3. OnePerField' /\ BusyWhileWaiting'
    BY <2>1 DEF OnePerField, AtMostOne, BusyWhileWaiting
  <2>4. ASSUME NEW f \in Fields
        PROVE  unanswered'[f] = NoValue
    BY <1>8, <1>9 DEF IInv, LastWaitsOrRuns, LastOfField, Has, Waits, Runs
  <2>5. LastWaitsOrRuns'
    BY <2>4 DEF LastWaitsOrRuns, LastOfField
  <2>. QED BY <2>2, <2>3, <2>5 DEF IInv
<1>10. CASE queue # <<>>
  <2>1. /\ queue' = Tail(queue) /\ inFlight' = Head(queue) /\ command' = "running"
        /\ holds' = PendingAfter(kept, Head(queue))
    BY <1>4, <1>10 DEF Start
  <2>2. Head(queue) \in Items /\ Tail(queue) \in Seq(Items) /\ AtMostOne(Tail(queue))
    BY <1>2, <1>10, HeadFacts
  <2>3. holds' \in [Fields -> Optional(Values)]
    BY <1>3, <2>1, <2>2 DEF PendingAfter, Optional, Items
  <2>4. PanelTypeOK'
    BY <1>4, <1>5, <1>6, <1>7, <2>1, <2>2, <2>3 DEF IInv, PanelTypeOK, daemonVars
  <2>5. OnePerField' /\ BusyWhileWaiting'
    BY PanelAssumption, <2>1, <2>2 DEF OnePerField, BusyWhileWaiting, Items
  <2>6. ASSUME NEW f \in Fields
        PROVE  LastOfField(f)'
    <3>1. SUFFICES ASSUME unanswered'[f] # NoValue
                   PROVE  \/ Has(queue', f, unanswered'[f])
                          \/ /\ ~Waits(queue', f) /\ inFlight' # NoItem
                             /\ inFlight'.field = f /\ inFlight'.value = unanswered'[f]
      BY DEF LastOfField, Runs
    <3>2. Has(queue, f, unanswered'[f])
      BY <1>8, <3>1 DEF IInv, LastWaitsOrRuns, LastOfField, Runs
    <3>3. CASE f = Head(queue).field
      <4>1. ~Waits(queue', f) /\ Head(queue).value = unanswered'[f]
        BY <1>2, <1>10, <2>1, <3>2, <3>3, HeadFacts
      <4>. QED BY PanelAssumption, <2>1, <2>2, <3>3, <4>1 DEF Items
    <3>4. CASE f # Head(queue).field
      BY <1>2, <1>10, <2>1, <3>2, <3>4, HeadFacts
    <3>. QED BY <3>3, <3>4
  <2>7. LastWaitsOrRuns'
    BY <2>6 DEF LastWaitsOrRuns
  <2>. QED BY <2>4, <2>5, <2>7 DEF IInv
<1>. QED BY <1>9, <1>10

THEOREM NextIInv == IInv /\ [Next]_vars => IInv'
<1> SUFFICES ASSUME IInv, [Next]_vars PROVE IInv'
  OBVIOUS
<1>1. CASE Click BY <1>1, ClickKeeps
<1>2. CASE CommandExits BY <1>2, CommandExitsKeeps
<1>3. CASE HoldComesDue \/ SettleTimer \/ FileChanged \/ Loaded \/ LoadFailed
  BY <1>3, ReadsKeep
<1>4. CASE Command BY <1>4, CommandKeeps
<1>5. CASE AnswerVerb BY <1>5, AnswerVerbKeeps
<1>6. CASE AnswerLateVerb BY <1>6, AnswerLateVerbKeeps
<1>7. CASE PodsReport BY <1>7, PodsReportKeeps
<1>8. CASE StatusChanges \/ WriteStateFile \/ DaemonStarts \/ DaemonQuits \/ DaemonDies
  BY <1>8, OutsideKeeps
<1>9. CASE UNCHANGED vars
  BY <1>9, VerbsStay DEF IInv, PanelTypeOK, vars, daemonVars, panelVars, holdVars
<1>. QED
  BY <1>1, <1>2, <1>3, <1>4, <1>5, <1>6, <1>7, <1>8, <1>9 DEF Next, Panel, Daemon, Outside

THEOREM IInvHolds == Spec => []IInv
BY InitIInv, NextIInv, PTL DEF Spec

\* Service.qml, Model.js, librepods-ctl and the daemon's verbs keep the types of their state.
THEOREM PanelTypeCorrect == Spec => []PanelTypeOK
<1>1. IInv => PanelTypeOK BY DEF IInv
<1>. QED BY <1>1, IInvHolds, PTL

\* enqueue, _send and onExited of Service.qml and Model.js: however many clicks come on however many
\* fields, and whatever their verbs' ends, the verb of the last click on a field is the one that
\* waits for it, or runs with none behind it, until it has ended.
THEOREM LastClickKept == Spec => []LastClickGoesOut
<1>1. ASSUME IInv PROVE LastClickGoesOut
  <2>1. ASSUME NEW f \in Fields, unanswered[f] # NoValue
        PROVE  NewestVerb(f) = {unanswered[f]}
    <3>1. CASE Has(queue, f, unanswered[f])
      <4>1. PICK n \in DOMAIN queue : queue[n].field = f /\ queue[n].value = unanswered[f]
        BY <3>1 DEF Has
      <4>2. QueuedAt(queue, f) = {n}
        BY <1>1, <4>1 DEF QueuedAt, IInv, OnePerField, AtMostOne
      <4>. QED BY <4>1, <4>2 DEF NewestVerb
    <3>2. CASE ~Waits(queue, f) /\ Runs(f) /\ inFlight.value = unanswered[f]
      <4>1. QueuedAt(queue, f) = {}
        BY <3>2 DEF QueuedAt, Waits
      <4>. QED BY <3>2, <4>1 DEF NewestVerb
    <3>. QED BY <1>1, <2>1, <3>1, <3>2 DEF IInv, LastWaitsOrRuns, LastOfField
  <2>. QED BY <2>1 DEF LastClickGoesOut
<1>. QED BY <1>1, IInvHolds, PTL

\* settleTimer and the reads of Service.qml: no step of the panel or of the daemon leaves a hold on
\* display with neither the timer nor a read to end it.
THEOREM HoldsAreDriven == Spec => []HoldIsDriven
<1>1. Init => HoldIsDriven
  BY DEF Init, HoldIsDriven
<1>2. HoldIsDriven /\ [Next]_vars => HoldIsDriven'
  <2> SUFFICES ASSUME HoldIsDriven, [Next]_vars PROVE HoldIsDriven'
    OBVIOUS
  <2>1. CASE UNCHANGED <<holds, reachable, settleTimer, reading>>
    BY <2>1 DEF HoldIsDriven, AnyHold, Held
  <2>2. CASE Click
    BY <2>2 DEF Click, HoldIsDriven
  <2>3. CASE CommandExits
    <3>1. /\ settleTimer' = IF command = "error" \/ queue # <<>>
                            THEN AnyHold(holds') ELSE settleTimer
          /\ reading' = (reading \/ Rereads) /\ reachable' = reachable
      BY <2>3 DEF CommandExits
    <3>2. CASE command = "error" \/ queue # <<>>
      BY <3>1, <3>2 DEF HoldIsDriven
    <3>3. CASE command # "error" /\ queue = <<>>
      <4>1. holds' = holds
        BY <2>3, <3>3 DEF CommandExits
      <4>. QED BY <3>1, <3>3, <4>1 DEF HoldIsDriven, AnyHold, Held, Rereads
    <3>. QED BY <3>2, <3>3
  <2>4. CASE SettleTimer \/ FileChanged
    BY <2>4 DEF SettleTimer, FileChanged, HoldIsDriven
  <2>5. CASE Loaded
    BY <2>5 DEF Loaded, ApplyStatus, HoldIsDriven
  <2>6. CASE LoadFailed
    BY <2>6 DEF LoadFailed, HoldIsDriven
  <2>. QED
    BY <2>1, <2>2, <2>3, <2>4, <2>5, <2>6
       DEF Next, Panel, Command, Daemon, Outside, HoldComesDue, CannotConnect, GivesUp, AnswerVerb,
           AnswerLateVerb, PodsReport, WriteStateFile, StatusChanges, DaemonStarts, DaemonQuits,
           DaemonDies, ProcessEnds, vars, panelVars, holdVars
<1>. QED BY <1>1, <1>2, PTL DEF Spec
=============================================================================
