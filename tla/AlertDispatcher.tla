-------------------------- MODULE AlertDispatcher --------------------------
(***************************************************************************)
(* AlertDispatcher: the loop task publishes an alert on MQTT, records it   *)
(* and queues its HTTPS channels; a delivery task, started when there is   *)
(* something to send and gone 30 s after, sends them one by one and writes *)
(* each result into the record.  Any other task may list or clear the      *)
(* records.                                                                *)
(*                                                                         *)
(* The actions end where another task can come in between: at each atomic, *)
(* each queue call and each use of the records under their mutex.          *)
(***************************************************************************)
EXTENDS Naturals, Sequences, FiniteSets

CONSTANTS
    Tasks,        \* the delivery tasks there is memory for at one time
    QueueLength,  \* QUEUE_LENGTH
    MaxRecords,   \* MAX_RECORDS
    Orders,       \* what an alert asks of each channel
    MaxAlerts,    \* bound: alerts raised
    MaxMissed     \* bound: results lost because the records were locked

HttpOrder == <<"pushover", "ntfy", "webhook">>
HttpChannels == {"pushover", "ntfy", "webhook"}
Channels == {"mqtt"} \union HttpChannels

ASSUME DispatcherAssumption ==
    /\ QueueLength \in Nat \ {0}
    /\ MaxRecords \in Nat \ {0}
    /\ Orders \subseteq [Channels -> {"off", "blocked", "on"}]
    /\ MaxAlerts \in Nat /\ MaxMissed \in Nat

VARIABLES
    loop,         \* the loop task, inside dispatch() or idle()
    offered,      \* the job it is queueing
    queue,        \* the jobs queued
    taskRunning,  \* the flag that owns the queue
    delivering,   \* the flag idle() reads
    pc,           \* each delivery task, "none" when it does not exist
    job,          \* the job each delivery task has in hand
    records,      \* the recent alerts with the status of each channel
    nextId,
    startFailed,  \* ghost: the last delivery task could not be created
    unreported    \* ghost: results setStatus could not write, <<id, channel>>

tasks == <<pc, job>>
log == <<records, nextId, unreported>>
vars == <<loop, offered, queue, taskRunning, delivering, tasks, log, startFailed>>

Jobs == [id : Nat, todo : SUBSET HttpChannels]
NoJob == [id |-> 0, todo |-> {}]
Statuses == {"notSent", "pending", "sent", "failed", "skipped"}
Records == [id : Nat, status : [Channels -> Statuses]]

\* The task holds the queue, or is about to give it up.
Owning == {"receive", "got", "deliver", "retry", "timeout"}
Working == {"deliver", "retry"}
Leaving == {"released", "claim"}

TypeOK ==
    /\ loop \in {"idle", "send", "ensure", "create", "probe"}
    /\ offered \in Jobs
    /\ queue \in Seq(Jobs) /\ Len(queue) <= QueueLength
    /\ taskRunning \in BOOLEAN /\ delivering \in BOOLEAN /\ startFailed \in BOOLEAN
    /\ pc \in [Tasks -> {"none"} \union Owning \union Leaving]
    /\ job \in [Tasks -> Jobs]
    /\ records \in Seq(Records) /\ Len(records) <= MaxRecords
    /\ nextId \in Nat \ {0}
    /\ unreported \subseteq Nat \X HttpChannels

Init ==
    /\ loop = "idle" /\ offered = NoJob /\ queue = <<>>
    /\ taskRunning = FALSE /\ delivering = FALSE /\ startFailed = FALSE
    /\ pc = [t \in Tasks |-> "none"] /\ job = [t \in Tasks |-> NoJob]
    /\ records = <<>> /\ nextId = 1 /\ unreported = {}

-----------------------------------------------------------------------------
(* The records                                                             *)

SetStatus(rs, id, channels, outcome) ==
    [k \in DOMAIN rs |->
        IF rs[k].id = id
        THEN [rs[k] EXCEPT !.status = [c \in Channels |->
                 IF c \in channels THEN outcome ELSE rs[k].status[c]]]
        ELSE rs[k]]

\* Each channel's result is written, or lost when the records stay locked
\* for 100 ms.  `missed` are the results that are lost.
Report(id, channels, outcome, missed) ==
    /\ missed \subseteq channels
    /\ records' = SetStatus(records, id, channels \ missed, outcome)
    /\ unreported' = unreported \union {<<id, c>> : c \in missed}
    /\ Cardinality(unreported') <= MaxMissed

Kept(rs) == IF Len(rs) > MaxRecords THEN Tail(rs) ELSE rs

Requested(order, published) ==
    [c \in Channels |->
        CASE order[c] = "off"     -> "notSent"
          [] order[c] = "blocked" -> "skipped"
          [] OTHER -> IF c # "mqtt" THEN "pending"
                      ELSE IF published THEN "sent" ELSE "failed"]

-----------------------------------------------------------------------------
(* The loop task: dispatch() and idle()                                    *)

(* dispatch(): MQTT is published, the alert recorded and its HTTPS channels *)
(* made a job.  When the records are locked nothing is stored or queued: a  *)
(* step that changes nothing here.                                          *)
Dispatch ==
    /\ loop = "idle" /\ nextId <= MaxAlerts
    /\ \E order \in Orders, published \in BOOLEAN :
         LET todo == {c \in HttpChannels : order[c] = "on"}
         IN  /\ records' = Kept(Append(records,
                               [id |-> nextId, status |-> Requested(order, published)]))
             /\ offered' = (IF todo = {} THEN NoJob ELSE [id |-> nextId, todo |-> todo])
             /\ loop' = (IF todo = {} THEN "idle" ELSE "send")
    /\ nextId' = nextId + 1
    /\ UNCHANGED <<queue, taskRunning, delivering, tasks, startFailed, unreported>>

SendJob ==
    /\ loop = "send" /\ Len(queue) < QueueLength
    /\ queue' = Append(queue, offered)
    /\ offered' = NoJob /\ loop' = "ensure"
    /\ UNCHANGED <<taskRunning, delivering, tasks, log, startFailed>>

(* queueHttp() fails the job at once; no delivery task is started.  The code  *)
(* takes the lock for each channel: it is one step here, which what happens    *)
(* in between (the list is cleared) would only cut short.                    *)
QueueFull ==
    /\ loop = "send" /\ Len(queue) = QueueLength
    /\ \E missed \in SUBSET offered.todo : Report(offered.id, offered.todo, "failed", missed)
    /\ offered' = NoJob /\ loop' = "idle"
    /\ UNCHANGED <<queue, taskRunning, delivering, tasks, nextId, startFailed>>

(* ensureTask(): the flag is claimed before the task is made. *)
Ensure ==
    /\ loop = "ensure"
    /\ loop' = (IF taskRunning THEN "idle" ELSE "create")
    /\ taskRunning' = TRUE
    /\ UNCHANGED <<offered, queue, delivering, tasks, log, startFailed>>

Create ==
    /\ loop = "create"
    /\ \E t \in Tasks : pc[t] = "none" /\ pc' = [pc EXCEPT ![t] = "receive"]
    /\ loop' = "idle" /\ startFailed' = FALSE
    /\ UNCHANGED <<offered, queue, taskRunning, delivering, job, log>>

CreateFails ==
    /\ loop = "create"
    /\ taskRunning' = FALSE
    /\ loop' = "idle" /\ startFailed' = TRUE
    /\ UNCHANGED <<offered, queue, delivering, tasks, log>>

(* idle() reads the flag, then the queue. *)
ProbeDelivering ==
    /\ loop = "idle" /\ ~delivering
    /\ loop' = "probe"
    /\ UNCHANGED <<offered, queue, taskRunning, delivering, tasks, log, startFailed>>

ProbeQueue ==
    /\ loop = "probe"
    /\ loop' = "idle"
    /\ UNCHANGED <<offered, queue, taskRunning, delivering, tasks, log, startFailed>>

(* The web task clears the list. *)
ClearRecent ==
    /\ records # <<>>
    /\ records' = <<>>
    /\ UNCHANGED <<loop, offered, queue, taskRunning, delivering, tasks, nextId,
                   unreported, startFailed>>

-----------------------------------------------------------------------------
(* A delivery task: run() and deliver()                                    *)

Goto(t, from, to) == pc[t] = from /\ pc' = [pc EXCEPT ![t] = to]

Receive(t) ==
    /\ Goto(t, "receive", "got")
    /\ queue # <<>>
    /\ job' = [job EXCEPT ![t] = Head(queue)]
    /\ queue' = Tail(queue)
    /\ UNCHANGED <<loop, offered, taskRunning, delivering, log, startFailed>>

StartDelivery(t) ==
    /\ Goto(t, "got", "deliver")
    /\ delivering' = TRUE
    /\ UNCHANGED <<loop, offered, queue, taskRunning, job, log, startFailed>>

\* The channel deliver() tries next.
IsNext(c, todo) ==
    \E i \in 1..3 : HttpOrder[i] = c /\ c \in todo /\ \A k \in 1..(i - 1) : HttpOrder[k] \notin todo

\* wrong variant: the channel stays in the job and is delivered again
FinishAgain(t, c, outcome) ==
    /\ \E missed \in SUBSET {c} : Report(job[t].id, {c}, outcome, missed)
    /\ UNCHANGED job

Finish(t, c, outcome) ==
    /\ \E missed \in SUBSET {c} : Report(job[t].id, {c}, outcome, missed)
    /\ job' = [job EXCEPT ![t].todo = @ \ {c}]

(* One channel: skipped (no WiFi, an update, the TLS lock taken for 30 s),  *)
(* answered, or failed on the connection, which is tried again after 3 s.   *)
Attempt(t) ==
    /\ Goto(t, "deliver", "deliver")
    /\ \E c \in HttpChannels, outcome \in {"skipped", "sent", "failed"} :
          IsNext(c, job[t].todo) /\ Finish(t, c, outcome)
    /\ UNCHANGED <<loop, offered, queue, taskRunning, delivering, nextId, startFailed>>

ConnectionFails(t) ==
    /\ Goto(t, "deliver", "retry")
    /\ job[t].todo # {}
    /\ UNCHANGED <<loop, offered, queue, taskRunning, delivering, job, log, startFailed>>

Retry(t) ==
    /\ Goto(t, "retry", "deliver")
    /\ \E c \in HttpChannels, outcome \in {"sent", "failed"} :
          IsNext(c, job[t].todo) /\ Finish(t, c, outcome)
    /\ UNCHANGED <<loop, offered, queue, taskRunning, delivering, nextId, startFailed>>

EndDelivery(t) ==
    /\ Goto(t, "deliver", "receive")
    /\ job[t].todo = {}
    /\ job' = [job EXCEPT ![t] = NoJob]
    /\ delivering' = FALSE
    /\ UNCHANGED <<loop, offered, queue, taskRunning, log, startFailed>>

(* Nothing came for TASK_IDLE_EXIT_MS. *)
IdleTimeout(t) ==
    /\ Goto(t, "receive", "timeout")
    /\ queue = <<>>
    /\ UNCHANGED <<loop, offered, queue, taskRunning, delivering, job, log, startFailed>>

\* wrong variant: the task leaves with the flag still up
ReleaseForgotten(t) ==
    /\ Goto(t, "timeout", "none")
    /\ UNCHANGED <<loop, offered, queue, taskRunning, delivering, job, log, startFailed>>

Release(t) ==
    /\ Goto(t, "timeout", "released")
    /\ taskRunning' = FALSE
    /\ UNCHANGED <<loop, offered, queue, delivering, job, log, startFailed>>

\* wrong variant: the task ends without looking at the queue again
RecheckNever(t) ==
    /\ Goto(t, "released", "none")
    /\ UNCHANGED <<loop, offered, queue, taskRunning, delivering, job, log, startFailed>>

(* A job may have raced in: then the task takes the flag back, or ends when *)
(* a new task has it.                                                       *)
Recheck(t) ==
    /\ Goto(t, "released", IF queue = <<>> THEN "none" ELSE "claim")
    /\ UNCHANGED <<loop, offered, queue, taskRunning, delivering, job, log, startFailed>>

\* wrong variant: the flag is set whoever has it
ClaimBlind(t) ==
    /\ Goto(t, "claim", "receive")
    /\ taskRunning' = TRUE
    /\ UNCHANGED <<loop, offered, queue, delivering, job, log, startFailed>>

Claim(t) ==
    /\ Goto(t, "claim", IF taskRunning THEN "none" ELSE "receive")
    /\ taskRunning' = TRUE
    /\ UNCHANGED <<loop, offered, queue, delivering, job, log, startFailed>>

Delivery(t) ==
    \/ Receive(t)
    \/ StartDelivery(t)
    \/ Attempt(t)
    \/ ConnectionFails(t)
    \/ Retry(t)
    \/ EndDelivery(t)
    \/ IdleTimeout(t)
    \/ Release(t)
    \/ Recheck(t)
    \/ Claim(t)

Queueing ==
    \/ SendJob
    \/ QueueFull
    \/ Ensure
    \/ Create
    \/ CreateFails

Next ==
    \/ Dispatch
    \/ Queueing
    \/ ProbeDelivering
    \/ ProbeQueue
    \/ ClearRecent
    \/ \E t \in Tasks : Delivery(t)

Spec == Init /\ [][Next]_vars

-----------------------------------------------------------------------------
(* What the dispatcher promises                                            *)

\* At most one delivery task takes from the queue, so alerts go out one at a
\* time and in order: the flag taskRunning is up exactly when the loop task is
\* creating the task or a task owns the queue, and `delivering` exactly while
\* that task has a delivery running (ensureTask, run).
OneOwner ==
    /\ \A t, u \in Tasks : pc[t] \in Owning /\ pc[u] \in Owning => t = u
    /\ taskRunning <=> loop = "create" \/ \E t \in Tasks : pc[t] \in Owning
    /\ loop = "create" => \A t \in Tasks : pc[t] \notin Owning
    /\ delivering <=> \E t \in Tasks : pc[t] \in Working

\* A queued job is never left behind by a task that ends: a task owns the
\* queue, or one is about to be made, or a leaving one looks again, unless
\* there was no memory to make one (run, "a job raced in").
NotStranded ==
    queue # <<>> \/ loop = "ensure" =>
        \/ taskRunning \/ startFailed
        \/ loop = "ensure" \/ \E t \in Tasks : pc[t] \in Leaving

\* The job with the given channel of alert i still to send.
Outstanding(i, c) ==
    \/ offered.id = i /\ c \in offered.todo
    \/ \E k \in DOMAIN queue : queue[k].id = i /\ c \in queue[k].todo
    \/ \E t \in Tasks : job[t].id = i /\ c \in job[t].todo

\* The records as the list of alerts they are read as.
RecordOf(id) == CHOOSE r \in {records[k] : k \in DOMAIN records} : r.id = id

Listing == [id \in {records[k].id : k \in DOMAIN records} |-> RecordOf(id).status]

Ledger == INSTANCE AlertLedger WITH ledger <- Listing, next <- nextId

\* Whatever the loop task, the delivery tasks and the web task do at the same
\* time, the list of alerts changes only as AlertLedger allows: a channel is
\* decided once, by a result of its own alert, even when that alert was dropped
\* or cleared meanwhile (store, setStatus, clearRecent).
ImplementsLedger == Ledger!Spec

(* The loop task and the delivery task keep running; every wait of theirs   *)
(* (the TLS lock, a request, the records) has a timeout.                    *)
Fairness ==
    /\ WF_vars(Queueing)
    /\ \A t \in Tasks : WF_vars(Delivery(t))

LiveSpec == Spec /\ Fairness

\* Every alert offered to the HTTPS channels is done with, one way or the
\* other, and its record says how it ended (a full queue, dropped records and
\* cleared lists included), unless there is no memory for the delivery task or
\* the records were locked when the result came (setStatus).
ShownPending(i, c) == \E k \in DOMAIN records : records[k].id = i /\ records[k].status[c] = "pending"
DoneUnlessNoMemory ==
    \A i \in 1..MaxAlerts :
        (\E c \in HttpChannels : Outstanding(i, c) \/ ShownPending(i, c))
          ~> \/ \A c \in HttpChannels :
                   ~Outstanding(i, c) /\ (ShownPending(i, c) => <<i, c>> \in unreported)
             \/ startFailed
=============================================================================
