----------------------- MODULE AlertDispatcher_proofs -----------------------
(***************************************************************************)
(* AlertDispatcher keeps its types, its single owner of the queue and its  *)
(* promise that no queued job is left behind, and implements AlertLedger,  *)
(* whatever the number of tasks and the lengths of the queue and of the    *)
(* list of records.                                                        *)
(***************************************************************************)
EXTENDS AlertDispatcher, FiniteSetTheorems, TLAPS

-----------------------------------------------------------------------------
(* The records keep their type.                                            *)

LEMMA SetStatusTypes ==
    ASSUME NEW rs \in Seq(Records), NEW id, NEW channels,
           NEW outcome \in Statuses
    PROVE  /\ SetStatus(rs, id, channels, outcome) \in Seq(Records)
           /\ Len(SetStatus(rs, id, channels, outcome)) = Len(rs)
<1> DEFINE written(k) ==
        IF rs[k].id = id
        THEN [rs[k] EXCEPT !.status = [c \in Channels |->
                 IF c \in channels THEN outcome ELSE rs[k].status[c]]]
        ELSE rs[k]
<1>1. DOMAIN rs = 1..Len(rs) /\ Len(rs) \in Nat
    OBVIOUS
<1>2. ASSUME NEW k \in 1..Len(rs)
      PROVE  written(k) \in Records
    <2>1. rs[k] \in Records
        OBVIOUS
    <2>2. [c \in Channels |-> IF c \in channels THEN outcome ELSE rs[k].status[c]]
             \in [Channels -> Statuses]
        BY <2>1 DEF Records
    <2>. QED BY <2>1, <2>2 DEF Records
<1>3. SetStatus(rs, id, channels, outcome) = [k \in 1..Len(rs) |-> written(k)]
    BY <1>1 DEF SetStatus
<1> HIDE DEF written
<1>. QED BY <1>1, <1>2, <1>3

LEMMA KeptTypes ==
    ASSUME NEW rs \in Seq(Records), Len(rs) <= MaxRecords, NEW r \in Records
    PROVE  /\ Kept(Append(rs, r)) \in Seq(Records)
           /\ Len(Kept(Append(rs, r))) <= MaxRecords
<1>1. Append(rs, r) \in Seq(Records) /\ Len(Append(rs, r)) = Len(rs) + 1
    OBVIOUS
<1>2. CASE Len(Append(rs, r)) > MaxRecords
    <2>1. Tail(Append(rs, r)) \in Seq(Records)
             /\ Len(Tail(Append(rs, r))) = Len(Append(rs, r)) - 1
        BY <1>1, <1>2, DispatcherAssumption
    <2>. QED BY <1>1, <1>2, <2>1, DispatcherAssumption DEF Kept
<1>3. CASE ~(Len(Append(rs, r)) > MaxRecords)
    BY <1>1, <1>3, DispatcherAssumption DEF Kept
<1>. QED BY <1>2, <1>3

LEMMA RequestedTypes ==
    ASSUME NEW order \in Orders, NEW published \in BOOLEAN
    PROVE  Requested(order, published) \in [Channels -> Statuses]
BY DispatcherAssumption DEF Requested, Statuses

LEMMA ReportTypes ==
    ASSUME TypeOK, NEW id \in Nat, NEW channels \in SUBSET HttpChannels,
           NEW outcome \in Statuses, NEW missed \in SUBSET channels,
           Report(id, channels, outcome, missed)
    PROVE  /\ records' \in Seq(Records) /\ Len(records') <= MaxRecords
           /\ unreported' \subseteq Nat \X HttpChannels
BY SetStatusTypes DEF Report, TypeOK

LEMMA FinishTypes ==
    ASSUME TypeOK, NEW t \in Tasks, NEW c \in HttpChannels,
           NEW outcome \in Statuses, Finish(t, c, outcome)
    PROVE  /\ records' \in Seq(Records) /\ Len(records') <= MaxRecords
           /\ unreported' \subseteq Nat \X HttpChannels
           /\ job' \in [Tasks -> Jobs]
<1>1. job[t] \in Jobs /\ job[t].id \in Nat
    BY DEF TypeOK, Jobs
<1>2. PICK missed \in SUBSET {c} : Report(job[t].id, {c}, outcome, missed)
    BY DEF Finish
<1>3. {c} \in SUBSET HttpChannels
    OBVIOUS
<1>4. job' \in [Tasks -> Jobs]
    BY <1>1 DEF Finish, TypeOK, Jobs
<1>. QED BY <1>1, <1>2, <1>3, <1>4, ReportTypes

-----------------------------------------------------------------------------
LEMMA TypeStep == TypeOK /\ [Next]_vars => TypeOK'
<1> SUFFICES ASSUME TypeOK, [Next]_vars
             PROVE  TypeOK'
    OBVIOUS
<1> USE DEF TypeOK, tasks, log, Owning, Leaving
<1>1. CASE Dispatch
    <2> PICK order \in Orders, published \in BOOLEAN :
            LET todo == {c \in HttpChannels : order[c] = "on"}
            IN  /\ records' = Kept(Append(records,
                                  [id |-> nextId, status |-> Requested(order, published)]))
                /\ offered' = (IF todo = {} THEN NoJob ELSE [id |-> nextId, todo |-> todo])
                /\ loop' = (IF todo = {} THEN "idle" ELSE "send")
        BY <1>1 DEF Dispatch
    <2>1. [id |-> nextId, status |-> Requested(order, published)] \in Records
        BY RequestedTypes DEF Records
    <2>2. records' \in Seq(Records) /\ Len(records') <= MaxRecords
        BY <2>1, KeptTypes
    <2>3. offered' \in Jobs /\ loop' \in {"idle", "send"}
        BY DEF Jobs, NoJob
    <2>. QED BY <1>1, <2>2, <2>3 DEF Dispatch
<1>2. CASE SendJob
    <2>1. queue' \in Seq(Jobs) /\ Len(queue') = Len(queue) + 1
        BY <1>2 DEF SendJob
    <2>. QED BY <1>2, <2>1, DispatcherAssumption DEF SendJob, Jobs, NoJob
<1>3. CASE QueueFull
    <2> PICK missed \in SUBSET offered.todo :
            Report(offered.id, offered.todo, "failed", missed)
        BY <1>3 DEF QueueFull
    <2>1. /\ records' \in Seq(Records) /\ Len(records') <= MaxRecords
          /\ unreported' \subseteq Nat \X HttpChannels
        BY ReportTypes DEF Jobs, Statuses
    <2>. QED BY <1>3, <2>1 DEF QueueFull, Jobs, NoJob
<1>4. CASE Ensure
    BY <1>4 DEF Ensure
<1>5. CASE Create
    BY <1>5 DEF Create
<1>6. CASE CreateFails
    BY <1>6 DEF CreateFails
<1>7. CASE ProbeDelivering
    BY <1>7 DEF ProbeDelivering
<1>8. CASE ProbeQueue
    BY <1>8 DEF ProbeQueue
<1>9. CASE ClearRecent
    BY <1>9, DispatcherAssumption DEF ClearRecent
<1>10. ASSUME NEW t \in Tasks, Delivery(t)
       PROVE  TypeOK'
    <2>1. CASE Receive(t)
        <3>1. Head(queue) \in Jobs /\ Tail(queue) \in Seq(Jobs)
                /\ Len(Tail(queue)) <= QueueLength
            BY <2>1, DispatcherAssumption DEF Receive
        <3>. QED BY <2>1, <3>1 DEF Receive, Goto
    <2>2. CASE StartDelivery(t)
        BY <2>2 DEF StartDelivery, Goto
    <2>3. CASE Attempt(t)
        <3>1. PICK c \in HttpChannels, outcome \in {"skipped", "sent", "failed"} : Finish(t, c, outcome)
            BY <2>3 DEF Attempt
        <3>2. outcome \in Statuses
            BY DEF Statuses
        <3>. QED BY <2>3, <3>1, <3>2, FinishTypes DEF Attempt, Goto
    <2>4. CASE ConnectionFails(t)
        BY <2>4 DEF ConnectionFails, Goto
    <2>5. CASE Retry(t)
        <3>1. PICK c \in HttpChannels, outcome \in {"sent", "failed"} : Finish(t, c, outcome)
            BY <2>5 DEF Retry
        <3>2. outcome \in Statuses
            BY DEF Statuses
        <3>. QED BY <2>5, <3>1, <3>2, FinishTypes DEF Retry, Goto
    <2>6. CASE EndDelivery(t)
        BY <2>6 DEF EndDelivery, Goto, Jobs, NoJob
    <2>7. CASE IdleTimeout(t)
        BY <2>7 DEF IdleTimeout, Goto
    <2>8. CASE Release(t)
        BY <2>8 DEF Release, Goto
    <2>9. CASE Recheck(t)
        BY <2>9 DEF Recheck, Goto
    <2>10. CASE Claim(t)
        BY <2>10 DEF Claim, Goto
    <2>. QED BY <1>10, <2>1, <2>2, <2>3, <2>4, <2>5, <2>6, <2>7, <2>8, <2>9, <2>10 DEF Delivery
<1>11. CASE UNCHANGED vars
    BY <1>11 DEF vars
<1>. QED BY <1>1, <1>2, <1>3, <1>4, <1>5, <1>6, <1>7, <1>8, <1>9, <1>10, <1>11
         DEF Next, Queueing

-----------------------------------------------------------------------------
(* One owner of the queue.                                                 *)

LEMMA OneOwnerStep == TypeOK /\ OneOwner /\ [Next]_vars => OneOwner'
<1> SUFFICES ASSUME TypeOK, OneOwner, [Next]_vars
             PROVE  OneOwner'
    OBVIOUS
<1> USE DEF TypeOK, OneOwner, tasks, log, Owning, Working, Leaving
<1>1. CASE Dispatch
    BY <1>1 DEF Dispatch
<1>2. CASE SendJob
    BY <1>2 DEF SendJob
<1>3. CASE QueueFull
    BY <1>3 DEF QueueFull
<1>4. CASE Ensure
    BY <1>4 DEF Ensure
<1>5. CASE Create
    BY <1>5 DEF Create
<1>6. CASE CreateFails
    BY <1>6 DEF CreateFails
<1>7. CASE ProbeDelivering
    BY <1>7 DEF ProbeDelivering
<1>8. CASE ProbeQueue
    BY <1>8 DEF ProbeQueue
<1>9. CASE ClearRecent
    BY <1>9 DEF ClearRecent
<1>10. ASSUME NEW t \in Tasks, Delivery(t)
       PROVE  OneOwner'
    <2>1. CASE Receive(t)
        BY <2>1 DEF Receive, Goto
    <2>2. CASE StartDelivery(t)
        BY <2>2 DEF StartDelivery, Goto
    <2>3. CASE Attempt(t)
        BY <2>3 DEF Attempt, Goto
    <2>4. CASE ConnectionFails(t)
        BY <2>4 DEF ConnectionFails, Goto
    <2>5. CASE Retry(t)
        BY <2>5 DEF Retry, Goto
    <2>6. CASE EndDelivery(t)
        BY <2>6 DEF EndDelivery, Goto
    <2>7. CASE IdleTimeout(t)
        BY <2>7 DEF IdleTimeout, Goto
    <2>8. CASE Release(t)
        BY <2>8 DEF Release, Goto
    <2>9. CASE Recheck(t)
        BY <2>9 DEF Recheck, Goto
    <2>10. CASE Claim(t)
        BY <2>10 DEF Claim, Goto
    <2>. QED BY <1>10, <2>1, <2>2, <2>3, <2>4, <2>5, <2>6, <2>7, <2>8, <2>9, <2>10 DEF Delivery
<1>11. CASE UNCHANGED vars
    BY <1>11 DEF vars
<1>. QED BY <1>1, <1>2, <1>3, <1>4, <1>5, <1>6, <1>7, <1>8, <1>9, <1>10, <1>11
         DEF Next, Queueing

-----------------------------------------------------------------------------
(* No queued job is left behind.                                           *)

LEMMA NotStrandedStep == TypeOK /\ OneOwner /\ NotStranded /\ [Next]_vars => NotStranded'
<1> SUFFICES ASSUME TypeOK, OneOwner, NotStranded, [Next]_vars
             PROVE  NotStranded'
    OBVIOUS
<1> USE DEF TypeOK, NotStranded, tasks, log, Owning, Leaving
<1>1. CASE Dispatch
    BY <1>1 DEF Dispatch
<1>2. CASE SendJob
    BY <1>2 DEF SendJob
<1>3. CASE QueueFull
    BY <1>3 DEF QueueFull
<1>4. CASE Ensure
    BY <1>4 DEF Ensure
<1>5. CASE Create
    BY <1>5 DEF Create, OneOwner
<1>6. CASE CreateFails
    BY <1>6 DEF CreateFails
<1>7. CASE ProbeDelivering
    BY <1>7 DEF ProbeDelivering
<1>8. CASE ProbeQueue
    BY <1>8 DEF ProbeQueue
<1>9. CASE ClearRecent
    BY <1>9 DEF ClearRecent
<1>10. ASSUME NEW t \in Tasks, Delivery(t)
       PROVE  NotStranded'
    <2>1. CASE Receive(t)
        BY <2>1 DEF Receive, Goto, OneOwner
    <2>2. CASE StartDelivery(t)
        BY <2>2 DEF StartDelivery, Goto
    <2>3. CASE Attempt(t)
        BY <2>3 DEF Attempt, Goto
    <2>4. CASE ConnectionFails(t)
        BY <2>4 DEF ConnectionFails, Goto
    <2>5. CASE Retry(t)
        BY <2>5 DEF Retry, Goto
    <2>6. CASE EndDelivery(t)
        BY <2>6 DEF EndDelivery, Goto
    <2>7. CASE IdleTimeout(t)
        BY <2>7 DEF IdleTimeout, Goto
    <2>8. CASE Release(t)
        BY <2>8 DEF Release, Goto
    <2>9. CASE Recheck(t)
        BY <2>9 DEF Recheck, Goto
    <2>10. CASE Claim(t)
        BY <2>10 DEF Claim, Goto
    <2>. QED BY <1>10, <2>1, <2>2, <2>3, <2>4, <2>5, <2>6, <2>7, <2>8, <2>9, <2>10 DEF Delivery
<1>11. CASE UNCHANGED vars
    BY <1>11 DEF vars
<1>. QED BY <1>1, <1>2, <1>3, <1>4, <1>5, <1>6, <1>7, <1>8, <1>9, <1>10, <1>11
         DEF Next, Queueing

-----------------------------------------------------------------------------
LEMMA InitInv == Init => TypeOK /\ OneOwner /\ NotStranded
<1> SUFFICES ASSUME Init
             PROVE  TypeOK /\ OneOwner /\ NotStranded
    OBVIOUS
<1>1. TypeOK
    <2>1. queue \in Seq(Jobs) /\ Len(queue) <= QueueLength
        BY DispatcherAssumption DEF Init
    <2>2. records \in Seq(Records) /\ Len(records) <= MaxRecords
        BY DispatcherAssumption DEF Init
    <2>3. NoJob \in Jobs
        BY DEF NoJob, Jobs
    <2>4. offered \in Jobs /\ job \in [Tasks -> Jobs]
        BY <2>3 DEF Init
    <2>5. pc \in [Tasks -> {"none"} \union Owning \union Leaving]
        BY DEF Init
    <2>6. unreported \subseteq Nat \X HttpChannels
        BY DEF Init
    <2>7. taskRunning \in BOOLEAN /\ delivering \in BOOLEAN /\ startFailed \in BOOLEAN
        BY Zenon DEF Init
    <2>8. loop \in {"idle", "send", "ensure", "create", "probe"} /\ nextId \in Nat \ {0}
        <3>1. loop = "idle" /\ nextId = 1
            BY Zenon DEF Init
        <3>. QED BY <3>1
    <2>. QED BY <2>1, <2>2, <2>4, <2>5, <2>6, <2>7, <2>8 DEF TypeOK
<1>2. OneOwner /\ NotStranded
    BY DEF Init, OneOwner, NotStranded, Owning, Working
<1>. QED BY <1>1, <1>2

\* The dispatcher's variables keep their types, and the queue and the list of
\* records their bounds.
THEOREM DispatcherTypeCorrect == Spec => []TypeOK
<1>1. Init => TypeOK
    BY InitInv
<1>. QED BY <1>1, TypeStep, PTL DEF Spec

\* However alerts, idle exits, failed starts and late jobs fall together, at
\* most one delivery task owns the queue, and the two flags tell the truth
\* about it (ensureTask, run).
THEOREM SingleOwner == Spec => []OneOwner
<1>1. Init => TypeOK /\ OneOwner
    BY InitInv
<1>. QED BY <1>1, TypeStep, OneOwnerStep, PTL DEF Spec

\* A queued job always has a task that owns the queue, or one about to, unless
\* the last delivery task could not be created (run, ensureTask).
THEOREM NoJobLeftBehind == Spec => []NotStranded
<1>1. Init => TypeOK /\ OneOwner /\ NotStranded
    BY InitInv
<1>. QED BY <1>1, TypeStep, OneOwnerStep, NotStrandedStep, PTL DEF Spec

-----------------------------------------------------------------------------
(* The list of records as the abstract ledger.                              *)

Ids(rs) == {rs[k].id : k \in DOMAIN rs}

\* The records are in the order of their ids, which are all used up.
Ordered(rs, next) ==
    /\ \A k, m \in DOMAIN rs : k < m => rs[k].id < rs[m].id
    /\ \A k \in DOMAIN rs : rs[k].id < next

\* The ids of records are numbers.
LEMMA IdsAreNat == \A r \in Records : r.id \in Nat
BY DEF Records

\* In a list in order, the alerts newer than the one at k are those after it.
LEMMA NewerAlerts ==
    ASSUME NEW rs \in Seq(Records), NEW next \in Nat, Ordered(rs, next), NEW k \in DOMAIN rs
    PROVE  /\ IsFiniteSet({newer \in Ids(rs) : newer > rs[k].id})
           /\ Cardinality({newer \in Ids(rs) : newer > rs[k].id}) = Len(rs) - k
<1> DEFINE after == (k + 1) .. Len(rs)
           newer == {id \in Ids(rs) : id > rs[k].id}
           at == [m \in after |-> rs[m].id]
<1>1. /\ Len(rs) \in Nat /\ DOMAIN rs = 1 .. Len(rs) /\ k \in 1 .. Len(rs)
      /\ \A m \in 1 .. Len(rs) : rs[m].id \in Nat
  BY IdsAreNat
<1>2. IsFiniteSet(after) /\ Cardinality(after) = Len(rs) - k
  <2>1. k + 1 \in Int /\ Len(rs) \in Int /\ k <= Len(rs) BY <1>1
  <2>2. /\ IsFiniteSet(after)
        /\ Cardinality(after) = IF k + 1 > Len(rs) THEN 0 ELSE Len(rs) - (k + 1) + 1
    BY <2>1, FS_Interval
  <2> QED BY <1>1, <2>1, <2>2
<1>3. \A m \in after : m \in DOMAIN rs /\ rs[m].id > rs[k].id
  BY <1>1 DEF Ordered
<1>4. at \in [after -> newer]
  BY <1>1, <1>3 DEF Ids
<1>5. \A m, n \in after : at[m] = at[n] => m = n
  <2> SUFFICES ASSUME NEW m \in after, NEW n \in after, m # n PROVE at[m] # at[n] OBVIOUS
  <2>1. m < n \/ n < m BY <1>1
  <2> QED BY <1>1, <1>3, <2>1 DEF Ordered
<1>6. \A id \in newer : \E m \in after : at[m] = id
  <2> TAKE id \in newer
  <2>1. PICK m \in DOMAIN rs : id = rs[m].id BY DEF Ids
  <2>2. ~(m < k) /\ m # k BY <1>1, <2>1 DEF Ordered
  <2> QED BY <1>1, <2>1, <2>2
<1>7. at \in Bijection(after, newer)
  <2>1. IsInjective(at) BY <1>5 DEF IsInjective
  <2> QED BY <1>4, <1>6, <2>1 DEF Bijection, Injection, Surjection
<1>8. ExistsBijection(after, newer)
  BY <1>7 DEF ExistsBijection
<1> HIDE DEF after, newer
<1>9. IsFiniteSet(newer) /\ Cardinality(newer) = Cardinality(after)
  BY <1>2, <1>8, FS_Bijection
<1> QED BY <1>2, <1>9 DEF newer

\* What the ledger shows of an alert listed is the status in its record.
Shown(rs) == [id \in Ids(rs) |-> (CHOOSE r \in {rs[k] : k \in DOMAIN rs} : r.id = id).status]

\* In a list in order, an id has one record.
LEMMA ShownIsTheRecord ==
    ASSUME NEW rs \in Seq(Records), NEW next \in Nat, Ordered(rs, next), NEW k \in DOMAIN rs
    PROVE  rs[k].id \in Ids(rs) /\ Shown(rs)[rs[k].id] = rs[k].status
<1> DEFINE all == {rs[m] : m \in DOMAIN rs}
<1>1. \A m \in DOMAIN rs : rs[m].id = rs[k].id => m = k
  <2> SUFFICES ASSUME NEW m \in DOMAIN rs, m # k PROVE rs[m].id # rs[k].id OBVIOUS
  <2>1. m < k \/ k < m OBVIOUS
  <2>2. rs[m].id \in Nat /\ rs[k].id \in Nat BY IdsAreNat
  <2> QED BY <2>1, <2>2 DEF Ordered
<1>2. \A r \in all : r.id = rs[k].id => r = rs[k]
  BY <1>1
<1>3. rs[k] \in all OBVIOUS
<1>4. (CHOOSE r \in all : r.id = rs[k].id) = rs[k]
  BY <1>2, <1>3
<1>5. rs[k].id \in Ids(rs) BY DEF Ids
<1> QED BY <1>4, <1>5 DEF Shown

\* A new alert, listed: the newest MaxRecords are kept, as they were.
LEMMA PostShown ==
    ASSUME NEW rs \in Seq(Records), NEW next \in Nat, Ordered(rs, next), Len(rs) <= MaxRecords,
           NEW r \in Records, r.id = next
    PROVE  LET kept == Kept(Append(rs, r))
               all == Ids(rs) \union {next}
           IN  /\ Ordered(kept, next + 1)
               /\ Ids(kept) = {id \in all : Cardinality({newer \in all : newer > id}) < MaxRecords}
               /\ next \in Ids(kept) /\ Shown(kept)[next] = r.status
               /\ \A id \in Ids(kept) \ {next} : Shown(kept)[id] = Shown(rs)[id]
<1> DEFINE long == Append(rs, r)
           n == Len(rs) + 1
           kept == Kept(long)
           drop == IF n > MaxRecords THEN 1 ELSE 0
           all == Ids(rs) \union {next}
<1>1. /\ long \in Seq(Records) /\ Len(long) = n /\ Len(rs) \in Nat /\ DOMAIN rs = 1 .. Len(rs)
      /\ DOMAIN long = 1 .. n /\ long[n] = r
      /\ \A k \in DOMAIN rs : long[k] = rs[k] /\ k \in 1 .. n /\ k # n
      /\ \A k \in 1 .. n : long[k].id \in Nat
  <2>1. /\ long \in Seq(Records) /\ Len(long) = n /\ Len(rs) \in Nat /\ DOMAIN rs = 1 .. Len(rs)
        /\ DOMAIN long = 1 .. n /\ long[n] = r
        /\ \A k \in DOMAIN rs : long[k] = rs[k]
    OBVIOUS
  <2>2. \A k \in DOMAIN rs : k \in 1 .. n /\ k # n BY <2>1
  <2> HIDE DEF long, n
  <2>3. \A k \in 1 .. n : long[k].id \in Nat BY <2>1, IdsAreNat
  <2> QED BY <2>1, <2>2, <2>3
<1>2. Ordered(long, next + 1)
  <2>1. \A k \in 1 .. n : k # n => k \in DOMAIN rs /\ long[k] = rs[k] BY <1>1
  <2>2. ASSUME NEW k \in 1 .. n, NEW m \in 1 .. n, k < m PROVE long[k].id < long[m].id
    <3>1. k # n /\ long[k] = rs[k] /\ k \in DOMAIN rs BY <1>1, <2>1, <2>2
    <3>2. CASE m = n BY <1>1, <3>1, <3>2 DEF Ordered
    <3>3. CASE m # n BY <2>1, <2>2, <3>1, <3>3 DEF Ordered
    <3> QED BY <3>2, <3>3
  <2>3. ASSUME NEW k \in 1 .. n PROVE long[k].id < next + 1
    <3>1. CASE k = n BY <1>1, <3>1
    <3>2. CASE k # n
      <4>1. rs[k].id < next BY <2>1, <2>3, <3>2 DEF Ordered
      <4> QED BY <1>1, <2>1, <2>3, <3>2, <4>1
    <3> QED BY <3>1, <3>2
  <2> HIDE DEF n, long
  <2> QED BY <1>1, <2>2, <2>3 DEF Ordered
<1>3. Ids(long) = all
  BY <1>1 DEF Ids
<1>4. \A k \in 1 .. n : Cardinality({newer \in all : newer > long[k].id}) = n - k
  <2> HIDE DEF long, all
  <2>1. next + 1 \in Nat OBVIOUS
  <2> QED BY <1>1, <1>2, <1>3, <2>1, NewerAlerts
<1>5. MaxRecords \in Nat \ {0} /\ n <= MaxRecords + 1
  BY <1>1, DispatcherAssumption
<1>6. /\ kept \in Seq(Records) /\ Len(kept) = n - drop
      /\ \A k \in 1 .. (n - drop) : kept[k] = long[k + drop]
  <2>1. CASE n > MaxRecords
    <3>1. kept = Tail(long) BY <1>1, <2>1 DEF Kept
    <3>2. long # <<>> BY <1>1
    <3> HIDE DEF long, kept
    <3> QED BY <1>1, <2>1, <3>1, <3>2
  <2>2. CASE ~(n > MaxRecords)
    <3>1. kept = long BY <1>1, <2>2 DEF Kept
    <3> HIDE DEF long, kept
    <3> QED BY <1>1, <2>2, <3>1
  <2> QED BY <2>1, <2>2
<1> HIDE DEF long, kept
<1>7. DOMAIN kept = 1 .. (n - drop) /\ \A k \in 1 .. (n - drop) : k + drop \in 1 .. n
  BY <1>1, <1>6
<1>8. Ordered(kept, next + 1)
  <2>1. \A k, m \in 1 .. (n - drop) : k < m => k + drop < m + drop BY <1>1
  <2> HIDE DEF n, drop
  <2> QED BY <1>1, <1>2, <1>6, <1>7, <2>1 DEF Ordered
<1>9. Ids(kept) = {long[k] .id : k \in (1 + drop) .. n}
  <2>1. \A k \in (1 + drop) .. n : k - drop \in 1 .. (n - drop) /\ kept[k - drop] = long[k]
    <3>1. \A k \in (1 + drop) .. n : k - drop \in 1 .. (n - drop) /\ (k - drop) + drop = k BY <1>1
    <3> HIDE DEF n, drop
    <3> QED BY <1>6, <3>1
  <2>2. \A k \in 1 .. (n - drop) : k + drop \in (1 + drop) .. n
    BY <1>1
  <2> HIDE DEF n, drop
  <2>3. Ids(kept) = {kept[k].id : k \in 1 .. (n - drop)} BY <1>7, Zenon DEF Ids
  <2>4. \A k \in 1 .. (n - drop) : kept[k] = long[k + drop] BY <1>6
  <2>5. ASSUME NEW k \in 1 .. (n - drop)
        PROVE  kept[k].id \in {long[m].id : m \in (1 + drop) .. n}
    BY <2>2, <2>4, Zenon
  <2>6. ASSUME NEW k \in (1 + drop) .. n
        PROVE  long[k].id \in {kept[m].id : m \in 1 .. (n - drop)}
    BY <2>1, Zenon
  <2> QED BY <2>3, <2>5, <2>6, Zenon
<1>10. \A k \in 1 .. n : k \in (1 + drop) .. n <=> n - k < MaxRecords
  BY <1>1, <1>5
<1>11. Ids(kept) = {id \in all : Cardinality({newer \in all : newer > id}) < MaxRecords}
  <2> DEFINE few(id) == Cardinality({newer \in all : newer > id}) < MaxRecords
  <2>1. \A k \in 1 .. n : few(long[k].id) <=> k \in (1 + drop) .. n
    BY <1>4, <1>10
  <2>2. all = {long[k].id : k \in 1 .. n} BY <1>1, <1>3 DEF Ids
  <2>3. \A k \in (1 + drop) .. n : k \in 1 .. n BY <1>1
  <2> HIDE DEF few, n, drop, all
  <2>4. Ids(kept) = {id \in all : few(id)} BY <1>9, <2>1, <2>2, <2>3
  <2> QED BY <2>4 DEF few
<1>12. \A k \in (1 + drop) .. n : long[k].id \in Ids(kept) /\ Shown(kept)[long[k].id] = long[k].status
  <2> TAKE k \in (1 + drop) .. n
  <2>1. k - drop \in DOMAIN kept /\ kept[k - drop] = long[k] BY <1>1, <1>6, <1>7
  <2>2. next + 1 \in Nat OBVIOUS
  <2> QED BY <1>6, <1>8, <2>1, <2>2, ShownIsTheRecord
<1>13. next \in Ids(kept) /\ Shown(kept)[next] = r.status
  <2>1. n \in (1 + drop) .. n BY <1>1, <1>5
  <2> QED BY <1>1, <1>12, <2>1
<1>14. ASSUME NEW id \in Ids(kept) \ {next} PROVE Shown(kept)[id] = Shown(rs)[id]
  <2>1. PICK k \in (1 + drop) .. n : id = long[k].id BY <1>9, <1>14
  <2>2. k # n BY <1>1, <1>14, <2>1
  <2>3. k \in DOMAIN rs /\ long[k] = rs[k] BY <1>1, <2>2
  <2>4. Shown(kept)[id] = rs[k].status BY <1>12, <2>1, <2>3
  <2> QED BY <2>1, <2>3, <2>4, ShownIsTheRecord
<1> QED BY <1>8, <1>11, <1>13, <1>14 DEF kept, long

-----------------------------------------------------------------------------
(* The ledger's steps, as changes of what is shown.                         *)

\* The ledger counts as FiniteSets does.
LEMMA SameCardinality == \A S : Ledger!Cardinality(S) = Cardinality(S)
BY Zenon DEF Ledger!Cardinality, Cardinality

\* The listing the ledger is implemented by is what the records show.
LEMMA ListingIsShown ==
    /\ Listing = Shown(records)
    /\ Listing' = Shown(records')
    /\ DOMAIN Listing = Ids(records)
    /\ DOMAIN Listing' = Ids(records')
BY DEF Listing, RecordOf, Shown, Ids

\* The alerts the ledger keeps when a new one comes.
LEMMA NewestListed ==
    Ledger!Newest = {id \in Ids(records) \union {nextId} :
                       Cardinality({newer \in Ids(records) \union {nextId} : newer > id}) < MaxRecords}
<1>1. Ledger!Listed = Ids(records) BY ListingIsShown DEF Ledger!Listed
<1>2. Ledger!Newest = {id \in Ids(records) \union {nextId} :
                         Ledger!Cardinality({newer \in Ids(records) \union {nextId} : newer > id}) < MaxRecords}
  BY <1>1, Zenon DEF Ledger!Newest
<1> QED BY <1>2, SameCardinality

\* Pending channels of one listed alert got their outcome: Settle.
LEMMA Settles ==
    ASSUME NEW id \in Ids(records), NEW outcome \in {"sent", "failed", "skipped"},
           NEW settled \in SUBSET {c \in Channels : Listing[id][c] = "pending"},
           Listing' = [Listing EXCEPT ![id] = [c \in Channels |->
                         IF c \in settled THEN outcome ELSE Listing[id][c]]],
           UNCHANGED nextId
    PROVE  Ledger!Next
<1>1. id \in Ledger!Listed BY ListingIsShown DEF Ledger!Listed
<1>2. outcome \in Ledger!Final \ {"notSent"} BY DEF Ledger!Final
<1>3. Ledger!Settle
  BY <1>1, <1>2, Zenon DEF Ledger!Settle
<1> QED BY <1>3 DEF Ledger!Next

\* The list is empty: Clear.
LEMMA Clears ==
    ASSUME Listing' = [id \in {} |-> {}], UNCHANGED nextId
    PROVE  Ledger!Next
BY DEF Ledger!Next, Ledger!Clear

\* The next alert came and the newest stayed as they were: Post.
LEMMA Posts ==
    ASSUME nextId' = nextId + 1, DOMAIN Listing' = Ledger!Newest,
           Listing'[nextId] \in [Channels -> Statuses],
           \A id \in Ledger!Newest \ {nextId} : Listing'[id] = Listing[id]
    PROVE  Ledger!Next
<1>1. Ledger!Final \union {"pending"} = Statuses BY DEF Ledger!Final, Statuses
<1> QED BY <1>1 DEF Ledger!Next, Ledger!Post

\* At first nothing is listed.
LEMMA InitLists == Init => Ledger!Init
BY DEF Ledger!Init, Init, Listing, RecordOf

-----------------------------------------------------------------------------
(* What the dispatcher keeps in order, so that each channel is decided once. *)

\* Two jobs that both have something to do are of two alerts.
Apart(a, b) == a.todo = {} \/ b.todo = {} \/ a.id # b.id

JobsApart ==
    /\ \A t \in Tasks : Apart(offered, job[t])
    /\ \A k \in DOMAIN queue : Apart(offered, queue[k])
    /\ \A t, u \in Tasks : t # u => Apart(job[t], job[u])
    /\ \A t \in Tasks, k \in DOMAIN queue : Apart(job[t], queue[k])
    /\ \A k, m \in DOMAIN queue : k # m => Apart(queue[k], queue[m])

\* What a job is still to do, the record of its alert shows as pending, if it
\* is still listed; and its alert has an id that is used up.
Awaited(j, rs, next) ==
    /\ j.id < next
    /\ \A k \in DOMAIN rs : rs[k].id = j.id => \A c \in j.todo : rs[k].status[c] = "pending"

JobsAwaited ==
    /\ Awaited(offered, records, nextId)
    /\ \A t \in Tasks : Awaited(job[t], records, nextId)
    /\ \A k \in DOMAIN queue : Awaited(queue[k], records, nextId)

LedgerInv == Ordered(records, nextId) /\ JobsApart /\ JobsAwaited

-----------------------------------------------------------------------------
\* A result is written into the records of one alert, and changes nothing else.
LEMMA SetStatusAt ==
    ASSUME NEW rs \in Seq(Records), NEW id, NEW channels \in SUBSET HttpChannels, NEW outcome \in Statuses
    PROVE  LET new == SetStatus(rs, id, channels, outcome)
           IN  /\ DOMAIN new = DOMAIN rs
               /\ \A k \in DOMAIN rs :
                    /\ new[k].id = rs[k].id
                    /\ rs[k].id # id => new[k] = rs[k]
                    /\ rs[k].id = id => new[k].status = [c \in Channels |->
                                          IF c \in channels THEN outcome ELSE rs[k].status[c]]
<1> DEFINE new == SetStatus(rs, id, channels, outcome)
<1>1. DOMAIN new = DOMAIN rs BY DEF SetStatus
<1>2. ASSUME NEW k \in DOMAIN rs
      PROVE  /\ new[k].id = rs[k].id
             /\ rs[k].id # id => new[k] = rs[k]
             /\ rs[k].id = id => new[k].status = [c \in Channels |->
                                   IF c \in channels THEN outcome ELSE rs[k].status[c]]
  <2>1. rs[k] \in Records OBVIOUS
  <2>2. new[k] = IF rs[k].id = id
                 THEN [rs[k] EXCEPT !.status = [c \in Channels |->
                          IF c \in channels THEN outcome ELSE rs[k].status[c]]]
                 ELSE rs[k]
    BY <1>2 DEF SetStatus
  <2> QED BY <2>1, <2>2 DEF Records
<1> QED BY <1>1, <1>2

\* The result of a job j, on some of what it awaits: the ledger settles them,
\* the other jobs await what they did, and j what it has left.
LEMMA ReportSettles ==
    ASSUME TypeOK, LedgerInv, NEW j \in Jobs, Awaited(j, records, nextId),
           NEW channels \in SUBSET j.todo, NEW outcome \in {"sent", "failed", "skipped"},
           NEW missed \in SUBSET channels, Report(j.id, channels, outcome, missed), UNCHANGED nextId
    PROVE  /\ [Ledger!Next]_<<Listing, nextId>>
           /\ Ordered(records', nextId')
           /\ \A i \in Jobs : Awaited(i, records, nextId) /\ (Apart(i, j) \/ i.todo \cap channels = {})
                                => Awaited(i, records', nextId')
<1> DEFINE rs == records
           new == records'
           settled == channels \ missed
<1>1. /\ records \in Seq(Records) /\ nextId \in Nat /\ Ordered(records, nextId)
      /\ settled \in SUBSET HttpChannels /\ outcome \in Statuses
      /\ HttpChannels \subseteq Channels
  BY DEF TypeOK, LedgerInv, Jobs, Statuses, Channels
<1>2. records' = SetStatus(records, j.id, settled, outcome) BY DEF Report
<1>3. /\ DOMAIN new = DOMAIN rs
      /\ \A k \in DOMAIN rs :
           /\ new[k].id = rs[k].id
           /\ rs[k].id # j.id => new[k] = rs[k]
           /\ rs[k].id = j.id => new[k].status = [c \in Channels |->
                                 IF c \in settled THEN outcome ELSE rs[k].status[c]]
  <2> HIDE DEF settled
  <2>1. /\ DOMAIN SetStatus(rs, j.id, settled, outcome) = DOMAIN rs
        /\ \A k \in DOMAIN rs :
           /\ SetStatus(rs, j.id, settled, outcome)[k].id = rs[k].id
           /\ rs[k].id # j.id => SetStatus(rs, j.id, settled, outcome)[k] = rs[k]
           /\ rs[k].id = j.id => SetStatus(rs, j.id, settled, outcome)[k].status = [c \in Channels |->
                                 IF c \in settled THEN outcome ELSE rs[k].status[c]]
    BY <1>1, SetStatusAt
  <2> QED BY <1>2, <2>1, Zenon
<1>4. Ordered(records', nextId')
  BY <1>1, <1>3 DEF Ordered
<1>5. ASSUME NEW i \in Jobs, Awaited(i, records, nextId), Apart(i, j) \/ i.todo \cap channels = {}
      PROVE  Awaited(i, records', nextId')
  <2>1. i.todo \subseteq HttpChannels BY DEF Jobs
  <2>2. ASSUME NEW k \in DOMAIN new, new[k].id = i.id, NEW c \in i.todo
        PROVE  new[k].status[c] = "pending"
    <3>1. rs[k].status[c] = "pending" /\ rs[k].id = i.id /\ c \in Channels
      BY <1>1, <1>3, <1>5, <2>1, <2>2 DEF Awaited
    <3>2. CASE i.id # j.id BY <1>3, <2>2, <3>1, <3>2
    <3>3. CASE i.id = j.id
      <4>1. c \notin settled BY <1>5, <2>2, <3>3 DEF Apart
      <4> HIDE DEF settled
      <4>2. k \in DOMAIN rs /\ rs[k].id = j.id BY <1>3, <2>2, <3>1, <3>3, Zenon
      <4>3. new[k].status = [c2 \in Channels |-> IF c2 \in settled THEN outcome ELSE rs[k].status[c2]]
        BY <1>3, <4>2, Zenon
      <4>4. new[k].status[c] = rs[k].status[c] BY <3>1, <4>1, <4>3
      <4> QED BY <3>1, <4>4
    <3> QED BY <3>2, <3>3
  <2> QED BY <1>5, <2>2 DEF Awaited
<1>6. records' \in Seq(Records)
  BY <1>1, <1>2, SetStatusTypes
<1>7. Ids(records') = Ids(records)
  <2>1. \A k \in DOMAIN rs : k \in DOMAIN new /\ new[k].id = rs[k].id BY <1>3
  <2>2. DOMAIN new = DOMAIN rs BY <1>3
  <2> QED BY <2>1, <2>2, Zenon DEF Ids
<1>8. CASE j.id \notin Ids(records)
  <2>1. records' = records
    <3>1. \A k \in DOMAIN rs : rs[k].id # j.id BY <1>8 DEF Ids
    <3>2. records' = [k \in DOMAIN records |-> records[k]] BY <1>2, <3>1 DEF SetStatus
    <3>3. records = [k \in DOMAIN records |-> records[k]] BY <1>1
    <3> QED BY <3>2, <3>3
  <2>2. Listing' = Listing BY <2>1, ListingIsShown
  <2> QED BY <1>4, <1>5, <2>2
<1>9. CASE j.id \in Ids(records)
  <2>1. PICK at \in DOMAIN records : records[at].id = j.id BY <1>9 DEF Ids
  <2>2. Listing[j.id] = records[at].status
    BY <1>1, <2>1, ShownIsTheRecord, ListingIsShown
  <2>3. settled \in SUBSET {c \in Channels : Listing[j.id][c] = "pending"}
    <3>1. \A c \in settled : c \in j.todo /\ c \in Channels BY <1>1
    <3> QED BY <2>1, <2>2, <3>1 DEF Awaited
  <2>4. ASSUME NEW id \in Ids(records)
        PROVE  Listing'[id] = IF id = j.id THEN [c \in Channels |->
                                  IF c \in settled THEN outcome ELSE Listing[j.id][c]]
                              ELSE Listing[id]
    <3>1. PICK k \in DOMAIN records : id = records[k].id BY DEF Ids
    <3>2. k \in DOMAIN records' /\ records'[k].id = id BY <1>3, <3>1
    <3>3. Listing'[id] = records'[k].status
      BY <1>1, <1>4, <1>6, <3>2, ShownIsTheRecord, ListingIsShown
    <3>4. Listing[id] = records[k].status
      BY <1>1, <3>1, ShownIsTheRecord, ListingIsShown
    <3>5. CASE id # j.id BY <1>3, <3>1, <3>3, <3>4, <3>5
    <3>6. CASE id = j.id
      <4>1. records'[k].status = [c \in Channels |->
              IF c \in settled THEN outcome ELSE records[k].status[c]]
        BY <1>3, <3>1, <3>6
      <4>2. Listing[j.id] = records[k].status BY <3>4, <3>6
      <4> QED BY <3>3, <3>6, <4>1, <4>2, Zenon
    <3> QED BY <3>5, <3>6
  <2>5. Listing' = [Listing EXCEPT ![j.id] = [c \in Channels |->
                      IF c \in settled THEN outcome ELSE Listing[j.id][c]]]
    <3>1. Listing' = [id \in Ids(records) |-> Listing'[id]]
      BY <1>7, ListingIsShown DEF Shown
    <3>2. Listing = [id \in Ids(records) |-> Listing[id]]
      BY ListingIsShown DEF Shown
    <3> QED BY <2>4, <3>1, <3>2
  <2>6. Ledger!Next BY <1>9, <2>3, <2>5, Settles
  <2> QED BY <1>4, <1>5, <2>6
<1> QED BY <1>8, <1>9

-----------------------------------------------------------------------------
(* Every step keeps the jobs apart and awaited, and is one of the ledger's.  *)

\* A step that touches neither the records nor what there is to do.
LEMMA NothingSettled ==
    ASSUME LedgerInv, UNCHANGED <<records, nextId>>, JobsApart', 
           Awaited(offered', records, nextId),
           \A t \in Tasks : Awaited(job'[t], records, nextId),
           \A k \in DOMAIN queue' : Awaited(queue'[k], records, nextId)
    PROVE  LedgerInv' /\ [Ledger!Next]_<<Listing, nextId>>
<1>1. Ordered(records', nextId') /\ JobsAwaited' BY DEF LedgerInv, JobsAwaited
<1>2. Listing' = Listing BY ListingIsShown
<1> QED BY <1>1, <1>2 DEF LedgerInv

\* Nothing is awaited of no job.
LEMMA NoJobIsAwaited == nextId \in Nat \ {0} => Awaited(NoJob, records, nextId)
BY DEF Awaited, NoJob

\* A dispatched alert is posted, and its job is of a new id.
LEMMA DispatchPosts ==
    ASSUME TypeOK, LedgerInv, Dispatch
    PROVE  LedgerInv' /\ Ledger!Next
<1>1. PICK order \in Orders, published \in BOOLEAN :
         LET todo == {c \in HttpChannels : order[c] = "on"}
         IN  /\ records' = Kept(Append(records,
                               [id |-> nextId, status |-> Requested(order, published)]))
             /\ offered' = (IF todo = {} THEN NoJob ELSE [id |-> nextId, todo |-> todo])
  BY DEF Dispatch
<1> DEFINE todo == {c \in HttpChannels : order[c] = "on"}
           r == [id |-> nextId, status |-> Requested(order, published)]
           all == Ids(records) \union {nextId}
<1>2. r \in Records /\ r.id = nextId /\ r.status \in [Channels -> Statuses]
  <2>1. Requested(order, published) \in [Channels -> Statuses] BY RequestedTypes
  <2>2. nextId \in Nat BY DEF TypeOK
  <2> QED BY <2>1, <2>2 DEF Records
<1>3. \A c \in todo : r.status[c] = "pending"
  BY DEF Requested, Channels, HttpChannels
<1>4. /\ records \in Seq(Records) /\ Len(records) <= MaxRecords /\ nextId \in Nat
      /\ Ordered(records, nextId) /\ nextId' = nextId + 1 /\ queue' = queue /\ job' = job
      /\ records' = Kept(Append(records, r))
      /\ offered' = IF todo = {} THEN NoJob ELSE [id |-> nextId, todo |-> todo]
  BY <1>1 DEF Dispatch, TypeOK, LedgerInv, tasks
<1> HIDE DEF r, todo
<1>5. /\ Ordered(records', nextId')
      /\ Ids(records') = {id \in all : Cardinality({newer \in all : newer > id}) < MaxRecords}
      /\ nextId \in Ids(records') /\ Shown(records')[nextId] = r.status
      /\ \A id \in Ids(records') \ {nextId} : Shown(records')[id] = Shown(records)[id]
  <2> HIDE DEF all
  <2> QED BY <1>2, <1>4, PostShown DEF all
<1>6. Ledger!Next
  <2>1. Ids(records') = Ledger!Newest BY <1>5, NewestListed
  <2> QED BY <1>2, <1>4, <1>5, <2>1, ListingIsShown, Posts
<1>7. records' \in Seq(Records)
  BY <1>2, <1>4, KeptTypes
<1>8. \A k \in DOMAIN records' : records'[k].id = nextId => records'[k].status = r.status
  BY <1>5, <1>7, <1>4, ShownIsTheRecord
<1>9. \A k \in DOMAIN records' : records'[k].id # nextId =>
          \E m \in DOMAIN records : records[m].id = records'[k].id /\ records[m].status = records'[k].status
  <2> TAKE k \in DOMAIN records'
  <2> HAVE records'[k].id # nextId
  <2>1. records'[k].id \in Ids(records') /\ Shown(records')[records'[k].id] = records'[k].status
    <3>1. nextId' \in Nat BY <1>4
    <3> QED BY <1>5, <1>7, <3>1, ShownIsTheRecord
  <2>2. records'[k].id \in Ids(records) /\ Shown(records)[records'[k].id] = records'[k].status
    BY <1>5, <2>1
  <2>3. PICK m \in DOMAIN records : records[m].id = records'[k].id BY <2>2 DEF Ids
  <2>4. Shown(records)[records[m].id] = records[m].status BY <1>4, ShownIsTheRecord
  <2> QED BY <2>2, <2>3, <2>4
<1>10. ASSUME NEW j \in Jobs, Awaited(j, records, nextId)
       PROVE  Awaited(j, records', nextId')
  <2>1. j.id # nextId /\ j.id < nextId + 1 BY <1>4, <1>10 DEF Awaited, Jobs
  <2> QED BY <1>4, <1>9, <1>10, <2>1 DEF Awaited
<1>11. Awaited(offered', records', nextId')
  <2>1. CASE todo = {}
    BY <1>4, <1>5, <2>1 DEF Awaited, NoJob
  <2>2. CASE todo # {}
    BY <1>3, <1>4, <1>8, <2>2 DEF Awaited
  <2> QED BY <2>1, <2>2
<1>12. ASSUME NEW j, Awaited(j, records, nextId) PROVE Apart(offered', j)
  <2>1. CASE todo = {}
    BY <1>4, <2>1 DEF Apart, NoJob
  <2>2. CASE todo # {}
    <3>1. j.id # nextId BY <1>4, <1>12 DEF Awaited
    <3> QED BY <1>4, <2>2, <3>1 DEF Apart
  <2> QED BY <2>1, <2>2
<1>13. JobsAwaited'
  <2>1. \A t \in Tasks : job[t] \in Jobs BY DEF TypeOK
  <2>2. \A k \in DOMAIN queue : queue[k] \in Jobs BY DEF TypeOK
  <2> QED BY <1>4, <1>10, <1>11, <2>1, <2>2 DEF LedgerInv, JobsAwaited
<1>14. JobsApart'
  BY <1>4, <1>12 DEF LedgerInv, JobsApart, JobsAwaited
<1> QED BY <1>5, <1>6, <1>13, <1>14 DEF LedgerInv

\* The offered job moves to the end of the queue.
LEMMA SendJobKeeps ==
    ASSUME TypeOK, LedgerInv, SendJob
    PROVE  LedgerInv' /\ [Ledger!Next]_<<Listing, nextId>>
<1>1. /\ queue' = Append(queue, offered) /\ offered' = NoJob
      /\ UNCHANGED <<records, nextId, job>> /\ queue \in Seq(Jobs) /\ offered \in Jobs
      /\ nextId \in Nat \ {0}
  BY DEF SendJob, TypeOK, tasks, log
<1>2. \A k \in DOMAIN queue' : \/ k \in DOMAIN queue /\ queue'[k] = queue[k]
                               \/ k \notin DOMAIN queue /\ queue'[k] = offered
  BY <1>1
<1>3. \A k, m \in DOMAIN queue' : k \notin DOMAIN queue /\ m \notin DOMAIN queue => k = m
  BY <1>1
<1>4. \A j : Apart(NoJob, j) BY DEF Apart, NoJob
<1>5. \A a, b : Apart(a, b) <=> Apart(b, a) BY DEF Apart
<1>6. JobsApart'
  <2>1. \A t \in Tasks, k \in DOMAIN queue' : Apart(job[t], queue'[k])
    BY <1>2, <1>5 DEF LedgerInv, JobsApart
  <2>2. \A k, m \in DOMAIN queue' : k # m => Apart(queue'[k], queue'[m])
    BY <1>2, <1>3, <1>5 DEF LedgerInv, JobsApart
  <2> QED BY <1>1, <1>4, <2>1, <2>2 DEF LedgerInv, JobsApart
<1>7. /\ Awaited(offered', records, nextId)
      /\ \A t \in Tasks : Awaited(job'[t], records, nextId)
      /\ \A k \in DOMAIN queue' : Awaited(queue'[k], records, nextId)
  BY <1>1, <1>2, NoJobIsAwaited DEF LedgerInv, JobsAwaited
<1> QED BY <1>1, <1>6, <1>7, NothingSettled

\* A full queue settles the offered job as failed.
LEMMA QueueFullKeeps ==
    ASSUME TypeOK, LedgerInv, QueueFull
    PROVE  LedgerInv' /\ [Ledger!Next]_<<Listing, nextId>>
<1>1. PICK missed \in SUBSET offered.todo : Report(offered.id, offered.todo, "failed", missed)
  BY DEF QueueFull
<1>2. /\ offered' = NoJob /\ UNCHANGED <<queue, job, nextId>> /\ offered \in Jobs
      /\ nextId \in Nat \ {0} /\ Awaited(offered, records, nextId)
      /\ \A t \in Tasks : job[t] \in Jobs
      /\ \A k \in DOMAIN queue : queue[k] \in Jobs
  BY DEF QueueFull, TypeOK, tasks, LedgerInv, JobsAwaited
<1>3. /\ [Ledger!Next]_<<Listing, nextId>>
      /\ Ordered(records', nextId')
      /\ \A i \in Jobs : Awaited(i, records, nextId) /\ Apart(i, offered) => Awaited(i, records', nextId')
  BY <1>1, <1>2, ReportSettles
<1>4. \A a, b : Apart(a, b) <=> Apart(b, a) BY DEF Apart
<1>5. Awaited(NoJob, records', nextId') BY <1>2 DEF Awaited, NoJob
<1>6. JobsAwaited'
  BY <1>2, <1>3, <1>4, <1>5 DEF LedgerInv, JobsAwaited, JobsApart
<1>7. JobsApart'
  BY <1>2 DEF LedgerInv, JobsApart, Apart, NoJob
<1> QED BY <1>3, <1>6, <1>7 DEF LedgerInv

\* The first job of the queue moves to a task, over one that is done with.
LEMMA ReceiveKeeps ==
    ASSUME TypeOK, LedgerInv, NEW t \in Tasks, Receive(t)
    PROVE  LedgerInv' /\ [Ledger!Next]_<<Listing, nextId>>
<1>1. /\ queue # <<>> /\ queue \in Seq(Jobs) /\ queue' = Tail(queue)
      /\ job \in [Tasks -> Jobs] /\ job' = [job EXCEPT ![t] = Head(queue)]
      /\ UNCHANGED <<offered, records, nextId>>
  BY DEF Receive, TypeOK, log
<1>2. /\ 1 \in DOMAIN queue /\ Head(queue) = queue[1]
      /\ \A k \in DOMAIN queue' : k + 1 \in DOMAIN queue /\ queue'[k] = queue[k + 1] /\ k + 1 # 1
      /\ \A k, m \in DOMAIN queue' : k # m => k + 1 # m + 1
  BY <1>1
<1>3. \A u \in Tasks : job'[u] = IF u = t THEN queue[1] ELSE job[u]
  BY <1>1, <1>2
<1>4. \A a, b : Apart(a, b) <=> Apart(b, a) BY DEF Apart
<1>5. JobsApart'
  <2>1. \A k \in DOMAIN queue' : Apart(offered, queue'[k]) BY <1>2 DEF LedgerInv, JobsApart
  <2>2. \A u \in Tasks : Apart(offered, job'[u]) BY <1>2, <1>3 DEF LedgerInv, JobsApart
  <2>3. \A u, w \in Tasks : u # w => Apart(job'[u], job'[w])
    BY <1>2, <1>3, <1>4 DEF LedgerInv, JobsApart
  <2>4. \A u \in Tasks, k \in DOMAIN queue' : Apart(job'[u], queue'[k])
    BY <1>2, <1>3 DEF LedgerInv, JobsApart
  <2>5. \A k, m \in DOMAIN queue' : k # m => Apart(queue'[k], queue'[m])
    BY <1>2 DEF LedgerInv, JobsApart
  <2> QED BY <1>1, <2>1, <2>2, <2>3, <2>4, <2>5 DEF JobsApart
<1>6. /\ Awaited(offered', records, nextId)
      /\ \A u \in Tasks : Awaited(job'[u], records, nextId)
      /\ \A k \in DOMAIN queue' : Awaited(queue'[k], records, nextId)
  BY <1>1, <1>2, <1>3 DEF LedgerInv, JobsAwaited
<1> QED BY <1>1, <1>5, <1>6, NothingSettled

\* One channel of a task's job is settled and struck off.
LEMMA FinishKeeps ==
    ASSUME TypeOK, LedgerInv, NEW t \in Tasks, NEW c \in HttpChannels, c \in job[t].todo,
           NEW outcome \in {"skipped", "sent", "failed"}, Finish(t, c, outcome),
           UNCHANGED <<offered, queue, nextId>>
    PROVE  LedgerInv' /\ [Ledger!Next]_<<Listing, nextId>>
<1>1. PICK missed \in SUBSET {c} : Report(job[t].id, {c}, outcome, missed)
  BY DEF Finish
<1>2. /\ job \in [Tasks -> Jobs] /\ offered \in Jobs /\ queue \in Seq(Jobs)
      /\ job' = [job EXCEPT ![t].todo = @ \ {c}] /\ job[t] \in Jobs
      /\ Awaited(job[t], records, nextId)
      /\ \A u \in Tasks : job[u] \in Jobs
      /\ \A k \in DOMAIN queue : queue[k] \in Jobs
  BY DEF TypeOK, Finish, LedgerInv, JobsAwaited
<1>3. /\ [Ledger!Next]_<<Listing, nextId>>
      /\ Ordered(records', nextId')
      /\ \A i \in Jobs : Awaited(i, records, nextId) /\ (Apart(i, job[t]) \/ i.todo \cap {c} = {})
                           => Awaited(i, records', nextId')
  <2>1. {c} \in SUBSET job[t].todo OBVIOUS
  <2> QED BY <1>1, <1>2, <2>1, ReportSettles
<1>4. /\ \A u \in Tasks : job'[u] \in Jobs /\ job'[u].id = job[u].id /\ job'[u].todo \subseteq job[u].todo
      /\ \A u \in Tasks \ {t} : job'[u] = job[u]
      /\ job'[t].todo \cap {c} = {}
  BY <1>2 DEF Jobs
<1>5. \A a, b : Apart(a, b) <=> Apart(b, a) BY DEF Apart
<1>6. \A u \in Tasks : Awaited(job'[u], records', nextId')
  <2>1. Awaited(job'[t], records, nextId)
    BY <1>2, <1>4 DEF Awaited
  <2>2. Awaited(job'[t], records', nextId')
    BY <1>3, <1>4, <2>1
  <2>3. ASSUME NEW u \in Tasks \ {t} PROVE Awaited(job'[u], records', nextId')
    <3>1. Apart(job[u], job[t]) /\ Awaited(job[u], records, nextId)
      BY DEF LedgerInv, JobsApart, JobsAwaited
    <3> QED BY <1>2, <1>3, <1>4, <3>1
  <2> QED BY <2>2, <2>3
<1>7. /\ Awaited(offered', records', nextId')
      /\ \A k \in DOMAIN queue' : Awaited(queue'[k], records', nextId')
  BY <1>2, <1>3, <1>5 DEF LedgerInv, JobsAwaited, JobsApart
<1>8. ASSUME NEW a, NEW b, NEW d, Apart(a, b), d.id = b.id, d.todo \subseteq b.todo
      PROVE  Apart(a, d) /\ Apart(d, a)
  BY <1>8 DEF Apart
<1>9. JobsApart'
  <2>1. \A u \in Tasks : Apart(offered, job'[u]) BY <1>4, <1>8 DEF LedgerInv, JobsApart
  <2>2. \A u \in Tasks, k \in DOMAIN queue : Apart(job'[u], queue[k])
    BY <1>4, <1>5, <1>8 DEF LedgerInv, JobsApart
  <2>3. \A u, w \in Tasks : u # w => Apart(job'[u], job'[w])
    <3> TAKE u, w \in Tasks
    <3> HAVE u # w
    <3>1. Apart(job[u], job[w]) BY DEF LedgerInv, JobsApart
    <3>2. Apart(job[u], job'[w]) BY <1>4, <1>8, <3>1
    <3>3. Apart(job'[w], job[u]) BY <1>5, <3>2
    <3> QED BY <1>4, <1>8, <3>3
  <2> QED BY <2>1, <2>2, <2>3 DEF LedgerInv, JobsApart
<1> QED BY <1>3, <1>6, <1>7, <1>9 DEF LedgerInv, JobsAwaited

\* A job with nothing left is put away.
LEMMA EndDeliveryKeeps ==
    ASSUME TypeOK, LedgerInv, NEW t \in Tasks, EndDelivery(t)
    PROVE  LedgerInv' /\ [Ledger!Next]_<<Listing, nextId>>
<1>1. /\ job \in [Tasks -> Jobs] /\ job' = [job EXCEPT ![t] = NoJob]
      /\ UNCHANGED <<offered, queue, records, nextId>> /\ nextId \in Nat \ {0}
  BY DEF EndDelivery, TypeOK, log
<1>2. \A u \in Tasks : job'[u] = IF u = t THEN NoJob ELSE job[u] BY <1>1
<1>3. \A j : Apart(NoJob, j) /\ Apart(j, NoJob) BY DEF Apart, NoJob
<1>4. JobsApart' BY <1>1, <1>2, <1>3 DEF LedgerInv, JobsApart
<1>5. /\ Awaited(offered', records, nextId)
      /\ \A u \in Tasks : Awaited(job'[u], records, nextId)
      /\ \A k \in DOMAIN queue' : Awaited(queue'[k], records, nextId)
  BY <1>1, <1>2, NoJobIsAwaited DEF LedgerInv, JobsAwaited
<1> QED BY <1>1, <1>4, <1>5, NothingSettled

\* Each action is a step of the ledger, or none.
LEMMA LedgerStep ==
    TypeOK /\ LedgerInv /\ [Next]_vars => LedgerInv' /\ [Ledger!Next]_<<Listing, nextId>>
<1> SUFFICES ASSUME TypeOK, LedgerInv, [Next]_vars
             PROVE  LedgerInv' /\ [Ledger!Next]_<<Listing, nextId>>
    OBVIOUS
<1>1. CASE UNCHANGED <<offered, queue, job, records, nextId>>
    <2>1. JobsApart' BY <1>1 DEF LedgerInv, JobsApart
    <2>2. /\ Awaited(offered', records, nextId)
          /\ \A t \in Tasks : Awaited(job'[t], records, nextId)
          /\ \A k \in DOMAIN queue' : Awaited(queue'[k], records, nextId)
        BY <1>1 DEF LedgerInv, JobsAwaited
    <2>. QED BY <1>1, <2>1, <2>2, NothingSettled
<1>2. CASE Dispatch
    BY <1>2, DispatchPosts
<1>3. CASE SendJob
    BY <1>3, SendJobKeeps
<1>4. CASE QueueFull
    BY <1>4, QueueFullKeeps
<1>5. CASE Ensure \/ Create \/ CreateFails \/ ProbeDelivering \/ ProbeQueue
    BY <1>1, <1>5 DEF Ensure, Create, CreateFails, ProbeDelivering, ProbeQueue, tasks, log
<1>6. CASE ClearRecent
    <2>1. records' = <<>> /\ UNCHANGED <<offered, queue, job, nextId>>
        BY <1>6 DEF ClearRecent, tasks
    <2>2. Listing' = [id \in {} |-> {}]
        BY <2>1, ListingIsShown DEF Shown, Ids
    <2>3. Ledger!Next
        BY <2>1, <2>2, Clears
    <2>4. Ordered(records', nextId') /\ JobsAwaited'
        BY <2>1 DEF Ordered, LedgerInv, JobsAwaited, Awaited
    <2>5. JobsApart'
        BY <2>1 DEF LedgerInv, JobsApart
    <2>. QED BY <2>3, <2>4, <2>5 DEF LedgerInv
<1>7. ASSUME NEW t \in Tasks, Delivery(t)
      PROVE  LedgerInv' /\ [Ledger!Next]_<<Listing, nextId>>
    <2>1. CASE Receive(t)
        BY <2>1, ReceiveKeeps
    <2>2. CASE Attempt(t)
        <3>1. PICK c \in HttpChannels, outcome \in {"skipped", "sent", "failed"} :
                 c \in job[t].todo /\ Finish(t, c, outcome)
            BY <2>2 DEF Attempt, IsNext
        <3>. QED BY <2>2, <3>1, FinishKeeps DEF Attempt
    <2>3. CASE Retry(t)
        <3>1. PICK c \in HttpChannels, outcome \in {"sent", "failed"} :
                 c \in job[t].todo /\ Finish(t, c, outcome)
            BY <2>3 DEF Retry, IsNext
        <3>. QED BY <2>3, <3>1, FinishKeeps DEF Retry
    <2>4. CASE EndDelivery(t)
        BY <2>4, EndDeliveryKeeps
    <2>5. CASE StartDelivery(t) \/ ConnectionFails(t) \/ IdleTimeout(t)
                \/ Release(t) \/ Recheck(t) \/ Claim(t)
        BY <1>1, <2>5 DEF StartDelivery, ConnectionFails, IdleTimeout, Release, Recheck, Claim, log
    <2>. QED BY <1>7, <2>1, <2>2, <2>3, <2>4, <2>5 DEF Delivery
<1>8. CASE UNCHANGED vars
    BY <1>1, <1>8 DEF vars, tasks, log
<1>. QED BY <1>2, <1>3, <1>4, <1>5, <1>6, <1>7, <1>8 DEF Next, Queueing

\* At first there are neither jobs nor records.
LEMMA LedgerInit == Init => LedgerInv
BY DispatcherAssumption DEF Init, LedgerInv, Ordered, JobsApart, JobsAwaited, Apart, Awaited, NoJob

\* Whatever the tasks do at the same time, the list of alerts changes only as
\* the ledger allows (dispatch, store, setStatus, clearRecent).
THEOREM DispatcherImplementsLedger == Spec => ImplementsLedger
<1>1. Init => TypeOK /\ LedgerInv
    BY InitInv, LedgerInit
<1>2. Init => Ledger!Init
    BY InitLists
<1>. QED BY <1>1, <1>2, TypeStep, LedgerStep, PTL DEF Spec, ImplementsLedger, Ledger!Spec
=============================================================================
