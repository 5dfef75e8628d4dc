----------------------- MODULE BackgroundTasksProofs ------------------------
(***************************************************************************)
(* Proofs about BackgroundTasks for any files, batches, number of jobs,    *)
(* tries and faults.                                                       *)
(***************************************************************************)
EXTENDS BackgroundTasks, TLAPS

Entries == [task : Tasks \cup {None}, item : Nat, try : Nat, file : Files \cup {None}]

TypeOK ==
    /\ place \in [Files -> Folders \cup {"new", "gone"}]
    /\ task \in [Tasks -> Task \cup {None}]
    /\ check \in [Tasks -> {None, "pending", "asking", "completed", "error"}]
    /\ pending \subseteq Entries /\ trail \subseteq Entries /\ asset \subseteq Entries
    /\ effects \subseteq Entries /\ dropped \subseteq Entries
    /\ faults \in Nat

\* An entry is about a run of a job that has begun.
EntriesOfRuns ==
    \A e \in effects : e.task # None =>
        task[e.task] # None /\ e.try \in 1..task[e.task].try

\* What the present run of a batch did, it reports as done.
DoneIsReported ==
    \A e \in effects :
        e.task # None /\ task[e.task].kind # "empty" /\ e.try = task[e.task].try =>
            e.item \in DOMAIN task[e.task].results /\ task[e.task].results[e.item] = "ok"

\* What a batch reports as done was done in its present run.
ReportedIsDone ==
    \A t \in Tasks : task[t] # None =>
        \A n \in DOMAIN task[t].results : task[t].results[n] = "ok" =>
            \E e \in effects : e.task = t /\ e.item = n /\ e.try = task[t].try

\* A job that runs has a try. Only an emptying has files due, they are in Trash,
\* and it has no items.
JobsKept ==
    \A t \in Tasks : task[t] # None =>
        /\ task[t].state = "running" => task[t].try > 0
        /\ \A f \in task[t].due : place[f] = "trash"
        /\ task[t].kind # "empty" => task[t].due = {}
        /\ task[t].kind = "empty" => task[t].items = <<>> /\ task[t].results = <<>>
        /\ task[t].state = "complete" /\ task[t].due # {} => task[t].unsaid

\* The inductive invariant of the results.
ResultsInv == /\ TypeOK
              /\ EntriesOfRuns
              /\ DoneIsReported
              /\ ReportedIsDone
              /\ JobsKept

\* The inductive invariant of the audit trail.
AuditInv == /\ ResultsInv
            /\ pending \subseteq effects
            /\ AuditKnown

-----------------------------------------------------------------------------

\* The fields of a job.
LEMMA TaskFacts ==
  ASSUME TypeOK, NEW t \in Tasks, task[t] # None
  PROVE  /\ task[t] \in Task
         /\ task[t].kind \in {"move", "trash", "delete", "empty"}
         /\ task[t].from \in Folders /\ task[t].to \in Folders \cup {"gone"}
         /\ task[t].items \in Seq(Files) /\ task[t].try \in Nat
         /\ task[t].state \in {"queued", "running", "complete", "failed", "expired"}
         /\ task[t].results \in Seq({"ok", "file_not_found", "internal_error"})
         /\ task[t].unsaid \in BOOLEAN /\ task[t].due \subseteq Files
  BY DEF TypeOK, Task

\* The item a run is at is one of the files of the batch.
LEMMA CurrentFacts ==
  ASSUME TypeOK, NEW t \in Tasks, AtItem(t)
  PROVE  /\ task[t] # None /\ task[t].state = "running"
         /\ Item(t) \in Nat /\ Item(t) = Len(task[t].results) + 1
         /\ Item(t) \in DOMAIN task[t].items
         /\ Current(t) \in Files
  <1>1. task[t] # None /\ task[t].state = "running" /\ Item(t) <= Len(task[t].items)
    BY DEF AtItem, Is
  <1>2. task[t].items \in Seq(Files)
    BY <1>1, TaskFacts
  <1>3. Len(task[t].results) \in Nat
    BY <1>1, TaskFacts
  <1>4. Item(t) \in 1..Len(task[t].items)
    BY <1>1, <1>2, <1>3 DEF Item
  <1>5. QED
    BY <1>1, <1>2, <1>3, <1>4 DEF Item, Current

\* A job that is put into the queue is a job.
LEMMA EnqueuedFacts ==
  ASSUME TypeOK, NEW kind \in {"move", "trash", "delete", "empty"},
         NEW from \in Folders, NEW to \in Folders \cup {"gone"}, NEW items \in Seq(Files)
  PROVE  /\ Enqueued(kind, from, to, items) \in Task
         /\ Enqueued(kind, from, to, items) # None
  <1>1. Enqueued(kind, from, to, items) \in Task
    BY DEF Enqueued, Task
  <1>2. QED
    BY <1>1, NoneAssumption

\* An answer to the item a run is at is added to the results, and nothing else.
LEMMA AnswerFacts ==
  ASSUME TypeOK, NEW t \in Tasks, AtItem(t),
         NEW r \in {"ok", "file_not_found", "internal_error"}
  PROVE  /\ Answer(t, r) \in Task /\ Answer(t, r) # None
         /\ Answer(t, r).results = Append(task[t].results, r)
         /\ Answer(t, r).kind = task[t].kind /\ Answer(t, r).try = task[t].try
         /\ Answer(t, r).due = task[t].due /\ Answer(t, r).items = task[t].items
         /\ Answer(t, r).state = task[t].state /\ Answer(t, r).unsaid = task[t].unsaid
  <1>1. task[t] \in Task
    BY TaskFacts, CurrentFacts
  <1>2. Append(task[t].results, r) \in Seq({"ok", "file_not_found", "internal_error"})
    BY <1>1 DEF Task
  <1>3. Answer(t, r) \in Task
    BY <1>1, <1>2 DEF Answer, Task
  <1>4. Answer(t, r) # None
    BY <1>3, NoneAssumption
  <1>5. QED
    BY <1>1, <1>3, <1>4 DEF Answer, Task

\* The fields of a job at which a step of it leaves the job as it was.
LEMMA EnqueueFacts ==
  ASSUME TypeOK, NEW t \in Tasks,
         EnqueueEmptyTrash(t) \/ \E o \in Orders : EnqueueBatch(t, o)
  PROVE  \E new \in Task :
           /\ task[t] = None
           /\ task' = [task EXCEPT ![t] = new]
           /\ new # None /\ new.state = "queued" /\ new.try = 0 /\ new.results = <<>>
           /\ new.kind = "empty" => new.items = <<>>
           /\ new.kind # "empty" => new.due = {}
           /\ \A f \in new.due : place[f] = "trash"
           /\ check' = [check EXCEPT ![t] = "pending"]
           /\ UNCHANGED <<place, pending, trail, asset, faults, effects, dropped>>
  <1>1. CASE EnqueueEmptyTrash(t)
    <2> DEFINE new == Enqueued("empty", "trash", "gone", <<>>)
    <2>0. <<>> \in Seq(Files) /\ "trash" \in Folders
      BY DEF Folders
    <2>1. new \in Task /\ new # None
      BY <2>0, EnqueuedFacts
    <2>2. /\ new.state = "queued" /\ new.try = 0 /\ new.results = <<>>
          /\ new.kind = "empty" /\ new.items = <<>>
          /\ \A f \in new.due : place[f] = "trash"
      BY DEF Enqueued
    <2>3. QED
      BY <1>1, <2>1, <2>2 DEF EnqueueEmptyTrash, IsNext
  <1>2. ASSUME NEW o \in Orders, EnqueueBatch(t, o)
        PROVE  \E new \in Task :
                 /\ task[t] = None
                 /\ task' = [task EXCEPT ![t] = new]
                 /\ new # None /\ new.state = "queued" /\ new.try = 0 /\ new.results = <<>>
                 /\ new.kind = "empty" => new.items = <<>>
                 /\ new.kind # "empty" => new.due = {}
                 /\ \A f \in new.due : place[f] = "trash"
                 /\ check' = [check EXCEPT ![t] = "pending"]
                 /\ UNCHANGED <<place, pending, trail, asset, faults, effects, dropped>>
    <2> DEFINE new == Enqueued(o.kind, o.from, o.to, o.items)
    <2>1. /\ o.kind \in {"move", "trash", "delete"} /\ o.from \in Folders
          /\ o.to \in Folders \cup {"gone"} /\ o.items \in Seq(Files)
      BY OrdersAssumption DEF Accepted, Folders
    <2>2. new \in Task /\ new # None
      BY <2>1, EnqueuedFacts
    <2>3. /\ new.state = "queued" /\ new.try = 0 /\ new.results = <<>>
          /\ new.kind # "empty" /\ new.due = {}
      BY <2>1 DEF Enqueued
    <2>4. QED
      BY <1>2, <2>2, <2>3 DEF EnqueueBatch, IsNext
  <1>3. QED
    BY <1>1, <1>2

\* What a step that ends or interrupts a run, or that forgets a result, does to the
\* jobs: their state changes, or what they say of it.
Turned ==
    \A u \in Tasks :
        \/ task[u] = None /\ task'[u] = None
        \/ /\ task[u] # None /\ task'[u] # None /\ task'[u] \in Task
           /\ task'[u].kind = task[u].kind /\ task'[u].try = task[u].try
           /\ task'[u].items = task[u].items /\ task'[u].results = task[u].results
           /\ task'[u].due = task[u].due
           /\ task'[u].state = "running" => task[u].state = "running"
           /\ task[u].unsaid => task'[u].unsaid
           /\ task'[u].state = "complete" /\ task[u].state # "complete" =>
                task[u].kind # "empty" \/ task'[u].unsaid

\* The steps of which this is all that happens to the jobs.
LEMMA TurnedFacts ==
  ASSUME TypeOK,
         \/ WorkerDies
         \/ \E t \in Tasks : Finish(t) \/ EmptyTrashFails(t) \/ Timeout(t) \/ Expire(t)
  PROVE  /\ Turned /\ task' \in [Tasks -> Task \cup {None}]
         /\ UNCHANGED <<place, check, trail, asset, effects>>
         /\ pending' \subseteq pending /\ dropped' = dropped \cup (pending \ pending')
         /\ faults' \in Nat
  <1>1. CASE WorkerDies
    <2>1. task' = [t \in Tasks |-> IF Is(t, "running")
                                   THEN [task[t] EXCEPT !.state = "queued"] ELSE task[t]]
      BY <1>1 DEF WorkerDies
    <2>2. ASSUME NEW t \in Tasks, task[t] # None
          PROVE  /\ [task[t] EXCEPT !.state = "queued"] \in Task
                 /\ [task[t] EXCEPT !.state = "queued"] # None
      <3>1. [task[t] EXCEPT !.state = "queued"] \in Task
        BY <2>2, TaskFacts DEF Task
      <3>2. QED
        BY <3>1, NoneAssumption
    <2>3. task' \in [Tasks -> Task \cup {None}]
      BY <2>1, <2>2 DEF TypeOK, Is
    <2>4. Turned
      <3> SUFFICES ASSUME NEW u \in Tasks, task[u] # None
                   PROVE  /\ task'[u] # None /\ task'[u] \in Task
                          /\ task'[u].kind = task[u].kind /\ task'[u].try = task[u].try
                          /\ task'[u].items = task[u].items
                          /\ task'[u].results = task[u].results
                          /\ task'[u].due = task[u].due
                          /\ task'[u].state = task[u].state \/ task'[u].state = "queued"
                          /\ task[u].unsaid => task'[u].unsaid
        BY <2>1 DEF Turned, Is
      <3>1. task[u] \in Task
        BY TaskFacts
      <3>2. QED
        BY <2>1, <2>2, <3>1 DEF Task
    <2>5. QED
      BY <1>1, <2>3, <2>4 DEF WorkerDies, Fault, TypeOK
  <1>2. ASSUME NEW t \in Tasks,
               Finish(t) \/ EmptyTrashFails(t) \/ Timeout(t) \/ Expire(t)
        PROVE  /\ Turned /\ task' \in [Tasks -> Task \cup {None}]
               /\ UNCHANGED <<place, check, trail, asset, effects>>
               /\ pending' = pending /\ dropped' = dropped
               /\ faults' \in Nat
    <2>1. task[t] # None
      BY <1>2 DEF Finish, EmptyTrashFails, Timeout, Expire, Is
    <2>2. task[t] \in Task
      BY <2>1, TaskFacts
    <2>3. \E new \in Task :
            /\ task' = [task EXCEPT ![t] = new]
            /\ new.kind = task[t].kind /\ new.try = task[t].try
            /\ new.items = task[t].items /\ new.results = task[t].results
            /\ new.due = task[t].due
            /\ new.state # "running"
            /\ task[t].unsaid => new.unsaid
            /\ new.state = "complete" => task[t].kind # "empty" \/ new.unsaid
      <3>1. CASE Finish(t)
        <4>1. task' = [task EXCEPT ![t] = [task[t] EXCEPT !.state = "complete"]]
          BY <3>1 DEF Finish, TypeOK
        <4>2. [task[t] EXCEPT !.state = "complete"] \in Task
          BY <2>2 DEF Task
        <4>3. QED
          BY <2>2, <3>1, <4>1, <4>2 DEF Finish, Task
      <3>2. CASE EmptyTrashFails(t)
        <4>1. task' = [task EXCEPT ![t] =
                         [task[t] EXCEPT !.state = "complete", !.unsaid = TRUE]]
          BY <3>2 DEF EmptyTrashFails, TypeOK
        <4>2. [task[t] EXCEPT !.state = "complete", !.unsaid = TRUE] \in Task
          BY <2>2 DEF Task
        <4>3. QED
          BY <2>2, <3>2, <4>1, <4>2 DEF EmptyTrashFails, Task
      <3>3. CASE Timeout(t)
        <4>1. task' = [task EXCEPT ![t] = [task[t] EXCEPT !.state = "failed"]]
          BY <3>3 DEF Timeout, TypeOK
        <4>2. [task[t] EXCEPT !.state = "failed"] \in Task
          BY <2>2 DEF Task
        <4>3. QED
          BY <2>2, <3>3, <4>1, <4>2 DEF Timeout, Task
      <3>4. CASE Expire(t)
        <4>1. task' = [task EXCEPT ![t] = [task[t] EXCEPT !.state = "expired"]]
          BY <3>4 DEF Expire, TypeOK
        <4>2. [task[t] EXCEPT !.state = "expired"] \in Task
          BY <2>2 DEF Task
        <4>3. QED
          BY <2>2, <3>4, <4>1, <4>2 DEF Expire, Task
      <3>5. QED
        BY <1>2, <3>1, <3>2, <3>3, <3>4
    <2>4. Turned /\ task' \in [Tasks -> Task \cup {None}]
      <3>1. PICK new \in Task :
            /\ task' = [task EXCEPT ![t] = new]
            /\ new.kind = task[t].kind /\ new.try = task[t].try
            /\ new.items = task[t].items /\ new.results = task[t].results
            /\ new.due = task[t].due
            /\ new.state # "running"
            /\ task[t].unsaid => new.unsaid
            /\ new.state = "complete" => task[t].kind # "empty" \/ new.unsaid
        BY <2>3
      <3>2. new # None
        BY NoneAssumption
      <3>3. task' \in [Tasks -> Task \cup {None}]
        BY <3>1 DEF TypeOK
      <3>4. Turned
        BY <2>1, <3>1, <3>2, TaskFacts DEF Turned, TypeOK
      <3>5. QED
        BY <3>3, <3>4
    <2>5. QED
      BY <1>2, <2>4 DEF Finish, EmptyTrashFails, Timeout, Expire, Fault, TypeOK
  <1>3. QED
    BY <1>1, <1>2

-----------------------------------------------------------------------------

LEMMA InitAuditInv == Init => AuditInv
  <1> SUFFICES ASSUME Init PROVE AuditInv
    OBVIOUS
  <1>1. TypeOK
    BY PlacedAssumption DEF Init, TypeOK
  <1>2. EntriesOfRuns /\ DoneIsReported /\ ReportedIsDone /\ JobsKept
    BY DEF Init, EntriesOfRuns, DoneIsReported, ReportedIsDone, JobsKept
  <1>3. AuditKnown /\ pending \subseteq effects
    BY DEF Init, AuditKnown
  <1>4. QED
    BY <1>1, <1>2, <1>3 DEF AuditInv, ResultsInv

\* Steps that leave the jobs, the files and what was done alone.
LEMMA QuietResultsInv ==
  ASSUME ResultsInv, TypeOK', UNCHANGED <<place, task, effects>>
  PROVE  ResultsInv'
  BY DEF ResultsInv, EntriesOfRuns, DoneIsReported, ReportedIsDone, JobsKept

LEMMA TurnedResultsInv ==
  ASSUME ResultsInv, Turned, TypeOK', UNCHANGED <<place, effects>>
  PROVE  ResultsInv'
  <1>1. EntriesOfRuns' /\ DoneIsReported'
    <2> SUFFICES ASSUME NEW e \in effects, e.task # None
                 PROVE  /\ task'[e.task] # None /\ e.try \in 1..task'[e.task].try
                        /\ task'[e.task].kind # "empty" /\ e.try = task'[e.task].try =>
                             /\ e.item \in DOMAIN task'[e.task].results
                             /\ task'[e.task].results[e.item] = "ok"
      BY DEF EntriesOfRuns, DoneIsReported
    <2>1. e.task \in Tasks
      BY DEF ResultsInv, TypeOK, Entries
    <2>2. QED
      BY <2>1 DEF ResultsInv, EntriesOfRuns, DoneIsReported, Turned
  <1>2. ReportedIsDone'
    BY DEF ResultsInv, ReportedIsDone, Turned
  <1>3. JobsKept'
    BY DEF ResultsInv, JobsKept, Turned
  <1>4. QED
    BY <1>1, <1>2, <1>3 DEF ResultsInv

LEMMA EnqueueResultsInv ==
  ASSUME ResultsInv, NEW t \in Tasks,
         EnqueueEmptyTrash(t) \/ \E o \in Orders : EnqueueBatch(t, o)
  PROVE  ResultsInv'
  <1>0. TypeOK
    BY DEF ResultsInv
  <1>1. PICK new \in Task :
          /\ task[t] = None
          /\ task' = [task EXCEPT ![t] = new]
          /\ new # None /\ new.state = "queued" /\ new.try = 0 /\ new.results = <<>>
          /\ new.kind = "empty" => new.items = <<>>
          /\ new.kind # "empty" => new.due = {}
          /\ \A f \in new.due : place[f] = "trash"
          /\ check' = [check EXCEPT ![t] = "pending"]
          /\ UNCHANGED <<place, pending, trail, asset, faults, effects, dropped>>
    BY <1>0, EnqueueFacts
  <1>2. \A u \in Tasks : task'[u] = IF u = t THEN new ELSE task[u]
    BY <1>0, <1>1 DEF TypeOK
  <1>3. TypeOK'
    BY <1>0, <1>1 DEF TypeOK
  <1>4. \A e \in effects : e.task # None => e.task \in Tasks /\ e.task # t
    BY <1>0, <1>1 DEF ResultsInv, EntriesOfRuns, TypeOK, Entries
  <1>5. EntriesOfRuns' /\ DoneIsReported'
    BY <1>1, <1>2, <1>4 DEF ResultsInv, EntriesOfRuns, DoneIsReported
  <1>6. ReportedIsDone'
    BY <1>1, <1>2 DEF ResultsInv, ReportedIsDone
  <1>7. JobsKept'
    BY <1>1, <1>2 DEF ResultsInv, JobsKept
  <1>8. QED
    BY <1>3, <1>5, <1>6, <1>7 DEF ResultsInv

LEMMA StartResultsInv ==
  ASSUME ResultsInv, NEW t \in Tasks, Start(t)
  PROVE  ResultsInv' /\ \A u \in Tasks : task[u] # None => task'[u].kind = task[u].kind
  <1>0. TypeOK /\ task[t] # None /\ task[t] \in Task /\ task[t].state = "queued"
    BY TaskFacts DEF ResultsInv, Start, Is
  <1> DEFINE run == [task[t] EXCEPT !.state = "running", !.try = task[t].try + 1,
                                    !.results = <<>>]
             end == [task[t] EXCEPT !.state = "failed"]
             new == IF task[t].try < MaxTries THEN run ELSE end
  <1>1. task' = [task EXCEPT ![t] = new]
    BY DEF Start
  <1>2. new \in Task
    <2>0. <<>> \in Seq({"ok", "file_not_found", "internal_error"})
      OBVIOUS
    <2>1. \A n \in Nat, s \in Seq({"ok", "file_not_found", "internal_error"}) :
            [task[t] EXCEPT !.state = "running", !.try = n, !.results = s] \in Task
      BY <1>0 DEF Task
    <2>n. task[t].try + 1 \in Nat
      BY <1>0, TaskFacts
    <2>r. run \in Task
      BY <2>0, <2>1, <2>n, Zenon
    <2>2. end \in Task
      BY <1>0 DEF Task
    <2>3. QED
      BY <2>r, <2>2
  <1>3. /\ new.kind = task[t].kind /\ new.items = task[t].items
        /\ new.due = task[t].due
        /\ new.state # "complete"
        /\ \/ new.try = task[t].try + 1 /\ new.results = <<>>
           \/ new.try = task[t].try /\ new.results = task[t].results /\ new.state = "failed"
        /\ task[t].try \in Nat
    BY <1>0 DEF Task
  <1>4. new # None
    BY <1>2, NoneAssumption
  <1> HIDE DEF new
  <1>5. \A u \in Tasks : task'[u] = IF u = t THEN new ELSE task[u]
    BY <1>0, <1>1 DEF TypeOK
  <1>6. TypeOK'
    BY <1>0, <1>1, <1>2 DEF TypeOK, Start
  <1>7. UNCHANGED <<place, effects>>
    BY DEF Start
  <1>8. \A e \in effects : e.task # None => e.task \in Tasks /\ e.try \in Nat
    BY <1>0 DEF TypeOK, Entries
  <1>9. EntriesOfRuns'
    <2> SUFFICES ASSUME NEW e \in effects, e.task # None
                 PROVE  task'[e.task] # None /\ e.try \in 1..task'[e.task].try
      BY <1>7 DEF EntriesOfRuns
    <2>1. task[e.task] # None /\ e.try \in 1..task[e.task].try /\ e.task \in Tasks
      BY <1>8 DEF ResultsInv, EntriesOfRuns
    <2>2. CASE e.task = t
      BY <1>3, <1>4, <1>5, <2>1, <2>2
    <2>3. CASE e.task # t
      BY <1>5, <2>1, <2>3
    <2>4. QED
      BY <2>2, <2>3
  <1>10. DoneIsReported'
    <2> SUFFICES ASSUME NEW e \in effects, e.task # None, task'[e.task].kind # "empty",
                        e.try = task'[e.task].try
                 PROVE  /\ e.item \in DOMAIN task'[e.task].results
                        /\ task'[e.task].results[e.item] = "ok"
      BY <1>7 DEF DoneIsReported
    <2>1. task[e.task] # None /\ e.try \in 1..task[e.task].try /\ e.task \in Tasks
      BY <1>8 DEF ResultsInv, EntriesOfRuns
    <2>2. CASE e.task = t
      <3>1. new.try # task[t].try + 1
        BY <1>3, <1>5, <2>1, <2>2
      <3>2. QED
        BY <1>3, <1>5, <2>1, <2>2, <3>1 DEF ResultsInv, DoneIsReported
    <2>3. CASE e.task # t
      BY <1>5, <2>1, <2>3 DEF ResultsInv, DoneIsReported
    <2>4. QED
      BY <2>2, <2>3
  <1>11. ReportedIsDone'
    BY <1>0, <1>3, <1>5, <1>7 DEF ResultsInv, ReportedIsDone
  <1>12. JobsKept'
    <2> SUFFICES ASSUME NEW u \in Tasks, task'[u] # None
                 PROVE  /\ task'[u].state = "running" => task'[u].try > 0
                        /\ \A f \in task'[u].due : place[f] = "trash"
                        /\ task'[u].kind # "empty" => task'[u].due = {}
                        /\ task'[u].kind = "empty" =>
                             task'[u].items = <<>> /\ task'[u].results = <<>>
                        /\ task'[u].state = "complete" /\ task'[u].due # {} => task'[u].unsaid
      BY <1>7 DEF JobsKept
    <2>1. CASE u = t
      BY <1>0, <1>3, <1>5, <2>1 DEF ResultsInv, JobsKept
    <2>2. CASE u # t
      BY <1>5, <2>2 DEF ResultsInv, JobsKept
    <2>3. QED
      BY <2>1, <2>2
  <1>13. QED
    BY <1>3, <1>5, <1>6, <1>9, <1>10, <1>11, <1>12 DEF ResultsInv

\* An entry of the item a run is at is an entry.
LEMMA ItemEntryFacts ==
  ASSUME ResultsInv, NEW t \in Tasks, AtItem(t),
         NEW e, e = Entry(t, Item(t), task[t].try, Current(t))
  PROVE  /\ e \in Entries /\ e.task = t /\ e.task # None
         /\ e.item = Len(task[t].results) + 1 /\ e.try = task[t].try
         /\ e.file = Current(t)
         /\ e.try \in 1..task[t].try
         /\ task[t].kind # "empty"
  <1>1. /\ TypeOK /\ task[t] # None /\ task[t].try \in Nat /\ task[t].try > 0
        /\ Item(t) \in DOMAIN task[t].items
    BY TaskFacts, CurrentFacts DEF ResultsInv, JobsKept
  <1>2. task[t].kind # "empty"
    <2> SUFFICES ASSUME task[t].items = <<>> PROVE FALSE
      BY <1>1 DEF ResultsInv, JobsKept
    <2>1. QED
      BY <1>1
  <1>3. Item(t) \in Nat /\ Item(t) = Len(task[t].results) + 1 /\ Current(t) \in Files
    BY <1>1, CurrentFacts
  <1>4. QED
    BY <1>1, <1>2, <1>3, NoneAssumption DEF Entry, Entries

\* What an item that is done does to the jobs: its own gets the answer, and the file
\* is not due to any other.
LEMMA ItemDoneFacts ==
  ASSUME TypeOK, NEW t \in Tasks, ItemDone(t)
  PROVE  /\ task' \in [Tasks -> Task \cup {None}]
         /\ \A u \in Tasks :
              \/ task[u] = None /\ task'[u] = None
              \/ /\ task[u] # None /\ task'[u] # None
                 /\ task'[u].kind = task[u].kind /\ task'[u].try = task[u].try
                 /\ task'[u].items = task[u].items
                 /\ task'[u].results = IF u = t THEN Append(task[t].results, "ok")
                                       ELSE task[u].results
                 /\ task'[u].due = task[u].due \ {Current(t)}
                 /\ task'[u].state = task[u].state
                 /\ task[u].unsaid => task'[u].unsaid
  <1> DEFINE f == Current(t)
             old == [task EXCEPT ![t] = Answer(t, "ok")]
  <1>1. AtItem(t) /\ task[t] # None
    BY CurrentFacts DEF ItemDone
  <1>2. /\ Answer(t, "ok") \in Task /\ Answer(t, "ok") # None
        /\ Answer(t, "ok").results = Append(task[t].results, "ok")
        /\ Answer(t, "ok").kind = task[t].kind /\ Answer(t, "ok").try = task[t].try
        /\ Answer(t, "ok").due = task[t].due /\ Answer(t, "ok").items = task[t].items
        /\ Answer(t, "ok").state = task[t].state /\ Answer(t, "ok").unsaid = task[t].unsaid
    BY <1>1, AnswerFacts
  <1>3. \A u \in Tasks : old[u] = IF u = t THEN Answer(t, "ok") ELSE task[u]
    BY DEF TypeOK
  <1>4. \A u \in Tasks : /\ task[u] = None <=> old[u] = None
                         /\ task[u] # None => old[u] \in Task
    BY <1>1, <1>2, <1>3, TaskFacts
  <1> HIDE DEF old
  <1>5. task' = [u \in Tasks |-> IF old[u] = None THEN None
                                 ELSE [old[u] EXCEPT !.due = old[u].due \ {f}]]
    BY DEF ItemDone, Left, old
  <1>6. ASSUME NEW r \in Task
        PROVE  LET new == [r EXCEPT !.due = r.due \ {f}]
               IN  /\ new \in Task
                   /\ new.kind = r.kind /\ new.try = r.try /\ new.items = r.items
                   /\ new.results = r.results /\ new.due = r.due \ {f}
                   /\ new.state = r.state
                   /\ r.unsaid => new.unsaid
    BY DEF Task
  <1>7. \A u \in Tasks : task[u] # None =>
          /\ task'[u] # None /\ task'[u] \in Task
          /\ task'[u].kind = old[u].kind /\ task'[u].try = old[u].try
          /\ task'[u].items = old[u].items /\ task'[u].results = old[u].results
          /\ task'[u].due = old[u].due \ {f}
          /\ task'[u].state = old[u].state
          /\ old[u].unsaid => task'[u].unsaid
    BY <1>4, <1>5, <1>6, NoneAssumption
  <1>8. \A u \in Tasks : task[u] = None => task'[u] = None
    BY <1>4, <1>5
  <1>9. task' \in [Tasks -> Task \cup {None}]
    BY <1>5, <1>7, <1>8
  <1>10. \A u \in Tasks : task[u] # None =>
           /\ old[u].kind = task[u].kind /\ old[u].try = task[u].try
           /\ old[u].items = task[u].items /\ old[u].due = task[u].due
           /\ old[u].state = task[u].state
           /\ task[u].unsaid => old[u].unsaid
           /\ old[u].results = IF u = t THEN Append(task[t].results, "ok")
                               ELSE task[u].results
    BY <1>2, <1>3
  <1>11. QED
    BY <1>7, <1>8, <1>9, <1>10

LEMMA ItemDoneResultsInv ==
  ASSUME ResultsInv, NEW t \in Tasks, ItemDone(t)
  PROVE  ResultsInv'
  <1> DEFINE e == Entry(t, Item(t), task[t].try, Current(t))
             f == Current(t)
  <1>0. TypeOK /\ AtItem(t) /\ task[t] # None /\ f \in Files
    BY CurrentFacts DEF ResultsInv, ItemDone
  <1>1. /\ e \in Entries /\ e.task = t /\ e.task # None
        /\ e.item = Len(task[t].results) + 1 /\ e.try = task[t].try
        /\ e.try \in 1..task[t].try /\ task[t].kind # "empty"
    BY <1>0, ItemEntryFacts
  <1>2. /\ effects' = effects \cup {e}
        /\ pending' = pending \cup {e} \/ pending' = pending
        /\ place' = [place EXCEPT ![f] = task[t].to]
        /\ asset' \subseteq asset
        /\ UNCHANGED <<check, trail, faults, dropped>>
    BY DEF ItemDone, Schedule, Cascade
  <1> HIDE DEF e, f
  <1>3. /\ task' \in [Tasks -> Task \cup {None}]
        /\ \A u \in Tasks :
              \/ task[u] = None /\ task'[u] = None
              \/ /\ task[u] # None /\ task'[u] # None
                 /\ task'[u].kind = task[u].kind /\ task'[u].try = task[u].try
                 /\ task'[u].items = task[u].items
                 /\ task'[u].results = IF u = t THEN Append(task[t].results, "ok")
                                       ELSE task[u].results
                 /\ task'[u].due = task[u].due \ {f}
                 /\ task'[u].state = task[u].state
                 /\ task[u].unsaid => task'[u].unsaid
    BY <1>0, ItemDoneFacts DEF f
  <1>4. TypeOK'
    <2>1. task[t].to \in Folders \cup {"gone"}
      BY <1>0, TaskFacts
    <2>2. QED
      BY <1>0, <1>1, <1>2, <1>3, <2>1 DEF TypeOK
  <1>5. \A d \in effects : d.task # None =>
          /\ d.task \in Tasks /\ task[d.task] # None /\ d.try \in 1..task[d.task].try
    BY <1>0 DEF TypeOK, Entries, ResultsInv, EntriesOfRuns
  <1>6. EntriesOfRuns'
    BY <1>0, <1>1, <1>2, <1>3, <1>5 DEF EntriesOfRuns
  <1>7. /\ DOMAIN Append(task[t].results, "ok") = 1..(Len(task[t].results) + 1)
        /\ Append(task[t].results, "ok")[Len(task[t].results) + 1] = "ok"
        /\ \A n \in DOMAIN task[t].results :
             /\ n \in DOMAIN Append(task[t].results, "ok")
             /\ Append(task[t].results, "ok")[n] = task[t].results[n]
        /\ \A n \in DOMAIN Append(task[t].results, "ok") :
             n # Len(task[t].results) + 1 => n \in DOMAIN task[t].results
        /\ Len(task[t].results) + 1 \in DOMAIN Append(task[t].results, "ok")
    <2>1. task[t].results \in Seq({"ok", "file_not_found", "internal_error"})
      BY <1>0, TaskFacts
    <2>2. QED
      BY <2>1
  <1>8. DoneIsReported'
    <2> SUFFICES ASSUME NEW d \in effects', d.task # None, task'[d.task].kind # "empty",
                        d.try = task'[d.task].try
                 PROVE  /\ d.item \in DOMAIN task'[d.task].results
                        /\ task'[d.task].results[d.item] = "ok"
      BY DEF DoneIsReported
    <2>1. CASE d = e
      BY <1>0, <1>1, <1>3, <1>7, <2>1
    <2>2. CASE d \in effects
      <3>1. /\ d.task \in Tasks /\ task[d.task].kind # "empty" /\ d.try = task[d.task].try
        BY <1>3, <1>5, <2>2
      <3>2. d.item \in DOMAIN task[d.task].results /\ task[d.task].results[d.item] = "ok"
        BY <2>2, <3>1 DEF ResultsInv, DoneIsReported
      <3>3. QED
        BY <1>3, <1>5, <1>7, <2>2, <3>2
    <2>3. QED
      BY <1>2, <2>1, <2>2
  <1>9. ReportedIsDone'
    <2> SUFFICES ASSUME NEW u \in Tasks, task'[u] # None,
                        NEW n \in DOMAIN task'[u].results, task'[u].results[n] = "ok"
                 PROVE  \E d \in effects' : d.task = u /\ d.item = n /\ d.try = task'[u].try
      BY DEF ReportedIsDone
    <2>1. CASE u = t /\ n = Len(task[t].results) + 1
      BY <1>0, <1>1, <1>2, <1>3, <2>1
    <2>2. CASE ~(u = t /\ n = Len(task[t].results) + 1)
      <3>1. n \in DOMAIN task[u].results /\ task[u].results[n] = "ok" /\ task[u] # None
        BY <1>3, <1>7, <2>2
      <3>2. QED
        BY <1>2, <1>3, <3>1 DEF ResultsInv, ReportedIsDone
    <2>3. QED
      BY <2>1, <2>2
  <1>10. JobsKept'
    <2> SUFFICES ASSUME NEW u \in Tasks, task'[u] # None
                 PROVE  /\ task'[u].state = "running" => task'[u].try > 0
                        /\ \A g \in task'[u].due : place'[g] = "trash"
                        /\ task'[u].kind # "empty" => task'[u].due = {}
                        /\ task'[u].kind = "empty" =>
                             task'[u].items = <<>> /\ task'[u].results = <<>>
                        /\ task'[u].state = "complete" /\ task'[u].due # {} => task'[u].unsaid
      BY DEF JobsKept
    <2>1. /\ task[u] # None /\ task[u].due \subseteq Files
          /\ task'[u].kind = task[u].kind /\ task'[u].try = task[u].try
          /\ task'[u].items = task[u].items /\ task'[u].due = task[u].due \ {f}
          /\ task'[u].state = task[u].state
          /\ task[u].unsaid => task'[u].unsaid
          /\ task[u].kind = "empty" => task'[u].results = task[u].results
      BY <1>0, <1>1, <1>3, TaskFacts
    <2>2. \A g \in Files : g # f => place'[g] = place[g]
      BY <1>0, <1>2 DEF TypeOK
    <2>3. QED
      BY <2>1, <2>2 DEF ResultsInv, JobsKept
  <1>11. QED
    BY <1>4, <1>6, <1>8, <1>9, <1>10 DEF ResultsInv

\* An item that is refused or fails.
LEMMA NotDoneResultsInv ==
  ASSUME ResultsInv, TypeOK', NEW t \in Tasks, AtItem(t),
         NEW r \in {"file_not_found", "internal_error"},
         task' = [task EXCEPT ![t] = Answer(t, r)], UNCHANGED <<place, effects>>
  PROVE  ResultsInv'
  <1> DEFINE new == Answer(t, r)
             was == task[t].results
  <1>0. TypeOK /\ task[t] # None /\ task[t].kind # "empty"
    BY CurrentFacts, ItemEntryFacts DEF ResultsInv
  <1>1. /\ new # None /\ new.results = Append(was, r)
        /\ new.kind = task[t].kind /\ new.try = task[t].try
        /\ new.due = task[t].due /\ new.items = task[t].items
        /\ new.state = task[t].state /\ new.unsaid = task[t].unsaid
    BY <1>0, AnswerFacts
  <1>2. was \in Seq({"ok", "file_not_found", "internal_error"})
    BY <1>0, TaskFacts
  <1> HIDE DEF new, was
  <1>3. /\ \A n \in DOMAIN was : n \in DOMAIN Append(was, r) /\ Append(was, r)[n] = was[n]
        /\ \A n \in DOMAIN Append(was, r) : Append(was, r)[n] = "ok" =>
             n \in DOMAIN was /\ was[n] = "ok"
    BY <1>2
  <1>4. \A u \in Tasks : task'[u] = IF u = t THEN new ELSE task[u]
    BY <1>0 DEF TypeOK, new
  <1>5. \A d \in effects : d.task # None => d.task \in Tasks
    BY <1>0 DEF TypeOK, Entries
  <1>6. EntriesOfRuns'
    BY <1>0, <1>1, <1>4, <1>5 DEF ResultsInv, EntriesOfRuns
  <1>7. DoneIsReported'
    BY <1>0, <1>1, <1>3, <1>4, <1>5 DEF ResultsInv, DoneIsReported, was
  <1>8. ReportedIsDone'
    BY <1>0, <1>1, <1>3, <1>4 DEF ResultsInv, ReportedIsDone, was
  <1>9. JobsKept'
    BY <1>0, <1>1, <1>4 DEF ResultsInv, JobsKept
  <1>10. QED
    BY <1>6, <1>7, <1>8, <1>9 DEF ResultsInv

\* An emptying takes all of Trash: nothing is due any longer.
LEMMA EmptyTrashFacts ==
  ASSUME ResultsInv, NEW t \in Tasks, EmptyTrash(t)
  PROVE  /\ task[t] # None /\ task[t].kind = "empty" /\ task[t].state = "running"
         /\ task' \in [Tasks -> Task \cup {None}]
         /\ \A u \in Tasks :
              \/ task[u] = None /\ task'[u] = None
              \/ /\ task[u] # None /\ task'[u] # None
                 /\ task'[u].kind = task[u].kind /\ task'[u].try = task[u].try
                 /\ task'[u].items = task[u].items /\ task'[u].results = task[u].results
                 /\ task'[u].due = {}
                 /\ task'[u].state = IF u = t THEN "complete" ELSE task[u].state
  <1> DEFINE inTrash == {f \in Files : place[f] = "trash"}
             New(u) == [task[u] EXCEPT !.due = task[u].due \ inTrash,
                                       !.state = IF u = t THEN "complete" ELSE task[u].state]
  <1>0. TypeOK /\ task[t] # None /\ task[t].kind = "empty" /\ task[t].state = "running"
    BY DEF ResultsInv, EmptyTrash, Is
  <1>1. task' = [u \in Tasks |-> IF task[u] = None THEN None ELSE New(u)]
    BY DEF EmptyTrash
  <1>2. ASSUME NEW u \in Tasks, task[u] # None
        PROVE  /\ New(u) \in Task /\ New(u) # None
               /\ New(u).kind = task[u].kind /\ New(u).try = task[u].try
               /\ New(u).items = task[u].items /\ New(u).results = task[u].results
               /\ New(u).due = {}
               /\ New(u).state = IF u = t THEN "complete" ELSE task[u].state
    <2>1. task[u] \in Task /\ task[u].due \subseteq Files
      BY <1>0, <1>2, TaskFacts
    <2>2. New(u) \in Task
      BY <2>1 DEF Task
    <2>3. task[u].due \ inTrash = {}
      BY <1>2, <2>1 DEF ResultsInv, JobsKept
    <2>4. New(u) # None
      BY <2>2, NoneAssumption
    <2>5. QED
      BY <2>1, <2>2, <2>3, <2>4 DEF Task
  <1> HIDE DEF New
  <1>3. task' \in [Tasks -> Task \cup {None}]
    BY <1>1, <1>2
  <1>4. QED
    BY <1>0, <1>1, <1>2, <1>3

LEMMA EmptyTrashResultsInv ==
  ASSUME ResultsInv, NEW t \in Tasks, EmptyTrash(t)
  PROVE  ResultsInv'
  <1> DEFINE e == Entry(t, 1, task[t].try, None)
  <1>1. /\ task[t] # None /\ task[t].kind = "empty" /\ task[t].state = "running"
        /\ task' \in [Tasks -> Task \cup {None}]
        /\ \A u \in Tasks :
              \/ task[u] = None /\ task'[u] = None
              \/ /\ task[u] # None /\ task'[u] # None
                 /\ task'[u].kind = task[u].kind /\ task'[u].try = task[u].try
                 /\ task'[u].items = task[u].items /\ task'[u].results = task[u].results
                 /\ task'[u].due = {}
                 /\ task'[u].state = IF u = t THEN "complete" ELSE task[u].state
    BY EmptyTrashFacts
  <1>2. TypeOK /\ task[t].try \in Nat /\ task[t].try \in 1..task[t].try
    <2>1. TypeOK /\ task[t].try \in Nat /\ task[t].try > 0
      BY <1>1, TaskFacts DEF ResultsInv, JobsKept
    <2>2. QED
      BY <2>1
  <1>3. e \in Entries /\ e.task = t /\ e.task # None /\ e.try = task[t].try
    BY <1>2, NoneAssumption DEF Entry, Entries
  <1>4. /\ effects' = effects \cup {e} /\ pending' = pending \cup {e}
        /\ place' \in [Files -> Folders \cup {"new", "gone"}]
        /\ asset' \subseteq asset
        /\ UNCHANGED <<check, trail, faults, dropped>>
    BY <1>2 DEF EmptyTrash, Schedule, Cascade, TypeOK
  <1> HIDE DEF e
  <1>5. TypeOK'
    BY <1>1, <1>2, <1>3, <1>4 DEF TypeOK
  <1>6. \A d \in effects : d.task # None =>
          /\ d.task \in Tasks /\ task[d.task] # None /\ d.try \in 1..task[d.task].try
    BY <1>2 DEF TypeOK, Entries, ResultsInv, EntriesOfRuns
  <1>7. EntriesOfRuns'
    BY <1>1, <1>2, <1>3, <1>4, <1>6 DEF EntriesOfRuns
  <1>8. DoneIsReported'
    BY <1>1, <1>3, <1>4, <1>6 DEF ResultsInv, DoneIsReported
  <1>9. ReportedIsDone'
    BY <1>1, <1>4 DEF ResultsInv, ReportedIsDone
  <1>10. JobsKept'
    BY <1>1 DEF ResultsInv, JobsKept
  <1>11. QED
    BY <1>5, <1>7, <1>8, <1>9, <1>10 DEF ResultsInv

LEMMA AddFileResultsInv ==
  ASSUME ResultsInv, NEW f \in Files, AddFile(f)
  PROVE  ResultsInv'
  <1> DEFINE e == Entry(None, 0, 0, f)
  <1>1. e \in Entries /\ e.task = None
    BY DEF Entry, Entries
  <1>2. /\ effects' = effects \cup {e} /\ pending' = pending \cup {e}
        /\ place[f] = "new" /\ place' = [place EXCEPT ![f] = "home"]
        /\ UNCHANGED <<task, check, trail, asset, faults, dropped>>
    BY DEF AddFile, Schedule
  <1> HIDE DEF e
  <1>3. TypeOK'
    BY <1>1, <1>2 DEF ResultsInv, TypeOK, Folders
  <1>4. EntriesOfRuns' /\ DoneIsReported' /\ ReportedIsDone'
    BY <1>1, <1>2 DEF ResultsInv, EntriesOfRuns, DoneIsReported, ReportedIsDone
  <1>5. JobsKept'
    <2>1. \A u \in Tasks : task[u] # None => \A g \in task[u].due : g \in Files /\ g # f
      BY <1>2, TaskFacts DEF ResultsInv, JobsKept
    <2>2. \A g \in Files \ {f} : place'[g] = place[g]
      BY <1>2 DEF ResultsInv, TypeOK
    <2>3. QED
      BY <1>2, <2>1, <2>2 DEF ResultsInv, JobsKept
  <1>6. QED
    BY <1>3, <1>4, <1>5 DEF ResultsInv

-----------------------------------------------------------------------------

\* A step that writes no entry keeps the audit trail true if files that are gone
\* stay so, asset rows go only with their file, and what it does is scheduled to be
\* written or is the deletion of one file.
LEMMA UnwrittenAudit ==
  ASSUME AuditInv, effects \subseteq effects', pending' \subseteq effects', trail' = trail,
         \A u \in Tasks : task[u] # None => task'[u].kind = task[u].kind,
         \A f \in Files : place[f] = "gone" => place'[f] = "gone",
         asset' \subseteq asset,
         \A e \in asset \ asset' : e.file \in Files /\ place'[e.file] = "gone",
         \A e \in effects' \ (pending' \cup dropped') :
            \/ e \in effects \ (pending \cup dropped)
            \/ e.task # None /\ task'[e.task].kind = "delete"
  PROVE  (pending \subseteq effects)' /\ AuditKnown'
  <1>1. TypeOK
    BY DEF AuditInv, ResultsInv
  <1>2. ASSUME NEW e \in effects \ (pending \cup dropped)
        PROVE  \/ e.task # None /\ task'[e.task].kind = "delete"
               \/ /\ e \in trail
                  /\ e.file # None /\ place'[e.file] # "gone" => e \in asset'
    <2>1. e.task \in Tasks \cup {None} /\ e.file \in Files \cup {None}
      BY <1>1 DEF TypeOK, Entries
    <2>2. e.task # None => task[e.task] # None
      BY DEF AuditInv, ResultsInv, EntriesOfRuns
    <2>3. \/ e.task # None /\ task[e.task].kind = "delete"
          \/ e \in trail /\ (e.file # None /\ place[e.file] # "gone" => e \in asset)
      BY DEF AuditInv, AuditKnown, Exists
    <2>4. QED
      BY <2>1, <2>2, <2>3
  <1>3. trail' \subseteq effects' /\ asset' \subseteq trail'
    BY DEF AuditInv, AuditKnown
  <1>4. QED
    BY <1>2, <1>3 DEF AuditKnown, Exists

\* The steps of AuditTrailRepository.save.
LEMMA SaveAudit ==
  ASSUME AuditInv, NEW e \in pending, SaveTrail(e) \/ SaveAsset(e) \/ SaveFails(e)
  PROVE  TypeOK' /\ UNCHANGED <<place, task, effects>>
         /\ (pending \subseteq effects)' /\ AuditKnown'
  <1>1. CASE SaveTrail(e)
    BY <1>1 DEF SaveTrail, AuditInv, ResultsInv, TypeOK, AuditKnown, Exists
  <1>2. CASE SaveAsset(e)
    BY <1>2 DEF SaveAsset, AuditInv, ResultsInv, TypeOK, AuditKnown, Exists
  <1>3. CASE SaveFails(e)
    BY <1>3 DEF SaveFails, Fault, AuditInv, ResultsInv, TypeOK, AuditKnown, Exists
  <1>4. QED
    BY <1>1, <1>2, <1>3

LEMMA AddFileAudit ==
  ASSUME AuditInv, NEW f \in Files, AddFile(f)
  PROVE  (pending \subseteq effects)' /\ AuditKnown'
  <1>1. PICK e : effects' = effects \cup {e} /\ pending' = pending \cup {e}
    BY DEF AddFile, Schedule
  <1>2. \A g \in Files : place[g] = "gone" => place'[g] = "gone"
    BY DEF AddFile, AuditInv, ResultsInv, TypeOK
  <1>3. UNCHANGED <<task, trail, asset, dropped>>
    BY DEF AddFile
  <1>4. pending' \subseteq effects'
    BY <1>1 DEF AuditInv
  <1>5. QED
    BY <1>1, <1>2, <1>3, <1>4, UnwrittenAudit

LEMMA ItemDoneAudit ==
  ASSUME AuditInv, NEW t \in Tasks, ItemDone(t)
  PROVE  (pending \subseteq effects)' /\ AuditKnown'
  <1> DEFINE e == Entry(t, Item(t), task[t].try, Current(t))
             f == Current(t)
  <1>0. ResultsInv /\ TypeOK /\ AtItem(t) /\ task[t] # None /\ f \in Files
    BY CurrentFacts DEF AuditInv, ResultsInv, ItemDone
  <1>1. e.task = t /\ e.task # None
    BY <1>0, ItemEntryFacts
  <1>2. /\ effects' = effects \cup {e} /\ trail' = trail /\ dropped' = dropped
        /\ \/ task[t].kind = "delete" /\ pending' = pending
           \/ pending' = pending \cup {e}
        /\ place[f] = task[t].from /\ place' = [place EXCEPT ![f] = task[t].to]
        /\ asset' = {d \in asset : d.file \notin {f} \cap {g \in Files : task[t].to = "gone"}}
    BY DEF ItemDone, Schedule, Cascade
  <1> HIDE DEF e, f
  <1>3. \A u \in Tasks : task[u] # None => task'[u].kind = task[u].kind
    BY <1>0, ItemDoneFacts
  <1>4. \A g \in Files : place[g] = "gone" => place'[g] = "gone"
    <2>1. place[f] # "gone"
      BY <1>0, <1>2, TaskFacts DEF Folders
    <2>2. QED
      BY <1>0, <1>2, <2>1 DEF TypeOK
  <1>5. \A d \in asset \ asset' : d.file \in Files /\ place'[d.file] = "gone"
    BY <1>0, <1>2 DEF TypeOK
  <1>6. pending' \subseteq effects'
    BY <1>2 DEF AuditInv
  <1>7. \A d \in effects' \ (pending' \cup dropped') :
            \/ d \in effects \ (pending \cup dropped)
            \/ d.task # None /\ task'[d.task].kind = "delete"
    BY <1>0, <1>1, <1>2, <1>3
  <1>8. asset' \subseteq asset /\ effects \subseteq effects'
    BY <1>2
  <1>9. QED
    BY <1>2, <1>3, <1>4, <1>5, <1>6, <1>7, <1>8, UnwrittenAudit

LEMMA EmptyTrashAudit ==
  ASSUME AuditInv, NEW t \in Tasks, EmptyTrash(t)
  PROVE  (pending \subseteq effects)' /\ AuditKnown'
  <1> DEFINE inTrash == {f \in Files : place[f] = "trash"}
  <1>0. ResultsInv /\ TypeOK
    BY DEF AuditInv, ResultsInv
  <1>1. PICK e : effects' = effects \cup {e} /\ pending' = pending \cup {e}
    BY DEF EmptyTrash, Schedule
  <1>2. /\ place' = [f \in Files |-> IF f \in inTrash THEN "gone" ELSE place[f]]
        /\ asset' = {d \in asset : d.file \notin inTrash}
        /\ UNCHANGED <<trail, dropped>>
    BY DEF EmptyTrash, Cascade
  <1>3. \A u \in Tasks : task[u] # None => task'[u].kind = task[u].kind
    BY <1>0, EmptyTrashFacts
  <1>4. \A g \in Files : place[g] = "gone" => place'[g] = "gone"
    BY <1>2
  <1>5. \A d \in asset \ asset' : d.file \in Files /\ place'[d.file] = "gone"
    BY <1>2
  <1>6. pending' \subseteq effects' /\ asset' \subseteq asset
    BY <1>1, <1>2 DEF AuditInv
  <1>7. QED
    BY <1>1, <1>2, <1>3, <1>4, <1>5, <1>6, UnwrittenAudit

\* The steps of which the audit trail learns nothing, but that some of its entries
\* are dropped.
LEMMA QuietAudit ==
  ASSUME AuditInv, UNCHANGED <<place, trail, asset, effects>>,
         \A u \in Tasks : task[u] # None => task'[u].kind = task[u].kind,
         pending' \subseteq pending, dropped' = dropped \cup (pending \ pending')
  PROVE  (pending \subseteq effects)' /\ AuditKnown'
  <1>1. pending' \subseteq effects'
    BY DEF AuditInv
  <1>2. \A e \in effects' \ (pending' \cup dropped') : e \in effects \ (pending \cup dropped)
    OBVIOUS
  <1>3. QED
    BY <1>1, <1>2, UnwrittenAudit

\* The invariant is kept by every step.
LEMMA NextAuditInv ==
  ASSUME AuditInv, [Next]_vars
  PROVE  AuditInv'
  <1> DEFINE Goal == ResultsInv' /\ (pending \subseteq effects)' /\ AuditKnown'
  <1>0. ResultsInv /\ TypeOK
    BY DEF AuditInv, ResultsInv
  <1>1. CASE UNCHANGED vars
    <2>1. TypeOK'
      BY <1>0, <1>1 DEF vars, TypeOK
    <2>2. ResultsInv'
      BY <1>0, <1>1, <2>1, QuietResultsInv DEF vars
    <2>3. QED
      BY <1>1, <2>2, QuietAudit DEF vars, AuditInv
  <1>2. ASSUME NEW f \in Files, AddFile(f) PROVE Goal
    BY <1>0, <1>2, AddFileResultsInv, AddFileAudit
  <1>3. ASSUME NEW t \in Tasks, EnqueueEmptyTrash(t) \/ \E o \in Orders : EnqueueBatch(t, o)
        PROVE  Goal
    <2>1. \E new \in Task :
            /\ task[t] = None /\ task' = [task EXCEPT ![t] = new]
            /\ UNCHANGED <<place, pending, trail, asset, faults, effects, dropped>>
      BY <1>0, <1>3, EnqueueFacts
    <2>2. \A u \in Tasks : task[u] # None => task'[u] = task[u]
      BY <1>0, <2>1 DEF TypeOK
    <2>3. QED
      BY <1>0, <1>3, <2>1, <2>2, EnqueueResultsInv, QuietAudit
  <1>4. ASSUME NEW t \in Tasks, Start(t) PROVE Goal
    <2>1. UNCHANGED <<place, pending, trail, asset, effects, dropped>>
      BY <1>4 DEF Start
    <2>2. QED
      BY <1>0, <1>4, <2>1, StartResultsInv, QuietAudit
  <1>5. ASSUME NEW t \in Tasks, ItemDone(t) PROVE Goal
    BY <1>0, <1>5, ItemDoneResultsInv, ItemDoneAudit
  <1>6. ASSUME NEW t \in Tasks, ItemRefused(t) \/ ItemFails(t) PROVE Goal
    <2>1. PICK r \in {"file_not_found", "internal_error"} :
            /\ AtItem(t) /\ task' = [task EXCEPT ![t] = Answer(t, r)] /\ faults' \in Nat
            /\ UNCHANGED <<place, check, pending, trail, asset, effects, dropped>>
      BY <1>0, <1>6 DEF ItemRefused, ItemFails, Fault, TypeOK
    <2>2. /\ Answer(t, r) \in Task /\ Answer(t, r).kind = task[t].kind
      BY <1>0, <2>1, AnswerFacts
    <2>3. TypeOK'
      BY <1>0, <2>1, <2>2 DEF TypeOK
    <2>4. \A u \in Tasks : task'[u].kind = task[u].kind
      BY <1>0, <2>1, <2>2 DEF TypeOK
    <2>5. ResultsInv'
      BY <1>0, <2>1, <2>3, NotDoneResultsInv
    <2>6. QED
      BY <2>1, <2>4, <2>5, QuietAudit
  <1>7. ASSUME NEW t \in Tasks, EmptyTrash(t) PROVE Goal
    BY <1>0, <1>7, EmptyTrashResultsInv, EmptyTrashAudit
  <1>8. ASSUME \/ WorkerDies
               \/ \E t \in Tasks : Finish(t) \/ EmptyTrashFails(t) \/ Timeout(t) \/ Expire(t)
        PROVE  Goal
    <2>1. /\ Turned /\ task' \in [Tasks -> Task \cup {None}]
          /\ UNCHANGED <<place, check, trail, asset, effects>>
          /\ pending' \subseteq pending /\ dropped' = dropped \cup (pending \ pending')
          /\ faults' \in Nat
      BY <1>0, <1>8, TurnedFacts
    <2>2. TypeOK'
      BY <1>0, <2>1 DEF TypeOK
    <2>3. \A u \in Tasks : task[u] # None => task'[u].kind = task[u].kind
      BY <2>1 DEF Turned
    <2>4. ResultsInv'
      BY <1>0, <2>1, <2>2, TurnedResultsInv
    <2>5. QED
      BY <2>1, <2>3, <2>4, QuietAudit
  <1>9. ASSUME ServerDies \/ \E t \in Tasks : CheckStatus(t) \/ CheckResult(t)
        PROVE  Goal
    <2>1. /\ TypeOK' /\ UNCHANGED <<place, task, trail, asset, effects>>
          /\ pending' \subseteq pending /\ dropped' = dropped \cup (pending \ pending')
      <3>1. CASE ServerDies
        BY <1>0, <3>1 DEF ServerDies, Fault, TypeOK
      <3>2. ASSUME NEW t \in Tasks, CheckStatus(t) \/ CheckResult(t)
            PROVE  TypeOK' /\ UNCHANGED <<place, task, pending, trail, asset, effects, dropped>>
        BY <1>0, <3>2 DEF CheckStatus, CheckResult, TypeOK
      <3>3. QED
        BY <1>9, <3>1, <3>2
    <2>2. QED
      BY <1>0, <2>1, QuietResultsInv, QuietAudit
  <1>10. ASSUME NEW e \in pending, SaveTrail(e) \/ SaveAsset(e) \/ SaveFails(e)
         PROVE  Goal
    BY <1>0, <1>10, SaveAudit, QuietResultsInv
  <1>11. Next => Goal
    BY <1>2, <1>3, <1>4, <1>5, <1>6, <1>7, <1>8, <1>9, <1>10 DEF Next, Worker, Client
  <1>12. QED
    BY <1>1, <1>11 DEF AuditInv

LEMMA Invariance == Spec => []AuditInv
  <1>1. AuditInv /\ [Next]_vars => AuditInv'
    BY NextAuditInv
  <1>2. QED
    BY InitAuditInv, <1>1, PTL DEF Spec

\* Jobs, entries and files stay well typed.
THEOREM TypeCorrect == Spec => []TypeOK
  <1>1. AuditInv => TypeOK
    BY DEF AuditInv, ResultsInv
  <1>2. QED
    BY Invariance, <1>1, PTL

\* However often the worker dies and a batch is run again, what the check endpoints
\* tell a client of its batch is so (move_batch and its siblings, ARQWorker).
THEOREM ResultsAreTrue == Spec => []ResultsTrue
  <1>1. AuditInv => ResultsTrue
    <2> SUFFICES ASSUME AuditInv, NEW t \in Tasks, Is(t, "complete")
                 PROVE  /\ \A n \in DOMAIN task[t].results :
                             /\ task[t].results[n] = "ok" =>
                                  \E e \in Did(t, n) : e.try = task[t].try
                             /\ task[t].results[n] # "ok" /\ Did(t, n) # {} => task[t].try > 1
                        /\ task[t].due # {} => task[t].unsaid
      BY DEF ResultsTrue
    <2>0. ResultsInv /\ TypeOK /\ task[t] # None /\ task[t].state = "complete"
      BY DEF AuditInv, ResultsInv, Is
    <2>1. task[t].due # {} => task[t].unsaid
      BY <2>0 DEF ResultsInv, JobsKept
    <2>2. ASSUME NEW n \in DOMAIN task[t].results, task[t].results[n] = "ok"
          PROVE  \E e \in Did(t, n) : e.try = task[t].try
      BY <2>0, <2>2 DEF ResultsInv, ReportedIsDone, Did
    <2>3. ASSUME NEW n \in DOMAIN task[t].results, task[t].results[n] # "ok",
                 NEW e \in Did(t, n)
          PROVE  task[t].try > 1
      <3>1. e \in effects /\ e.task = t /\ e.task # None /\ e.item = n
        BY NoneAssumption DEF Did
      <3>2. e.try \in 1..task[t].try /\ task[t].try \in Nat
        BY <2>0, <3>1, TaskFacts DEF ResultsInv, EntriesOfRuns
      <3>3. task[t].kind # "empty"
        <4> SUFFICES ASSUME task[t].results = <<>> PROVE FALSE
          BY <2>0 DEF ResultsInv, JobsKept
        <4>1. QED
          BY <2>3
      <3>4. e.try # task[t].try
        BY <2>0, <2>3, <3>1, <3>3 DEF ResultsInv, DoneIsReported
      <3>5. QED
        BY <3>2, <3>4
    <2>4. QED
      BY <2>1, <2>2, <2>3
  <1>2. QED
    BY Invariance, <1>1, PTL

\* The audit trail says nothing that was not done, and leaves out only deletions of
\* single files, entries under way and entries that died with their process
\* (AuditTrailService, AuditTrailRepository.save).
THEOREM AuditIsKnown == Spec => []AuditKnown
  <1>1. AuditInv => AuditKnown
    BY DEF AuditInv
  <1>2. QED
    BY Invariance, <1>1, PTL
=============================================================================
