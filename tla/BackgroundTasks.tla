-------------------------- MODULE BackgroundTasks ---------------------------
(***************************************************************************)
(* Batches of files that the worker moves, trashes or deletes, the client  *)
(* that asks for the result, and the audit trail, whose entries are        *)
(* written in the background of the process that did the work.             *)
(*                                                                         *)
(* arq is external: a job that was running when its worker died is run     *)
(* again from its beginning, at most MaxTries times; one that takes too    *)
(* long is cancelled and failed; a result is kept for a while. What a move *)
(* or a deletion does step by step is the subject of FileTree and          *)
(* FileBlobs; here it is one step.                                         *)
(***************************************************************************)
EXTENDS Naturals, FiniteSets, Sequences

CONSTANTS
    Files, None,
    Placed,       \* the places files may have at first
    Orders,       \* the batches clients ask for, as the request models accept them
    MaxTasks,     \* bound on the batches
    MaxTries,     \* arq's max_tries
    MaxFaults     \* bound on deaths of processes, unexpected failures and timeouts

Folders == {"home", "other", "trash"}
Tasks == 1..MaxTasks

\* What the request models let through: nothing is moved into Trash by move_batch
\* or trashed again.
Accepted(kind, from, to) ==
    \/ kind = "move" /\ to \in Folders \ {"trash"} /\ from \in Folders \ {to}
    \/ kind = "trash" /\ from \in Folders \ {"trash"} /\ to = "trash"
    \/ kind = "delete" /\ from \in Folders /\ to = "gone"

ASSUME OrdersAssumption ==
    \A o \in Orders : Accepted(o.kind, o.from, o.to) /\ o.items \in Seq(Files)
ASSUME PlacedAssumption == Placed \subseteq [Files -> Folders \cup {"new", "gone"}]
ASSUME BoundsAssumption == {MaxTasks, MaxTries, MaxFaults} \subseteq Nat

Task ==
    [kind : {"move", "trash", "delete", "empty"}, from : Folders, to : Folders \cup {"gone"},
     items : Seq(Files), state : {"queued", "running", "complete", "failed", "expired"},
     try : Nat, results : Seq({"ok", "file_not_found", "internal_error"}),
     unsaid : BOOLEAN, due : SUBSET Files]

ASSUME NoneAssumption == None \notin Task \cup Tasks \cup Files

VARIABLES
    place,     \* place[f]: the folder of a file; "new": not uploaded yet; "gone"
    task,      \* task[t]: a job as arq keeps it
    check,     \* check[t]: what the client knows of t
    pending,   \* audit entries that are still to be written
    trail,     \* rows of AuditTrail
    asset,     \* rows of AuditTrailAsset
    faults,
    \* What the properties speak about.
    effects,   \* what was really done, as the audit entries name it
    dropped    \* entries that died with their process or whose writing failed

vars == <<place, task, check, pending, trail, asset, faults, effects, dropped>>

Fault == faults < MaxFaults /\ faults' = faults + 1

\* An entry: who did it (None: a request of its own), which item of which try, and
\* the file the entry names.
Entry(t, n, try, f) == [task |-> t, item |-> n, try |-> try, file |-> f]

Init ==
    /\ place \in Placed
    /\ task = [t \in Tasks |-> None]
    /\ check = [t \in Tasks |-> None]
    /\ pending = {} /\ trail = {} /\ asset = {}
    /\ faults = 0
    /\ effects = {} /\ dropped = {}

\* taskgroups.schedule: the entry is written after the answer.
Schedule(e) == pending' = pending \cup {e} /\ effects' = effects \cup {e}

-----------------------------------------------------------------------------
(* Requests                                                                *)

\* add_file and create_folder.
AddFile(f) ==
    /\ place[f] = "new"
    /\ place' = [place EXCEPT ![f] = "home"]
    /\ Schedule(Entry(None, 0, 0, f))
    /\ UNCHANGED <<task, check, trail, asset, faults, dropped>>

Enqueued(kind, from, to, items) ==
    [kind |-> kind, from |-> from, to |-> to, items |-> items, state |-> "queued",
     try |-> 0, results |-> <<>>, unsaid |-> FALSE,
     due |-> {f \in Files : kind = "empty" /\ place[f] = "trash"}]

\* The id of the next job.
IsNext(t) == task[t] = None /\ \A u \in 1..(t - 1) : task[u] # None

\* move_batch, move_to_trash_batch and delete_immediately_batch.
EnqueueBatch(t, o) ==
    /\ IsNext(t)
    /\ task' = [task EXCEPT ![t] = Enqueued(o.kind, o.from, o.to, o.items)]
    /\ check' = [check EXCEPT ![t] = "pending"]
    /\ UNCHANGED <<place, pending, trail, asset, faults, effects, dropped>>

EnqueueEmptyTrash(t) ==
    /\ IsNext(t)
    /\ task' = [task EXCEPT ![t] = Enqueued("empty", "trash", "gone", <<>>)]
    /\ check' = [check EXCEPT ![t] = "pending"]
    /\ UNCHANGED <<place, pending, trail, asset, faults, effects, dropped>>

-----------------------------------------------------------------------------
(* The worker                                                              *)

Is(t, state) == task[t] # None /\ task[t].state = state

\* A run of the job, from its beginning, or the end of its tries.
Start(t) ==
    /\ Is(t, "queued")
    /\ task' = [task EXCEPT ![t] =
                  IF task[t].try < MaxTries
                  THEN [task[t] EXCEPT !.state = "running", !.try = task[t].try + 1,
                                       !.results = <<>>]
                  ELSE [task[t] EXCEPT !.state = "failed"]]
    /\ UNCHANGED <<place, check, pending, trail, asset, faults, effects, dropped>>

\* The item the run of t is at.
Item(t) == Len(task[t].results) + 1
AtItem(t) == Is(t, "running") /\ Item(t) <= Len(task[t].items)
Current(t) == task[t].items[Item(t)]
Answer(t, r) == [task[t] EXCEPT !.results = Append(@, r)]

\* A file that leaves Trash is not due to an emptying any longer.
Left(tasks, f) == [u \in Tasks |-> IF tasks[u] = None THEN None
                                   ELSE [tasks[u] EXCEPT !.due = @ \ {f}]]

\* The asset rows go with the file, the entry stays.
Cascade(gone) == asset' = {e \in asset : e.file \notin gone}

\* move_item, move_item_to_trash or delete_item; a deletion has no entry.
ItemDone(t) ==
    /\ AtItem(t) /\ place[Current(t)] = task[t].from
    /\ place' = [place EXCEPT ![Current(t)] = task[t].to]
    /\ task' = Left([task EXCEPT ![t] = Answer(t, "ok")], Current(t))
    /\ LET e == Entry(t, Item(t), task[t].try, Current(t))
       IN  IF task[t].kind = "delete"
           THEN effects' = effects \cup {e} /\ UNCHANGED pending
           ELSE Schedule(e)
    /\ Cascade({Current(t)} \cap {f \in Files : task[t].to = "gone"})
    /\ UNCHANGED <<check, trail, faults, dropped>>

\* A mutant of ItemRefused: the entry is scheduled before the move is tried.
ItemRefusedAudited(t) ==
    /\ AtItem(t) /\ place[Current(t)] # task[t].from
    /\ task' = [task EXCEPT ![t] = Answer(t, "file_not_found")]
    /\ pending' = pending \cup {Entry(t, Item(t), task[t].try, Current(t))}
    /\ UNCHANGED <<place, check, trail, asset, faults, effects, dropped>>

ItemRefused(t) ==
    /\ AtItem(t) /\ place[Current(t)] # task[t].from
    /\ task' = [task EXCEPT ![t] = Answer(t, "file_not_found")]
    /\ UNCHANGED <<place, check, pending, trail, asset, faults, effects, dropped>>

\* A mutant of ItemFails: the error is logged and not told.
ItemFailsSilently(t) ==
    /\ AtItem(t) /\ Fault
    /\ task' = [task EXCEPT ![t] = Answer(t, "ok")]
    /\ UNCHANGED <<place, check, pending, trail, asset, effects, dropped>>

\* Any other exception: the batch goes on with the next item.
ItemFails(t) ==
    /\ AtItem(t) /\ Fault
    /\ task' = [task EXCEPT ![t] = Answer(t, "internal_error")]
    /\ UNCHANGED <<place, check, pending, trail, asset, effects, dropped>>

\* The batch returns its results.
Finish(t) ==
    /\ Is(t, "running") /\ task[t].kind # "empty"
    /\ Item(t) > Len(task[t].items)
    /\ task' = [task EXCEPT ![t].state = "complete"]
    /\ UNCHANGED <<place, check, pending, trail, asset, faults, effects, dropped>>

EmptyTrash(t) ==
    LET inTrash == {f \in Files : place[f] = "trash"}
    IN  /\ Is(t, "running") /\ task[t].kind = "empty"
        /\ place' = [f \in Files |-> IF f \in inTrash THEN "gone" ELSE place[f]]
        /\ task' = [u \in Tasks |-> IF task[u] = None THEN None
                                    ELSE [task[u] EXCEPT !.due = @ \ inTrash,
                                            !.state = IF u = t THEN "complete" ELSE @]]
        /\ Schedule(Entry(t, 1, task[t].try, None))
        /\ Cascade(inTrash)
        /\ UNCHANGED <<check, trail, faults, dropped>>

\* empty_trash logs what went wrong and returns as if nothing had.
EmptyTrashFails(t) ==
    /\ Is(t, "running") /\ task[t].kind = "empty" /\ Fault
    /\ task' = [task EXCEPT ![t].state = "complete", ![t].unsaid = TRUE]
    /\ UNCHANGED <<place, check, pending, trail, asset, effects, dropped>>

\* arq cancels a job that takes too long, and keeps the exception as its result.
Timeout(t) ==
    /\ Is(t, "running") /\ Fault
    /\ task' = [task EXCEPT ![t].state = "failed"]
    /\ UNCHANGED <<place, check, pending, trail, asset, effects, dropped>>

\* The worker's process dies, and with it the entries it has not written.
WorkerDies ==
    /\ Fault
    /\ task' = [t \in Tasks |-> IF Is(t, "running") THEN [task[t] EXCEPT !.state = "queued"]
                                ELSE task[t]]
    /\ pending' = {e \in pending : e.task = None}
    /\ dropped' = dropped \cup (pending \ pending')
    /\ UNCHANGED <<place, check, trail, asset, effects>>

ServerDies ==
    /\ Fault
    /\ pending' = {e \in pending : e.task # None}
    /\ dropped' = dropped \cup (pending \ pending')
    /\ UNCHANGED <<place, task, check, trail, asset, effects>>

\* arq forgets a result; what the client has read does not matter any longer.
Expire(t) ==
    /\ Is(t, "complete") \/ Is(t, "failed")
    /\ check[t] \in {"pending", "asking"}
    /\ task' = [task EXCEPT ![t].state = "expired"]
    /\ UNCHANGED <<place, check, pending, trail, asset, faults, effects, dropped>>

-----------------------------------------------------------------------------
(* The check endpoints                                                     *)

\* A mutant of GetStatus: only a job that succeeded is complete.
GetStatusSuccess(t) == IF Is(t, "complete") THEN "complete" ELSE "pending"

\* get_status: what arq does not know (any longer) is pending.
GetStatus(t) ==
    IF Is(t, "complete") \/ Is(t, "failed") THEN "complete" ELSE "pending"

\* The status is complete: the result is asked for in a second request to Redis.
CheckStatus(t) ==
    /\ check[t] = "pending" /\ GetStatus(t) = "complete"
    /\ check' = [check EXCEPT ![t] = "asking"]
    /\ UNCHANGED <<place, task, pending, trail, asset, faults, effects, dropped>>

\* get_result raises the job's exception, or that of a result that is not there.
CheckResult(t) ==
    /\ check[t] = "asking"
    /\ check' = [check EXCEPT ![t] = IF Is(t, "complete") THEN "completed" ELSE "error"]
    /\ UNCHANGED <<place, task, pending, trail, asset, faults, effects, dropped>>

-----------------------------------------------------------------------------
(* AuditTrailRepository.save, without a transaction                        *)

Exists(f) == place[f] # "gone"

\* The row of the entry; one that names no file is done.
SaveTrail(e) ==
    /\ e \in pending \ trail
    /\ trail' = trail \cup {e}
    /\ pending' = IF e.file = None THEN pending \ {e} ELSE pending
    /\ UNCHANGED <<place, task, check, asset, faults, effects, dropped>>

\* The row that names the file; its foreign key refuses a file that is gone.
SaveAsset(e) ==
    /\ e \in pending \cap trail
    /\ asset' = IF Exists(e.file) THEN asset \cup {e} ELSE asset
    /\ pending' = pending \ {e}
    /\ UNCHANGED <<place, task, check, trail, faults, effects, dropped>>

\* Nobody awaits the task: what it raises is lost.
SaveFails(e) ==
    /\ e \in pending /\ Fault
    /\ pending' = pending \ {e}
    /\ dropped' = dropped \cup {e}
    /\ UNCHANGED <<place, task, check, trail, asset, effects>>

-----------------------------------------------------------------------------
Worker(t) ==
    \/ Start(t) \/ Finish(t)
    \/ ItemDone(t) \/ ItemRefused(t)
    \/ EmptyTrash(t)

Client(t) == CheckStatus(t) \/ CheckResult(t)

Next ==
    \/ \E f \in Files : AddFile(f)
    \/ \E t \in Tasks :
         \/ \E o \in Orders : EnqueueBatch(t, o)
         \/ EnqueueEmptyTrash(t)
         \/ Worker(t) \/ ItemFails(t) \/ EmptyTrashFails(t) \/ Timeout(t)
         \/ Expire(t) \/ Client(t)
    \/ WorkerDies \/ ServerDies
    \/ \E e \in pending : SaveTrail(e) \/ SaveAsset(e) \/ SaveFails(e)

Spec == Init /\ [][Next]_vars

\* arq polls its queue and runs what it finds; a client asks until it is answered.
FairSpec == Spec /\ \A t \in Tasks : WF_vars(Worker(t)) /\ WF_vars(Client(t))

-----------------------------------------------------------------------------
(* Properties                                                              *)

\* What t did to its n-th item, in any of its tries.
Did(t, n) == {e \in effects : e.task = t /\ e.item = n}

\* What a client is told by the check endpoints is so. An item that is reported as
\* done was done in the run that reports it; one that was done is reported as
\* failed only if the worker died and the batch was run again, when it no longer
\* finds the item. A Trash that is reported as emptied holds no file that was in
\* it when the client asked, unless the job failed, of which empty_trash tells only
\* the log.
ResultsTrue ==
    \A t \in Tasks : check[t] = "completed" /\ Is(t, "complete") =>
        /\ \A n \in DOMAIN task[t].results :
             /\ task[t].results[n] = "ok" => \E e \in Did(t, n) : e.try = task[t].try
             /\ task[t].results[n] # "ok" /\ Did(t, n) # {} => task[t].try > 1
        /\ task[t].due # {} => task[t].unsaid

\* The audit trail tells what was done: nothing that was not, and everything but
\* deletions of single files, entries not written yet and entries whose process
\* died or whose writing failed. An entry that was written in full names its file
\* as long as the file exists (AuditTrailRepository.save).
AuditKnown ==
    /\ trail \subseteq effects
    /\ asset \subseteq trail
    /\ \A e \in effects \ (pending \cup dropped) :
         \/ e.task # None /\ task[e.task].kind = "delete"
         \/ e \in trail /\ (e.file # None /\ Exists(e.file) => e \in asset)

\* Every request gets its answer, however often the worker dies, unless arq
\* forgets the result before the client asks: then the client is told "pending"
\* for good (ARQWorker.get_status).
TasksAnswered ==
    \A t \in Tasks : check[t] = "pending" ~> (check[t] \in {"completed", "error"} \/ Is(t, "expired"))
=============================================================================
