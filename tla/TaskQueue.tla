------------------------------ MODULE TaskQueue ------------------------------
(* How background threads hand work back to the main thread: the list of      *)
(* postponed functions (tToDo.cpp), the foreground queue of                   *)
(* tBackgroundProcess.h and the hand-over of tBackgroundSyncEvent             *)
(* (tRecorder.cpp), in which the main thread stands still while one           *)
(* background thread runs.  A module that has background work to do gives its *)
(* threads programs made of the steps here and of steps of its own (Work).    *)
EXTENDS Naturals, Sequences, FiniteSets

CONSTANTS Jobs,     \* the objects with background work and a tBackgroundSync
          Slots,    \* how many threads of one object may run at a time, at most
          Work,     \* the steps a thread does apart from those below
          Nobody

\* No object, no holder of a lock.
ASSUME JobAssumption == Nobody \notin Jobs

Threads == Jobs \X Slots

VARIABLES pending,   \* the objects whose function is due in the main thread
          queued,    \* is FinishAll on the list of postponed functions, tToDos?
          current,   \* is st_toDoCurrent set to FinishAll?
          main,      \* where the main thread is
          syncing,   \* the object whose event the main thread is in, if any
          listLock,  \* who holds st_backgroundSyncEventsMutex
          events,    \* st_backgroundSyncEvents
          entry,     \* who holds the entry mutex of each tBackgroundSync
          exit,      \* who holds its exit mutex
          thread     \* what each background thread still has to do

todoVars == <<pending, queued, current>>
syncVars == <<syncing, listLock, events, entry, exit>>
taskVars == <<todoVars, syncVars, main, thread>>

\* tMemberFunctionRunner::ScheduleForeground: two steps, two locks.
Schedules == <<"add", "once">>

\* tBackgroundSyncEvent::Enter and Leave.
Enters == <<"list", "exit", "entry">>
Leaves == <<"openEntry", "openExit">>

Steps == {"add", "once", "list", "exit", "entry", "openEntry", "openExit"}
         \cup Work

Holders == {"main", "thread", "nobody"}

TaskTypeOK ==
  /\ pending \in Seq(Jobs)
  /\ queued \in BOOLEAN
  /\ current \in BOOLEAN
  /\ main \in {"game", "tasks", "return", "todo",
              "lock", "sync", "exit", "entry"}
  /\ syncing \in Jobs \cup {Nobody}
  /\ listLock \in Holders
  /\ events \in Seq(Jobs)
  /\ entry \in [Jobs -> Holders]
  /\ exit \in [Jobs -> Holders]
  /\ thread \in [Threads -> Seq(Steps)]

\* The main thread holds the entry mutex of every tBackgroundSync from its
\* construction on.
TaskInit ==
  /\ pending = <<>>
  /\ queued = FALSE
  /\ current = FALSE
  /\ main = "game"
  /\ syncing = Nobody
  /\ listLock = "nobody"
  /\ events = <<>>
  /\ entry = [p \in Jobs |-> "main"]
  /\ exit = [p \in Jobs |-> "nobody"]
  /\ thread = [t \in Threads |-> <<>>]

----------------------------------------------------------------------------
\* Background threads.

At(t, step) == thread[t] # <<>> /\ Head(thread[t]) = step
Goes(t) == thread' = [thread EXCEPT ![t] = Tail(@)]

\* Pending().add
AddTask(t) ==
  /\ At(t, "add")
  /\ pending' = Append(pending, t[1])
  /\ Goes(t)
  /\ UNCHANGED <<queued, current, main, syncVars>>

\* st_ToDoOnce( FinishAll ) adds nothing while FinishAll is on the list, or is
\* the function the main thread is running.
ListOnce == queued' = (queued \/ ~current)

ListTask(t) ==
  /\ At(t, "once")
  /\ ListOnce
  /\ Goes(t)
  /\ UNCHANGED <<pending, current, main, syncVars>>

\* tBackgroundSyncEvent::Enter takes the lock of the list, under it the exit
\* mutex, and puts the event on the list; then it waits for its entry mutex.
TakeList(t) ==
  /\ At(t, "list") /\ listLock = "nobody"
  /\ listLock' = "thread"
  /\ Goes(t)
  /\ UNCHANGED <<todoVars, main, syncing, events, entry, exit>>

TakeExit(t) ==
  /\ At(t, "exit") /\ exit[t[1]] = "nobody"
  /\ exit' = [exit EXCEPT ![t[1]] = "thread"]
  /\ events' = Append(events, t[1])
  /\ listLock' = "nobody"
  /\ Goes(t)
  /\ UNCHANGED <<todoVars, main, syncing, entry>>

TakeEntry(t) ==
  /\ At(t, "entry") /\ entry[t[1]] = "nobody"
  /\ entry' = [entry EXCEPT ![t[1]] = "thread"]
  /\ Goes(t)
  /\ UNCHANGED <<todoVars, main, syncing, listLock, events, exit>>

\* tBackgroundSyncEvent::Leave opens first the entry, then the exit.
OpenEntry(t) ==
  /\ At(t, "openEntry")
  /\ entry' = [entry EXCEPT ![t[1]] = "nobody"]
  /\ Goes(t)
  /\ UNCHANGED <<todoVars, main, syncing, listLock, events, exit>>

OpenExit(t) ==
  /\ At(t, "openExit")
  /\ exit' = [exit EXCEPT ![t[1]] = "nobody"]
  /\ Goes(t)
  /\ UNCHANGED <<todoVars, main, syncing, listLock, events, entry>>

----------------------------------------------------------------------------
\* The main thread: the game, where it may enter st_DoToDo at any time, and the
\* places in st_DoToDo.

MainGoes(from, to) == main = from /\ main' = to
InLoop == main \in {"game", "todo"}

\* The last postponed function is taken off the list and is the current one
\* while it runs, without the lock of the list.
CallFinishAll ==
  /\ InLoop /\ queued
  /\ main' = "tasks"
  /\ queued' = FALSE
  /\ current' = TRUE
  /\ UNCHANGED <<pending, syncVars, thread>>

\* FinishAll takes the next task; the function it calls is not said here.
TakeTask ==
  /\ main = "tasks" /\ pending # <<>>
  /\ pending' = Tail(pending)
  /\ UNCHANGED <<queued, current, main, syncVars>>

NoTasksLeft ==
  /\ MainGoes("tasks", "return") /\ pending = <<>>
  /\ UNCHANGED <<todoVars, syncVars, thread>>

\* Back in st_DoToDo, with the lock taken again.
ForgetCurrent ==
  /\ MainGoes("return", "todo")
  /\ current' = FALSE
  /\ UNCHANGED <<pending, queued, syncVars, thread>>

NoEvents == events = <<>> /\ listLock = "nobody"

NothingToDo ==
  /\ InLoop /\ ~queued /\ ~NoEvents
  /\ main' = "lock"
  /\ UNCHANGED <<todoVars, syncVars, thread>>

\* A call that finds nothing to do at all leaves no trace.
LeaveToDo ==
  /\ MainGoes("todo", "game") /\ ~queued /\ NoEvents
  /\ UNCHANGED <<todoVars, syncVars, thread>>

\* st_SyncBackgroundThreads holds the lock of the list until the list is empty.
StartSync ==
  /\ MainGoes("lock", "sync") /\ listLock = "nobody"
  /\ listLock' = "main"
  /\ UNCHANGED <<todoVars, syncing, events, entry, exit, thread>>

\* The last event is taken off; tBackgroundSyncEvent::Sync opens the entry ...
SyncNext ==
  /\ MainGoes("sync", "exit") /\ events # <<>>
  /\ syncing' = events[Len(events)]
  /\ events' = SubSeq(events, 1, Len(events) - 1)
  /\ entry' = [entry EXCEPT ![events[Len(events)]] = "nobody"]
  /\ UNCHANGED <<todoVars, listLock, exit, thread>>

\* Mutant: it does not wait.
IgnoreExit ==
  /\ MainGoes("exit", "entry")
  /\ UNCHANGED <<todoVars, syncVars, thread>>

\* ... waits for the exit mutex ...
AwaitExit ==
  /\ MainGoes("exit", "entry") /\ exit[syncing] = "nobody"
  /\ exit' = [exit EXCEPT ![syncing] = "main"]
  /\ UNCHANGED <<todoVars, syncing, listLock, events, entry, thread>>

\* Mutant: the entry stays open.
LeaveEntryOpen ==
  /\ MainGoes("entry", "sync") /\ entry[syncing] = "nobody"
  /\ exit' = [exit EXCEPT ![syncing] = "nobody"]
  /\ syncing' = Nobody
  /\ UNCHANGED <<todoVars, listLock, events, entry, thread>>

\* ... and closes the entry again.
CloseEntry ==
  /\ MainGoes("entry", "sync") /\ entry[syncing] = "nobody"
  /\ entry' = [entry EXCEPT ![syncing] = "main"]
  /\ exit' = [exit EXCEPT ![syncing] = "nobody"]
  /\ syncing' = Nobody
  /\ UNCHANGED <<todoVars, listLock, events, thread>>

EndSync ==
  /\ MainGoes("sync", "game") /\ events = <<>>
  /\ listLock' = "nobody"
  /\ UNCHANGED <<todoVars, syncing, events, entry, exit, thread>>

----------------------------------------------------------------------------
\* The steps of this module, all but TakeTask.

ThreadStep(t) ==
  \/ AddTask(t) \/ ListTask(t)
  \/ TakeList(t) \/ TakeExit(t) \/ TakeEntry(t)
  \/ OpenEntry(t) \/ OpenExit(t)

MainStep ==
  \/ CallFinishAll \/ NoTasksLeft \/ ForgetCurrent \/ NothingToDo
  \/ LeaveToDo \/ StartSync \/ SyncNext \/ AwaitExit \/ CloseEntry \/ EndSync

----------------------------------------------------------------------------
\* A background thread gets through its entry only while the main thread
\* stands still in Sync for it, and has given the entry back before the main
\* thread goes on: what it does in between needs no other lock.
MainStandsStill ==
  \A p \in Jobs : entry[p] = "thread" => main = "exit" /\ syncing = p

\* A tBackgroundSync has one background thread at a time: two of them that wait
\* in Enter would stop the main thread for good, one holding the lock of the
\* list and the other one waiting for the main thread.
OneThreadPerSync ==
  \A p \in Jobs : Cardinality({s \in Slots : thread[<<p, s>>] # <<>>}) <= 1

\* There is work for the main thread and the next st_DoToDo will not do it,
\* although ScheduleForeground says so: FinishAll was asked for after it had
\* looked for tasks and before it stopped being the current function.
Stranded ==
  /\ pending # <<>>
  /\ ~queued /\ ~current
  /\ \A t \in Threads : ~At(t, "once")
=============================================================================
