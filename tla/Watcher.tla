------------------------------- MODULE Watcher -------------------------------
(***************************************************************************)
(* The schema watcher (src/pkg/surql/migration/watcher.go): an event loop   *)
(* that forwards file system events into a bounded channel, a dispatcher    *)
(* that collects them into batches behind a debounce timer and hands each   *)
(* batch to the drift checker, a consumer of reports, Stop and a context.   *)
(*                                                                         *)
(* A change is the path and a serial number; its type is left out.          *)
(***************************************************************************)
EXTENDS Integers, Sequences, SequencesExt

CONSTANTS
  Path,              \* files below the watched directory
  SchemaFile,        \* those the filter accepts
  Below,             \* those in the subdirectory
  EventBuffer,       \* capacity of w.events, 64 in the code
  ReportBufferSize,  \* capacity of w.reports
  MaxChanges,        \* bound on the changes made to files
  MaxPending         \* bound on the undelivered events at which fsnotify repeats one

ASSUME WatcherAssumption ==
  /\ SchemaFile \subseteq Path /\ Below \subseteq Path
  /\ EventBuffer \in Nat \ {0} /\ ReportBufferSize \in Nat \ {0} /\ MaxChanges \in Nat
  /\ MaxPending \in Nat

VARIABLES
  recursive,  \* the option
  dirs,       \* directories that exist: "root", perhaps "sub"
  disk,       \* serial of the last change of each file, 0 for none
  fsw,        \* the fsnotify watcher: "none" | "open" | "closed"
  watched,    \* directories registered with it
  raw,        \* events it has not delivered
  owner,      \* Start: "idle" | "root" | "sub" | "launch" | "started"
  stopper,    \* Stop: "idle" | "closing"
  done,       \* w.done is closed
  cancelled,  \* the context given to Start
  loop,       \* eventLoop: "off" | "select" | "full" | "ended"
  held,       \* the event it could not send
  events,     \* w.events, closed when loop = "ended"
  dispatch,   \* dispatchLoop: "off" | "select" | "sending" | "ended"
  after,      \* where it goes once the report is sent: "select" | "ended"
  batch,
  timer,      \* "none" | "armed" | "fired"
  armedFor,   \* serial of the event the timer was last set for
  reports,    \* reports in w.reports, closed when dispatch = "ended"
  \* history
  taken,      \* serial of the event the dispatcher took last
  seen,       \* of each file the last serial the event loop took
  checked,    \* of each file the last serial the checker was given
  dropped     \* files whose newest event was dropped from a full channel

disks == <<recursive, dirs, disk>>
calls == <<owner, stopper, done, cancelled>>
dispatching == <<dispatch, after, batch, timer, armedFor, reports, taken, checked>>
vars == <<disks, fsw, watched, raw, calls, loop, held, events, seen, dropped, dispatching>>

Change == [path : Path, n : 1..MaxChanges]
NewDirectory == [path |-> "sub", n |-> 0]
NoEvent == [path |-> "none", n |-> 0]
Dir(p) == IF p \in Below THEN "sub" ELSE "root"
Halting == done \/ cancelled
In(queue, p, n) == \E i \in DOMAIN queue : queue[i] = [path |-> p, n |-> n]
Made == Max({disk[p] : p \in Path} \union {0})

Init ==
  /\ recursive \in BOOLEAN
  /\ dirs \in {{"root"}, {"root", "sub"}}
  /\ disk = [p \in Path |-> 0]
  /\ fsw = "none" /\ watched = {} /\ raw = <<>>
  /\ owner = "idle" /\ stopper = "idle" /\ done = FALSE /\ cancelled = FALSE
  /\ loop = "off" /\ held = NoEvent /\ events = <<>>
  /\ dispatch = "off" /\ after = "select" /\ batch = <<>>
  /\ timer = "none" /\ armedFor = 0 /\ reports = 0
  /\ taken = 0 /\ dropped = {}
  /\ seen = [p \in Path |-> 0] /\ checked = [p \in Path |-> 0]

(***************************************************************************)
(* The file system                                                          *)
(***************************************************************************)
\* fsnotify reports what happens in a directory it watches.
Notify(dir, ev) ==
  raw' = IF fsw = "open" /\ dir \in watched THEN Append(raw, ev) ELSE raw

ChangeFile(p) ==
  /\ Dir(p) \in dirs
  /\ Made < MaxChanges
  /\ disk' = [disk EXCEPT ![p] = Made + 1]
  /\ Notify(Dir(p), [path |-> p, n |-> Made + 1])
  /\ UNCHANGED <<recursive, dirs, fsw, watched, calls, loop, held, events, seen, dropped, dispatching>>

\* Another event for what is already on disk: one save is several writes, and a
\* chmod is reported too.  Nothing bounds how often.
Repeat(p) ==
  /\ disk[p] > 0 /\ fsw = "open" /\ Dir(p) \in watched
  /\ Len(raw) < MaxPending
  /\ Notify(Dir(p), [path |-> p, n |-> disk[p]])
  /\ UNCHANGED <<disks, fsw, watched, calls, loop, held, events, seen, dropped, dispatching>>

MakeDirectory ==
  /\ "sub" \notin dirs
  /\ dirs' = dirs \union {"sub"}
  /\ Notify("root", NewDirectory)
  /\ UNCHANGED <<recursive, disk, fsw, watched, calls, loop, held, events, seen, dropped, dispatching>>

(***************************************************************************)
(* Start and Stop                                                           *)
(***************************************************************************)
\* Start refuses a watcher that is running; after Stop it still counts as that.
Start ==
  /\ owner = "idle" /\ stopper = "idle"
  /\ owner' = "root" /\ fsw' = "open"
  /\ UNCHANGED <<disks, watched, raw, stopper, done, cancelled, loop, held, events, seen, dropped, dispatching>>

\* addRoot adds the directory, and with Recursive walks on; an Add that fails
\* is only reported then, and otherwise ends Start.
AddRoot ==
  /\ owner = "root"
  /\ \/ watched' = {"root"} /\ owner' = IF recursive THEN "sub" ELSE "launch"
     \/ recursive /\ watched' = {} /\ owner' = "sub"
  /\ UNCHANGED <<disks, fsw, raw, stopper, done, cancelled, loop, held, events, seen, dropped, dispatching>>

StartFails ==
  /\ owner = "root" /\ ~recursive
  /\ owner' = "idle" /\ fsw' = "none" /\ raw' = <<>>
  /\ UNCHANGED <<disks, watched, stopper, done, cancelled, loop, held, events, seen, dropped, dispatching>>

AddSubdirectory ==
  /\ owner = "sub"
  /\ watched' \in {watched, watched \union (dirs \ {"root"})}
  /\ owner' = "launch"
  /\ UNCHANGED <<disks, fsw, raw, stopper, done, cancelled, loop, held, events, seen, dropped, dispatching>>

Launch ==
  /\ owner = "launch"
  /\ owner' = "started" /\ loop' = "select" /\ dispatch' = "select"
  /\ UNCHANGED <<disks, fsw, watched, raw, stopper, done, cancelled, held, events, seen, dropped,
                 after, batch, timer, armedFor, reports, taken, checked>>

\* Stop closes w.done once, then the fsnotify watcher there is.  It may be
\* called before Start and again, but not during it.
Stop ==
  /\ owner \in {"idle", "started"} /\ stopper = "idle"
  /\ ~done \/ fsw = "open"
  /\ done' = TRUE /\ stopper' = "closing"
  /\ UNCHANGED <<disks, fsw, watched, raw, owner, cancelled, loop, held, events, seen, dropped, dispatching>>

CloseWatcher ==
  /\ stopper = "closing"
  /\ fsw' = IF fsw = "open" THEN "closed" ELSE fsw
  /\ raw' = <<>>
  /\ stopper' = "idle"
  /\ UNCHANGED <<disks, watched, owner, done, cancelled, loop, held, events, seen, dropped, dispatching>>

Cancel ==
  /\ owner # "idle" /\ ~cancelled
  /\ cancelled' = TRUE
  /\ UNCHANGED <<disks, fsw, watched, raw, owner, stopper, done, loop, held, events, seen, dropped, dispatching>>

(***************************************************************************)
(* eventLoop                                                                *)
(***************************************************************************)
LoopEnds ==
  /\ loop = "select"
  /\ Halting \/ fsw = "closed"
  /\ loop' = "ended"
  /\ UNCHANGED <<disks, fsw, watched, raw, calls, held, events, seen, dropped, dispatching>>

NextEvent ==
  /\ loop = "select" /\ fsw = "open" /\ raw # <<>>
  /\ raw' = Tail(raw)

HandleDirectory ==
  /\ NextEvent /\ Head(raw) = NewDirectory
  /\ watched' \in IF recursive THEN {watched, watched \union {"sub"}} ELSE {watched}
  /\ UNCHANGED <<disks, fsw, calls, loop, held, events, seen, dropped, dispatching>>

HandleIgnored ==
  /\ NextEvent /\ Head(raw) # NewDirectory /\ Head(raw).path \notin SchemaFile
  /\ UNCHANGED <<disks, fsw, watched, calls, loop, held, events, seen, dropped, dispatching>>

\* A full channel makes the loop come back for the oldest event.
HandleEvent ==
  LET ev == Head(raw) IN
  /\ NextEvent /\ ev # NewDirectory /\ ev.path \in SchemaFile
  /\ seen' = [seen EXCEPT ![ev.path] = ev.n]
  /\ dropped' = dropped \ {ev.path}
  /\ IF Len(events) < EventBuffer
     THEN events' = Append(events, ev) /\ UNCHANGED <<loop, held>>
     ELSE loop' = "full" /\ held' = ev /\ UNCHANGED events
  /\ UNCHANGED <<disks, fsw, watched, calls, dispatching>>

\* A mutant of DropOldest: the event itself is dropped.
DropNewest ==
  /\ loop = "full"
  /\ loop' = "select" /\ held' = NoEvent
  /\ UNCHANGED <<disks, fsw, watched, raw, calls, events, seen, dropped, dispatching>>

\* Whatever the dispatcher took meanwhile, the oldest event goes; its file has lost
\* its newest change if no other event of it is as new.
DropOldest ==
  LET oldest == Head(events) IN
  /\ loop = "full"
  /\ events' = Append(IF events = <<>> THEN <<>> ELSE Tail(events), held)
  /\ dropped' = IF /\ events # <<>> /\ oldest.n = seen[oldest.path]
                   /\ ~In(events', oldest.path, oldest.n) /\ ~In(batch, oldest.path, oldest.n)
                THEN dropped \union {oldest.path} ELSE dropped
  /\ loop' = "select" /\ held' = NoEvent
  /\ UNCHANGED <<disks, fsw, watched, raw, calls, seen, dispatching>>

EventLoop == LoopEnds \/ HandleDirectory \/ HandleIgnored \/ HandleEvent \/ DropOldest

(***************************************************************************)
(* dispatchLoop                                                             *)
(***************************************************************************)
\* A mutant of Collect: the first event of a path is kept.
CollectFirst(b, ev) ==
  IF \E i \in DOMAIN b : b[i].path = ev.path THEN b ELSE Append(b, ev)

\* The newest event of a path takes the place of the earlier one.
Collect(b, ev) ==
  IF \E i \in DOMAIN b : b[i].path = ev.path
  THEN [i \in DOMAIN b |-> IF b[i].path = ev.path THEN ev ELSE b[i]]
  ELSE Append(b, ev)

\* An event is taken and the timer set anew; a tick not yet received is drained.
Take ==
  /\ dispatch = "select" /\ events # <<>>
  /\ events' = Tail(events)
  /\ batch' = Collect(batch, Head(events))
  /\ taken' = Head(events).n
  /\ timer' = "armed" /\ armedFor' = taken'
  /\ UNCHANGED <<disks, fsw, watched, raw, calls, loop, held, seen, dropped, dispatch, after, reports, checked>>

Fire ==
  /\ timer = "armed"
  /\ timer' = "fired"
  /\ UNCHANGED <<disks, fsw, watched, raw, calls, loop, held, events, seen, dropped,
                 dispatch, after, batch, armedFor, reports, taken, checked>>

\* flush: the checker gets the batch and may answer with a report, with none
\* or with an error.
Flush(next) ==
  /\ batch' = <<>>
  /\ checked' = [p \in Path |->
       IF \E i \in DOMAIN batch : batch[i].path = p
       THEN (CHOOSE ev \in ToSet(batch) : ev.path = p).n ELSE checked[p]]
  /\ \/ dispatch' = next /\ UNCHANGED after
     \/ batch # <<>> /\ dispatch' = "sending" /\ after' = next
  /\ timer' = "none" /\ UNCHANGED armedFor
  /\ UNCHANGED <<disks, fsw, watched, raw, calls, loop, held, events, seen, dropped, reports, taken>>

Tick == dispatch = "select" /\ timer = "fired" /\ Flush("select")

\* The context, Stop or the closed channel end the dispatcher after a flush.
Halt ==
  /\ dispatch = "select"
  /\ Halting \/ (loop = "ended" /\ events = <<>>)
  /\ Flush("ended")

Send ==
  /\ dispatch = "sending" /\ reports < ReportBufferSize
  /\ reports' = reports + 1 /\ dispatch' = after
  /\ UNCHANGED <<disks, fsw, watched, raw, calls, loop, held, events, seen, dropped,
                 after, batch, timer, armedFor, taken, checked>>

\* A mutant of GiveUp: only the context ends the wait.
GiveUpOnContext ==
  /\ dispatch = "sending" /\ cancelled
  /\ dispatch' = after
  /\ UNCHANGED <<disks, fsw, watched, raw, calls, loop, held, events, seen, dropped,
                 after, batch, timer, armedFor, reports, taken, checked>>

GiveUp ==
  /\ dispatch = "sending" /\ Halting
  /\ dispatch' = after
  /\ UNCHANGED <<disks, fsw, watched, raw, calls, loop, held, events, seen, dropped,
                 after, batch, timer, armedFor, reports, taken, checked>>

Dispatcher == Take \/ Tick \/ Halt \/ Send \/ GiveUp

\* The program that reads Reports().
Consume ==
  /\ reports > 0
  /\ reports' = reports - 1
  /\ UNCHANGED <<disks, fsw, watched, raw, calls, loop, held, events, seen, dropped,
                 dispatch, after, batch, timer, armedFor, taken, checked>>

Next ==
  \/ \E p \in Path : ChangeFile(p) \/ Repeat(p)
  \/ MakeDirectory
  \/ Start \/ AddRoot \/ StartFails \/ AddSubdirectory \/ Launch
  \/ Stop \/ CloseWatcher \/ Cancel
  \/ EventLoop \/ Dispatcher \/ Fire \/ Consume

Spec == Init /\ [][Next]_vars

\* Goroutines run, timers fire, a Stop that began goes on, and reports are read
\* while the watcher is not being stopped.
FairSpec ==
  /\ Spec
  /\ WF_vars(EventLoop) /\ WF_vars(Dispatcher) /\ WF_vars(Fire)
  /\ WF_vars(CloseWatcher) /\ WF_vars(AddRoot \/ AddSubdirectory \/ Launch)
  /\ WF_vars(~Halting /\ Consume)

(***************************************************************************)
(* Properties                                                               *)
(***************************************************************************)
\* No newest change gets lost between the event loop and the checker: it has
\* been checked, waits in the channel, in the loop's hand or in the batch, or
\* was pushed out of the full channel; a batch names each file once.  A tick
\* belongs to the quiet time after the last event: a stale one cannot fire on a
\* later batch, nor on one that still grows (eventLoop, dispatchLoop).
NoChangeLost ==
  /\ \A p \in Path : seen[p] # checked[p] =>
       \/ In(events, p, seen[p]) \/ In(batch, p, seen[p]) \/ held = [path |-> p, n |-> seen[p]]
       \/ p \in dropped
       \/ dispatch = "ended"
  /\ \A i, j \in DOMAIN batch : batch[i].path = batch[j].path => i = j
  /\ timer = "fired" => armedFor = taken /\ batch # <<>>

\* The events of schema files never stop.
Busy == []<><<\E p \in SchemaFile : Repeat(p)>>_vars

\* A change that fsnotify has reported reaches the checker in its newest form, however
\* the events of other files mix with it, unless the channel overflowed, the watcher
\* is stopped, or it gets no quiet time: every event it takes sets the timer anew
\* (watcher.go:427-438), so a stream of them that does not end starves the check.
ChangesAreChecked ==
  \A p \in SchemaFile :
    \/ ((\E i \in DOMAIN raw : raw[i].path = p) \/ seen[p] # checked[p])
         ~> (checked[p] = disk[p] \/ p \in dropped \/ Halting)
    \/ Busy

\* Stop of a started watcher ends both loops and closes the watch, also when
\* nobody reads the reports any more (Stop, the selects on w.done).
StopEnds ==
  (stopper = "closing" /\ fsw = "open")
    ~> (loop = "ended" /\ dispatch = "ended" /\ fsw = "closed")
=============================================================================
