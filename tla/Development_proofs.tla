--------------------------- MODULE Development_proofs ---------------------------
(***************************************************************************)
(* Proofs about the tools a schema is developed with.  The watcher: for any *)
(* files, buffer sizes and changes no newest change is lost between the     *)
(* event loop and the checker.  Generated migrations: for any schemas the   *)
(* database keeps up with the snapshot it was migrated to, a migration      *)
(* that can be undone is undone exactly, and each runs up and down.         *)
(***************************************************************************)
EXTENDS Watcher, SchemaEvolution, FiniteSetTheorems, SequenceTheorems,
        WellFoundedInduction, TLAPS

-----------------------------------------------------------------------------
(* The watcher.                                                            *)

\* Every event has a file and the serial of a change.
TypeInv ==
  /\ disk \in [Path -> 0..MaxChanges]
  /\ seen \in [Path -> 0..MaxChanges] /\ checked \in [Path -> 0..MaxChanges]
  /\ raw \in Seq(Change \union {NewDirectory})
  /\ events \in Seq(Change) /\ batch \in Seq(Change)
  /\ loop = "full" => held \in Change

\* Before Start launches the loops neither has run.
LaunchInv == owner # "started" => loop = "off" /\ dispatch = "off"

\* The event loop holds the newest change of p until the channel has room.
Held(p) == loop = "full" /\ held.path = p
HeldInv == loop = "full" => held.n = seen[held.path]

\* The newest change of p is still to come.
Ahead(p) == In(events, p, seen[p]) \/ Held(p)

\* Behind an event in the channel, if it is not the newest of its file, the newest
\* follows: the channel keeps the order, and the oldest is dropped first.
QueueInv ==
  \A i \in DOMAIN events :
    \/ \E j \in i..Len(events) : events[j] = [path |-> events[i].path, n |-> seen[events[i].path]]
    \/ Held(events[i].path)

\* The batch names each file once, and holds its newest change unless that is
\* still to come or was pushed out.
BatchInv ==
  /\ \A i, j \in DOMAIN batch : batch[i].path = batch[j].path => i = j
  /\ \A i \in DOMAIN batch :
       \/ batch[i].n = seen[batch[i].path]
       \/ Ahead(batch[i].path)
       \/ batch[i].path \in dropped

\* A change that the checker has not been given is still to come, in the batch,
\* or was pushed out.
LostInv ==
  \A p \in Path : seen[p] # checked[p] =>
    Ahead(p) \/ In(batch, p, seen[p]) \/ p \in dropped \/ dispatch = "ended"

\* The timer runs for the batch that was last added to.
TimerInv == armedFor = taken /\ (timer # "none" => batch # <<>>)

IInv == TypeInv /\ LaunchInv /\ HeldInv /\ QueueInv /\ BatchInv /\ LostInv /\ TimerInv
-----------------------------------------------------------------------------
(* The operators of the model.                                             *)

\* There is a last change, and the next one is within the bound.
LEMMA MadeFits ==
  ASSUME TypeInv
  PROVE  Made \in 0..MaxChanges
<1>. DEFINE S == {disk[p] : p \in Path} \union {0}
            Left == {MaxChanges - n : n \in S}
<1>1. S \subseteq 0..MaxChanges /\ MaxChanges \in Nat
  BY WatcherAssumption DEF TypeInv
<1>2. Left \subseteq Nat /\ MaxChanges - 0 \in Left
  <2>1. \A n \in 0..MaxChanges : MaxChanges - n \in Nat
    BY <1>1
  <2>2. \A n \in S : MaxChanges - n \in Nat
    BY <1>1, <2>1
  <2>3. 0 \in S
    OBVIOUS
  <2>. QED
    BY <2>2, <2>3
<1>3. PICK x \in Left : \A y \in Left : ~(<<y, x>> \in OpToRel(<, Nat))
  BY <1>2, NatLessThanWellFounded, WFMin
<1>4. \A y \in Left : ~(y < x)
  BY <1>2, <1>3 DEF OpToRel
<1>5. PICK m \in S : x = MaxChanges - m
  BY <1>3
<1>6. \A n \in S : ~(MaxChanges - n < MaxChanges - m)
  BY <1>4, <1>5
<1>. HIDE DEF S, Left
<1>8. \A n \in S : m >= n
  BY <1>1, <1>5, <1>6
<1>7. Max(S) \in S
  BY <1>5, <1>8 DEF Max
<1>. QED
  BY <1>1, <1>7 DEF Made, S

\* An event stays in a queue to which another is appended, and that one is in it.
LEMMA InAppend ==
  ASSUME NEW q \in Seq(Change), NEW ev \in Change, NEW p, NEW n
  PROVE  /\ In(q, p, n) => In(Append(q, ev), p, n)
         /\ In(Append(q, ev), ev.path, ev.n)
<1>1. Append(q, ev) \in Seq(Change) /\ Len(Append(q, ev)) = Len(q) + 1 /\ Append(q, ev)[Len(q) + 1] = ev
      /\ \A i \in 1..Len(q) : Append(q, ev)[i] = q[i]
  OBVIOUS
<1>2. ev = [path |-> ev.path, n |-> ev.n]
  BY DEF Change
<1>. QED
  BY <1>1, <1>2 DEF In

\* An event that is taken from a queue was its head.
LEMMA InTail ==
  ASSUME NEW q \in Seq(Change), q # <<>>, NEW p, NEW n, In(q, p, n)
  PROVE  In(Tail(q), p, n) \/ Head(q) = [path |-> p, n |-> n]
<1>1. PICK i \in 1..Len(q) : q[i] = [path |-> p, n |-> n]
  BY DEF In
<1>2. CASE i = 1
  BY <1>1, <1>2
<1>3. CASE i # 1
  <2>1. i - 1 \in 1..Len(Tail(q)) /\ Tail(q)[i - 1] = q[i] /\ DOMAIN Tail(q) = 1..Len(Tail(q))
    BY <1>3
  <2>. QED
    BY <1>1, <2>1 DEF In
<1>. QED
  BY <1>2, <1>3

\* What Collect makes of a batch: the event takes the place of its file's.
LEMMA CollectHolds ==
  ASSUME NEW b \in Seq(Change), NEW ev \in Change
  PROVE  /\ Collect(b, ev) \in Seq(Change) /\ Collect(b, ev) # <<>>
         /\ In(Collect(b, ev), ev.path, ev.n)
         /\ \A i \in DOMAIN Collect(b, ev) :
              \/ Collect(b, ev)[i] = ev
              \/ i \in DOMAIN b /\ Collect(b, ev)[i] = b[i] /\ b[i].path # ev.path
         /\ \A p, n : In(b, p, n) /\ p # ev.path => In(Collect(b, ev), p, n)
<1>1. ev = [path |-> ev.path, n |-> ev.n]
  BY DEF Change
<1>2. CASE \E i \in DOMAIN b : b[i].path = ev.path
  <2>. DEFINE c == [i \in DOMAIN b |-> IF b[i].path = ev.path THEN ev ELSE b[i]]
  <2>1. Collect(b, ev) = c
    BY <1>2 DEF Collect
  <2>2. DOMAIN b = 1..Len(b) /\ Len(b) \in Nat /\ \A i \in 1..Len(b) : b[i] \in Change
    OBVIOUS
  <2>3. c \in Seq(Change) /\ DOMAIN c = DOMAIN b
    BY <2>2
  <2>4. c # <<>>
    BY <1>2, <2>3
  <2>5. In(c, ev.path, ev.n)
    BY <1>1, <1>2 DEF In
  <2>6. \A i \in DOMAIN c : c[i] = ev \/ (i \in DOMAIN b /\ c[i] = b[i] /\ b[i].path # ev.path)
    OBVIOUS
  <2>7. \A p, n : In(b, p, n) /\ p # ev.path => In(c, p, n)
    BY DEF In
  <2>. HIDE DEF c
  <2>. QED
    BY <2>1, <2>3, <2>4, <2>5, <2>6, <2>7
<1>3. CASE ~\E i \in DOMAIN b : b[i].path = ev.path
  <2>1. Collect(b, ev) = Append(b, ev)
    BY <1>3 DEF Collect
  <2>2. Append(b, ev) \in Seq(Change) /\ Append(b, ev) # <<>> /\ Len(Append(b, ev)) = Len(b) + 1
        /\ Append(b, ev)[Len(b) + 1] = ev /\ \A i \in 1..Len(b) : Append(b, ev)[i] = b[i]
    OBVIOUS
  <2>3. \A i \in DOMAIN Append(b, ev) :
          Append(b, ev)[i] = ev \/ (i \in DOMAIN b /\ Append(b, ev)[i] = b[i] /\ b[i].path # ev.path)
    BY <1>3, <2>2
  <2>. QED
    BY <2>1, <2>2, <2>3, InAppend
<1>. QED
  BY <1>2, <1>3

\* A batch that names each file once still does.
LEMMA CollectOnce ==
  ASSUME NEW b \in Seq(Change), NEW ev \in Change,
         \A i, j \in DOMAIN b : b[i].path = b[j].path => i = j
  PROVE  \A i, j \in DOMAIN Collect(b, ev) : Collect(b, ev)[i].path = Collect(b, ev)[j].path => i = j
<1>1. CASE \E i \in DOMAIN b : b[i].path = ev.path
  BY <1>1 DEF Collect
<1>2. CASE ~\E i \in DOMAIN b : b[i].path = ev.path
  <2>1. Collect(b, ev) = Append(b, ev)
    BY <1>2 DEF Collect
  <2>2. Len(Append(b, ev)) = Len(b) + 1 /\ Append(b, ev) \in Seq(Change)
        /\ Append(b, ev)[Len(b) + 1] = ev /\ \A i \in 1..Len(b) : Append(b, ev)[i] = b[i]
    OBVIOUS
  <2>. QED
    BY <1>2, <2>1, <2>2
<1>. QED
  BY <1>1, <1>2
-----------------------------------------------------------------------------
(* The steps.                                                              *)

\* A step that touches neither queue nor batch loses nothing, unless it starts the
\* dispatcher anew.
LEMMA QuietStep ==
  ASSUME IInv, UNCHANGED <<seen, checked, events, held, batch, dropped>>,
         loop' = loop \/ (loop # "full" /\ loop' # "full"),
         dispatch = "ended" => dispatch' = "ended"
  PROVE  HeldInv' /\ QueueInv' /\ BatchInv' /\ LostInv'
<1>1. \A p : Held(p)' = Held(p) /\ Ahead(p)' = Ahead(p)
  BY DEF Held, Ahead, In
<1>2. HeldInv'
  BY DEF IInv, HeldInv
<1>3. QueueInv'
  BY <1>1 DEF IInv, QueueInv
<1>4. BatchInv'
  BY <1>1 DEF IInv, BatchInv
<1>5. LostInv'
  BY <1>1 DEF IInv, LostInv, In
<1>. QED
  BY <1>2, <1>3, <1>4, <1>5

\* The event loop takes an event: it is the newest of its file from now on, and
\* is ahead.
LEMMA HandleStep ==
  ASSUME IInv, HandleEvent
  PROVE  IInv'
<1>. USE DEF IInv
<1>. PICK ev : ev = Head(raw)
  OBVIOUS
<1>1. ev \in Change /\ raw' \in Seq(Change \union {NewDirectory})
  BY DEF TypeInv, HandleEvent, NextEvent
<1>2. ev.path \in Path /\ ev.n \in 0..MaxChanges /\ ev = [path |-> ev.path, n |-> ev.n]
  BY <1>1, WatcherAssumption DEF Change
<1>3. /\ loop = "select" /\ seen' = [seen EXCEPT ![ev.path] = ev.n] /\ dropped' = dropped \ {ev.path}
      /\ UNCHANGED <<disk, owner, batch, checked, dispatch, timer, armedFor, taken>>
  BY DEF HandleEvent, NextEvent, dispatching, calls, disks
<1>4. \/ events' = Append(events, ev) /\ loop' = "select"
      \/ events' = events /\ loop' = "full" /\ held' = ev
  BY <1>3 DEF HandleEvent
<1>5. events \in Seq(Change) /\ events' \in Seq(Change) /\ seen \in [Path -> 0..MaxChanges]
  <2>1. events \in Seq(Change) /\ seen \in [Path -> 0..MaxChanges]
    BY DEF TypeInv
  <2>. QED
    BY <1>1, <1>4, <2>1
<1>6. TypeInv'
  BY <1>1, <1>2, <1>3, <1>4, <1>5 DEF TypeInv
<1>7. LaunchInv' /\ TimerInv'
  BY <1>3 DEF LaunchInv, TimerInv
<1>8. HeldInv'
  BY <1>2, <1>3, <1>4, <1>5 DEF HeldInv
<1>9. seen'[ev.path] = ev.n /\ \A p : p # ev.path => seen'[p] = seen[p]
  BY <1>2, <1>3, <1>5
<1>10. Ahead(ev.path)'
  <2>1. CASE events' = Append(events, ev)
    <3>1. In(events', ev.path, ev.n)
      BY <1>1, <1>5, <2>1, InAppend
    <3>. QED
      BY <1>9, <3>1 DEF Ahead, In
  <2>2. CASE loop' = "full" /\ held' = ev
    BY <2>2 DEF Ahead, Held
  <2>. QED
    BY <1>4, <2>1, <2>2
<1>11. ASSUME NEW p, p # ev.path, Ahead(p) PROVE Ahead(p)'
  <2>1. In(events, p, seen[p])
    BY <1>3, <1>11 DEF Ahead, Held
  <2>2. In(events', p, seen[p])
    BY <1>1, <1>4, <1>5, <2>1, InAppend
  <2>. QED
    BY <1>9, <1>11, <2>2 DEF Ahead, In
<1>12. QueueInv'
  <2>1. CASE events' = Append(events, ev)
    <3>1. /\ Len(events') = Len(events) + 1 /\ Len(events) \in Nat /\ events'[Len(events) + 1] = ev
          /\ \A i \in 1..Len(events) : events'[i] = events[i]
          /\ DOMAIN events' = 1..Len(events') /\ DOMAIN events = 1..Len(events)
      BY <1>1, <1>5, <2>1
    <3>2. ASSUME NEW i \in DOMAIN events'
          PROVE  \E j \in i..Len(events') : events'[j] = [path |-> events'[i].path, n |-> seen'[events'[i].path]]
      <4>1. CASE events'[i].path = ev.path
        <5>1. Len(events') \in i..Len(events')
          BY <3>1
        <5>. QED
          BY <1>2, <1>9, <3>1, <4>1, <5>1
      <4>2. CASE events'[i].path # ev.path
        <5>1. i \in 1..Len(events) /\ events'[i] = events[i]
          BY <3>1, <4>2
        <5>2. PICK j \in i..Len(events) : events[j] = [path |-> events[i].path, n |-> seen[events[i].path]]
          BY <1>3, <3>1, <5>1 DEF QueueInv, Held
        <5>3. j \in i..Len(events') /\ events'[j] = events[j]
          BY <3>1, <5>1, <5>2
        <5>. QED
          BY <1>9, <4>2, <5>1, <5>2, <5>3
      <4>. QED
        BY <4>1, <4>2
    <3>. QED
      BY <3>2 DEF QueueInv
  <2>2. CASE events' = events /\ loop' = "full" /\ held' = ev
    <3>1. ASSUME NEW i \in DOMAIN events
          PROVE  \/ \E j \in i..Len(events) : events[j] = [path |-> events[i].path, n |-> seen'[events[i].path]]
                 \/ Held(events[i].path)'
      BY <1>3, <1>9, <2>2 DEF QueueInv, Held
    <3>. QED
      BY <2>2, <3>1 DEF QueueInv
  <2>. QED
    BY <1>4, <2>1, <2>2
<1>13. BatchInv'
  <2>1. ASSUME NEW i \in DOMAIN batch, NEW p, p = batch[i].path
        PROVE  batch[i].n = seen'[p] \/ Ahead(p)' \/ p \in dropped'
    BY <1>3, <1>9, <1>10, <1>11, <2>1 DEF BatchInv
  <2>2. \A i \in DOMAIN batch : batch[i].n = seen'[batch[i].path] \/ Ahead(batch[i].path)' \/ batch[i].path \in dropped'
    BY <1>3, <2>1
  <2>. QED
    BY <1>3, <2>2 DEF BatchInv
<1>14. LostInv'
  <2>1. ASSUME NEW p \in Path, seen'[p] # checked[p]
        PROVE  Ahead(p)' \/ In(batch, p, seen'[p]) \/ p \in dropped' \/ dispatch = "ended"
    BY <1>3, <1>9, <1>10, <1>11, <2>1 DEF LostInv
  <2>. QED
    BY <1>3, <2>1 DEF LostInv, In
<1>. QED
  BY <1>6, <1>7, <1>8, <1>12, <1>13, <1>14

\* The channel is full: the event in hand takes the place of the oldest, which is
\* counted as dropped if it was the newest of its file and the only one.
LEMMA DropStep ==
  ASSUME IInv, DropOldest
  PROVE  IInv'
<1>. DEFINE rest == IF events = <<>> THEN <<>> ELSE Tail(events)
<1>. USE DEF IInv
<1>1. /\ loop = "full" /\ loop' = "select" /\ events' = Append(rest, held)
      /\ dropped \subseteq dropped'
      /\ UNCHANGED <<disk, raw, owner, seen, batch, checked, dispatch, timer, armedFor, taken>>
  BY DEF DropOldest, dispatching, calls, disks
<1>2. events \in Seq(Change) /\ held \in Change /\ held.n = seen[held.path] /\ rest \in Seq(Change)
  BY <1>1 DEF TypeInv, HeldInv
<1>3. TypeInv'
  <2>1. events' \in Seq(Change)
    BY <1>1, <1>2
  <2>. QED
    BY <1>1, <2>1 DEF TypeInv
<1>4. LaunchInv' /\ TimerInv' /\ HeldInv'
  BY <1>1 DEF LaunchInv, TimerInv, HeldInv
<1>5. ASSUME NEW p, Ahead(p) PROVE Ahead(p)' \/ p \in dropped' \/ In(batch, p, seen[p])
  <2>1. CASE Held(p)
    <3>1. In(events', p, seen[p])
      BY <1>1, <1>2, <2>1, InAppend DEF Held
    <3>. QED
      BY <1>1, <3>1 DEF Ahead, In
  <2>2. CASE In(events, p, seen[p])
    <3>1. events # <<>>
      BY <2>2 DEF In
    <3>2. In(rest, p, seen[p]) \/ Head(events) = [path |-> p, n |-> seen[p]]
      BY <1>2, <2>2, <3>1, InTail
    <3>3. In(rest, p, seen[p]) => In(events', p, seen[p])
      BY <1>1, <1>2, InAppend
    <3>4. Head(events) = [path |-> p, n |-> seen[p]]
            => p \in dropped' \/ In(events', p, seen[p]) \/ In(batch, p, seen[p])
      BY <3>1 DEF DropOldest
    <3>. QED
      BY <1>1, <3>2, <3>3, <3>4 DEF Ahead, In
  <2>. QED
    BY <1>5, <2>1, <2>2 DEF Ahead
<1>6. QueueInv'
  <2>1. /\ Len(events') = Len(rest) + 1 /\ Len(rest) \in Nat /\ events'[Len(rest) + 1] = held
        /\ \A i \in 1..Len(rest) : events'[i] = rest[i]
        /\ DOMAIN events' = 1..Len(events') /\ DOMAIN events = 1..Len(events)
    BY <1>1, <1>2
  <2>2. held = [path |-> held.path, n |-> seen[held.path]]
    BY <1>2 DEF Change
  <2>3. \A i \in 1..Len(rest) : rest[i] = events[i + 1] /\ i + 1 \in 1..Len(events)
    BY <1>2
  <2>4. Len(rest) > 0 => Len(events) = Len(rest) + 1
    BY <1>2
  <2>. HIDE DEF rest
  <2>5. ASSUME NEW i \in DOMAIN events'
        PROVE  \E j \in i..Len(events') : events'[j] = [path |-> events'[i].path, n |-> seen[events'[i].path]]
    <3>1. CASE events'[i].path = held.path
      BY <2>1, <2>2, <3>1
    <3>2. CASE events'[i].path # held.path
      <4>1. i \in 1..Len(rest) /\ events'[i] = events[i + 1] /\ i + 1 \in DOMAIN events
        BY <2>1, <2>3, <3>2
      <4>2. PICK j \in i + 1..Len(events) : events[j] = [path |-> events[i + 1].path, n |-> seen[events[i + 1].path]]
        BY <3>2, <4>1 DEF QueueInv, Held
      <4>3. j - 1 \in i..Len(events') /\ j - 1 \in 1..Len(rest) /\ events'[j - 1] = events[j]
        <5>1. Len(events) = Len(rest) + 1 /\ j \in Int /\ i \in Int /\ i > 0 /\ Len(rest) \in Nat
          <6>1. i \in Int /\ i > 0 /\ Len(rest) > 0
            BY <2>1, <4>1
          <6>2. Len(rest) \in Nat
            BY <2>1
          <6>3. Len(events) = Len(rest) + 1
            BY <2>4, <6>1
          <6>4. j \in i + 1..Len(events)
            BY <4>2
          <6>. QED
            BY <6>1, <6>2, <6>3, <6>4
        <5>2. j - 1 \in i..Len(events') /\ j - 1 \in 1..Len(rest) /\ j - 1 + 1 = j
          BY <2>1, <4>2, <5>1
        <5>. QED
          BY <2>1, <2>3, <5>2
      <4>. QED
        BY <4>1, <4>2, <4>3
    <3>. QED
      BY <3>1, <3>2
  <2>. QED
    BY <1>1, <2>5 DEF QueueInv
<1>7. BatchInv'
  <2>1. ASSUME NEW i \in DOMAIN batch, NEW p, p = batch[i].path
        PROVE  batch[i].n = seen[p] \/ Ahead(p)' \/ p \in dropped'
    <3>1. In(batch, p, seen[p]) => batch[i].n = seen[p]
      BY <2>1 DEF BatchInv, In
    <3>. QED
      BY <1>1, <1>5, <2>1, <3>1 DEF BatchInv
  <2>2. \A i \in DOMAIN batch : batch[i].n = seen[batch[i].path] \/ Ahead(batch[i].path)' \/ batch[i].path \in dropped'
    BY <1>1, <2>1
  <2>. QED
    BY <1>1, <2>2 DEF BatchInv
<1>8. LostInv'
  <2>1. \A p \in Path : seen[p] # checked[p] =>
          Ahead(p)' \/ In(batch, p, seen[p]) \/ p \in dropped' \/ dispatch = "ended"
    BY <1>1, <1>5 DEF LostInv
  <2>. QED
    BY <1>1, <2>1 DEF LostInv, In
<1>. QED
  BY <1>3, <1>4, <1>6, <1>7, <1>8

\* The dispatcher takes an event into the batch: if it is not the newest of its
\* file, the newest is still ahead.
LEMMA TakeStep ==
  ASSUME IInv, Take
  PROVE  IInv'
<1>. USE DEF IInv
<1>. PICK ev : ev = Head(events)
  OBVIOUS
<1>1. /\ dispatch = "select" /\ events # <<>> /\ events' = Tail(events) /\ batch' = Collect(batch, ev)
      /\ timer' = "armed" /\ armedFor' = taken'
      /\ UNCHANGED <<disk, raw, owner, loop, held, seen, dropped, checked, dispatch>>
  BY DEF Take, calls, disks
<1>2. events \in Seq(Change) /\ batch \in Seq(Change) /\ ev \in Change /\ events' \in Seq(Change)
  BY <1>1 DEF TypeInv
<1>3. ev = [path |-> ev.path, n |-> ev.n] /\ ev.path \in Path
  BY <1>2 DEF Change
<1>4. ev.n = seen[ev.path] \/ Ahead(ev.path)'
  <2>1. 1 \in DOMAIN events /\ events[1] = ev
    BY <1>1, <1>2
  <2>2. CASE Held(ev.path)
    BY <1>1, <2>2 DEF Ahead, Held
  <2>3. CASE \E j \in 1..Len(events) : events[j] = [path |-> ev.path, n |-> seen[ev.path]]
    <3>1. In(events, ev.path, seen[ev.path])
      BY <1>2, <2>3 DEF In
    <3>2. In(events', ev.path, seen[ev.path]) \/ ev = [path |-> ev.path, n |-> seen[ev.path]]
      BY <1>1, <1>2, <3>1, InTail
    <3>. QED
      BY <1>1, <1>3, <3>2 DEF Ahead, In
  <2>. QED
    BY <2>1, <2>2, <2>3 DEF QueueInv
<1>5. ASSUME NEW p, p # ev.path, Ahead(p) PROVE Ahead(p)'
  <2>1. CASE Held(p)
    BY <1>1, <2>1 DEF Ahead, Held
  <2>2. CASE In(events, p, seen[p])
    <3>1. In(events', p, seen[p])
      BY <1>1, <1>2, <1>5, <2>2, InTail
    <3>. QED
      BY <1>1, <3>1 DEF Ahead, In
  <2>. QED
    BY <1>5, <2>1, <2>2 DEF Ahead
<1>6. QueueInv'
  <2>1. /\ Len(events) = Len(events') + 1 /\ Len(events') \in Nat
        /\ \A i \in 1..Len(events') : events'[i] = events[i + 1]
        /\ DOMAIN events' = 1..Len(events') /\ DOMAIN events = 1..Len(events)
    BY <1>1, <1>2
  <2>2. ASSUME NEW i \in DOMAIN events', ~Held(events'[i].path)
        PROVE  \E j \in i..Len(events') : events'[j] = [path |-> events'[i].path, n |-> seen[events'[i].path]]
    <3>1. i + 1 \in DOMAIN events /\ events'[i] = events[i + 1]
      BY <2>1
    <3>2. PICK j \in i + 1..Len(events) : events[j] = [path |-> events[i + 1].path, n |-> seen[events[i + 1].path]]
      BY <2>2, <3>1 DEF QueueInv
    <3>3. j - 1 \in i..Len(events') /\ events'[j - 1] = events[j]
      BY <2>1, <3>2
    <3>. QED
      BY <3>1, <3>2, <3>3
  <2>. QED
    BY <1>1, <2>2 DEF QueueInv, Held
<1>7. /\ batch' \in Seq(Change) /\ batch' # <<>> /\ In(batch', ev.path, ev.n)
      /\ \A i \in DOMAIN batch' :
           \/ batch'[i] = ev
           \/ i \in DOMAIN batch /\ batch'[i] = batch[i] /\ batch[i].path # ev.path
      /\ \A p, n : In(batch, p, n) /\ p # ev.path => In(batch', p, n)
  <2>1. /\ Collect(batch, ev) \in Seq(Change) /\ Collect(batch, ev) # <<>> /\ In(Collect(batch, ev), ev.path, ev.n)
        /\ \A i \in DOMAIN Collect(batch, ev) :
             \/ Collect(batch, ev)[i] = ev
             \/ i \in DOMAIN batch /\ Collect(batch, ev)[i] = batch[i] /\ batch[i].path # ev.path
        /\ \A p, n : In(batch, p, n) /\ p # ev.path => In(Collect(batch, ev), p, n)
    BY <1>2, CollectHolds
  <2>2. batch' = Collect(batch, ev)
    BY <1>1
  <2>. QED
    BY <2>1, <2>2
<1>8. TypeInv'
  BY <1>1, <1>2, <1>7 DEF TypeInv
<1>9. LaunchInv' /\ TimerInv' /\ HeldInv'
  BY <1>1, <1>7 DEF LaunchInv, TimerInv, HeldInv
<1>10. BatchInv'
  <2>1. \A i, j \in DOMAIN batch' : batch'[i].path = batch'[j].path => i = j
    BY <1>1, <1>2, CollectOnce DEF BatchInv
  <2>2. ASSUME NEW i \in DOMAIN batch', NEW p, p = batch'[i].path
        PROVE  batch'[i].n = seen[p] \/ Ahead(p)' \/ p \in dropped
    BY <1>4, <1>5, <1>7, <2>2 DEF BatchInv
  <2>3. \A i \in DOMAIN batch' :
          batch'[i].n = seen[batch'[i].path] \/ Ahead(batch[i].path)' \/ batch'[i].path \in dropped
    BY <2>2
  <2>. QED
    BY <1>1, <2>1, <2>3 DEF BatchInv
<1>11. LostInv'
  <2>1. ASSUME NEW p \in Path, seen[p] # checked[p]
        PROVE  Ahead(p)' \/ In(batch', p, seen[p]) \/ p \in dropped
    <3>1. CASE p = ev.path
      BY <1>4, <1>7, <3>1
    <3>2. CASE p # ev.path
      BY <1>1, <1>5, <1>7, <2>1, <3>2 DEF LostInv
    <3>. QED
      BY <3>1, <3>2
  <2>. QED
    BY <1>1, <2>1 DEF LostInv, In
<1>. QED
  BY <1>6, <1>8, <1>9, <1>10, <1>11

\* The checker gets the batch: of each file in it the newest change, unless that is
\* ahead or was dropped.
LEMMA FlushStep ==
  ASSUME IInv, Tick \/ Halt
  PROVE  IInv'
<1>. USE DEF IInv
<1>1. /\ dispatch = "select" /\ batch' = <<>> /\ timer' = "none"
      /\ checked' = [p \in Path |->
           IF \E i \in DOMAIN batch : batch[i].path = p
           THEN (CHOOSE ev \in ToSet(batch) : ev.path = p).n ELSE checked[p]]
      /\ UNCHANGED <<disk, raw, owner, loop, held, events, seen, dropped, armedFor, taken>>
  BY DEF Tick, Halt, Flush, calls, disks
<1>2. owner = "started"
  BY <1>1 DEF LaunchInv
<1>3. \A p : Ahead(p)' = Ahead(p) /\ Held(p)' = Held(p)
  BY <1>1 DEF Ahead, Held, In
<1>4. ASSUME NEW i \in DOMAIN batch
      PROVE  checked'[batch[i].path] = batch[i].n /\ batch[i] \in Change
  <2>1. batch[i] \in Change /\ batch[i] \in ToSet(batch)
    BY <1>4 DEF TypeInv, ToSet
  <2>2. \A ev \in ToSet(batch) : ev.path = batch[i].path => ev = batch[i]
    BY <1>4 DEF BatchInv, ToSet
  <2>3. (CHOOSE ev \in ToSet(batch) : ev.path = batch[i].path) = batch[i]
    BY <2>1, <2>2
  <2>4. batch[i].path \in Path
    BY <2>1 DEF Change
  <2>. QED
    BY <1>1, <1>4, <2>1, <2>3, <2>4
<1>5. ASSUME NEW p \in Path, ~\E i \in DOMAIN batch : batch[i].path = p
      PROVE  checked'[p] = checked[p]
  BY <1>1, <1>5
<1>6. TypeInv'
  <2>1. checked' \in [Path -> 0..MaxChanges]
    <3>1. ASSUME NEW p \in Path PROVE checked'[p] \in 0..MaxChanges
      <4>1. CASE \E i \in DOMAIN batch : batch[i].path = p
        BY <1>4, <4>1, WatcherAssumption DEF Change
      <4>2. CASE ~\E i \in DOMAIN batch : batch[i].path = p
        BY <1>5, <4>2 DEF TypeInv
      <4>. QED
        BY <4>1, <4>2
    <3>. QED
      BY <1>1, <3>1
  <2>. QED
    BY <1>1, <2>1 DEF TypeInv
<1>7. LaunchInv' /\ TimerInv' /\ HeldInv'
  BY <1>1, <1>2 DEF LaunchInv, TimerInv, HeldInv
<1>8. QueueInv'
  BY <1>1, <1>3 DEF QueueInv
<1>9. BatchInv'
  BY <1>1 DEF BatchInv
<1>10. LostInv'
  <2>1. ASSUME NEW p \in Path, seen[p] # checked'[p] PROVE Ahead(p) \/ p \in dropped
    <3>1. CASE \E i \in DOMAIN batch : batch[i].path = p
      BY <1>4, <2>1, <3>1 DEF BatchInv
    <3>2. CASE ~\E i \in DOMAIN batch : batch[i].path = p
      <4>1. ~In(batch, p, seen[p])
        BY <3>2 DEF In
      <4>. QED
        BY <1>1, <1>5, <2>1, <3>2, <4>1 DEF LostInv
    <3>. QED
      BY <3>1, <3>2
  <2>. QED
    BY <1>1, <1>3, <2>1 DEF LostInv
<1>. QED
  BY <1>6, <1>7, <1>8, <1>9, <1>10

\* Nothing else touches the queues, the batch or what was seen and checked.
LEMMA OtherStep ==
  ASSUME IInv,
         \/ \E p \in Path : ChangeFile(p) \/ Repeat(p)
         \/ MakeDirectory \/ Start \/ AddRoot \/ StartFails \/ AddSubdirectory \/ Launch
         \/ Stop \/ CloseWatcher \/ Cancel
         \/ LoopEnds \/ HandleDirectory \/ HandleIgnored
         \/ Send \/ GiveUp \/ Fire \/ Consume \/ UNCHANGED vars
  PROVE  IInv'
<1>. USE DEF IInv
<1>1. UNCHANGED <<seen, checked, events, held, batch, dropped, taken, armedFor>>
  BY DEF ChangeFile, Repeat, MakeDirectory, Start, AddRoot, StartFails, AddSubdirectory, Launch, Stop, CloseWatcher, Cancel,
         LoopEnds, HandleDirectory, HandleIgnored, Send, GiveUp, Fire, Consume, disks, calls, dispatching, vars
<1>2. /\ loop' = loop \/ (loop # "full" /\ loop' # "full")
      /\ dispatch = "ended" => dispatch' = "ended"
      /\ owner' # "started" => owner # "started" /\ loop' = loop /\ dispatch' = dispatch
      /\ timer' # "none" => timer # "none"
  BY DEF LaunchInv, ChangeFile, Repeat, MakeDirectory, Start, AddRoot, StartFails, AddSubdirectory, Launch, Stop, CloseWatcher,
         Cancel, LoopEnds, HandleDirectory, HandleIgnored, Send, GiveUp, Fire, Consume, disks, calls, dispatching, vars
<1>3. disk' \in [Path -> 0..MaxChanges] /\ raw' \in Seq(Change \union {NewDirectory})
  <2>1. ASSUME NEW p \in Path, ChangeFile(p)
        PROVE  disk' \in [Path -> 0..MaxChanges] /\ raw' \in Seq(Change \union {NewDirectory})
    <3>1. Made + 1 \in 1..MaxChanges
      BY <2>1, MadeFits, WatcherAssumption DEF ChangeFile
    <3>2. disk' = [disk EXCEPT ![p] = Made + 1] /\ Notify(Dir(p), [path |-> p, n |-> Made + 1])
      BY <2>1 DEF ChangeFile
    <3>. QED
      BY <3>1, <3>2, WatcherAssumption DEF TypeInv, Notify, Change
  <2>2. CASE MakeDirectory
    BY <2>2 DEF MakeDirectory, Notify, TypeInv
  <2>3. CASE StartFails \/ CloseWatcher
    <3>1. raw' = <<>> /\ disk' = disk
      BY <2>3 DEF StartFails, CloseWatcher, disks
    <3>. QED
      BY <3>1 DEF TypeInv
  <2>4. CASE HandleDirectory \/ HandleIgnored
    <3>1. raw # <<>> /\ raw' = Tail(raw) /\ disk' = disk
      BY <2>4 DEF HandleDirectory, HandleIgnored, NextEvent, disks
    <3>. QED
      BY <3>1 DEF TypeInv
  <2>5. CASE UNCHANGED <<disk, raw>>
    BY <2>5 DEF TypeInv
  <2>6. ASSUME NEW p \in Path, Repeat(p)
        PROVE  disk' \in [Path -> 0..MaxChanges] /\ raw' \in Seq(Change \union {NewDirectory})
    <3>1. disk[p] \in 1..MaxChanges /\ disk' = disk
      BY <2>6 DEF Repeat, TypeInv, disks
    <3>2. [path |-> p, n |-> disk[p]] \in Change
      BY <3>1 DEF Change
    <3>. QED
      BY <2>6, <3>1, <3>2 DEF Repeat, TypeInv, Notify
  <2>. QED
    BY <2>1, <2>2, <2>3, <2>4, <2>5, <2>6
    DEF Start, AddRoot, AddSubdirectory, Launch, Stop, Cancel, LoopEnds, Send, GiveUp, Fire, Consume, disks, vars
<1>4. TypeInv'
  BY <1>1, <1>2, <1>3 DEF TypeInv
<1>5. LaunchInv' /\ TimerInv'
  BY <1>1, <1>2 DEF LaunchInv, TimerInv
<1>. QED
  BY <1>1, <1>2, <1>4, <1>5, QuietStep

\* Spec keeps the inductive invariant.
THEOREM Invariant ==
  Spec => []IInv
<1>1. Init => IInv
  BY WatcherAssumption DEF Init, IInv, TypeInv, LaunchInv, HeldInv, QueueInv, BatchInv, LostInv, TimerInv
<1>2. ASSUME IInv, [Next]_vars PROVE IInv'
  <2>1. CASE HandleEvent
    BY <1>2, <2>1, HandleStep
  <2>2. CASE DropOldest
    BY <1>2, <2>2, DropStep
  <2>3. CASE Take
    BY <1>2, <2>3, TakeStep
  <2>4. CASE Tick \/ Halt
    BY <1>2, <2>4, FlushStep
  <2>. QED
    BY <1>2, <2>1, <2>2, <2>3, <2>4, OtherStep DEF Next, EventLoop, Dispatcher
<1>. QED
  BY <1>1, <1>2, PTL DEF Spec

\* The newest change of a file that the event loop has seen is checked, or on its way,
\* or was pushed out of the full channel, whatever the interleaving of the loops,
\* the timer and Stop; and a tick is never stale (eventLoop, dispatchLoop).
THEOREM NewestChangeKept ==
  Spec => []NoChangeLost
<1>1. IInv => NoChangeLost
  <2>. SUFFICES ASSUME IInv PROVE NoChangeLost
    OBVIOUS
  <2>. USE DEF IInv
  <2>1. ASSUME NEW p \in Path, seen[p] # checked[p]
        PROVE  \/ In(events, p, seen[p]) \/ In(batch, p, seen[p]) \/ held = [path |-> p, n |-> seen[p]]
               \/ p \in dropped \/ dispatch = "ended"
    <3>1. Held(p) => held = [path |-> p, n |-> seen[p]]
      BY DEF Held, HeldInv, TypeInv, Change
    <3>. QED
      BY <2>1, <3>1 DEF LostInv, Ahead
  <2>2. timer = "fired" => armedFor = taken /\ batch # <<>>
    BY DEF TimerInv
  <2>. QED
    BY <2>1, <2>2 DEF NoChangeLost, BatchInv
<1>. QED
  BY <1>1, Invariant, PTL
-----------------------------------------------------------------------------
(* Generated migrations.                                                   *)

\* What holds of 0, and of a next number with each number, holds of all of them.
LEMMA NumbersFrom0 ==
  ASSUME NEW S, 0 \in S, \A n \in Nat : n \in S => n + 1 \in S
  PROVE  \A n \in Nat : n \in S
<1>. SUFFICES ASSUME Nat \ S # {} PROVE FALSE
  OBVIOUS
<1>1. PICK x \in Nat \ S : \A y \in Nat \ S : ~(<<y, x>> \in OpToRel(<, Nat))
  BY NatLessThanWellFounded, WFMin
<1>2. \A y \in Nat \ S : ~(y < x)
  BY <1>1 DEF OpToRel
<1>3. x \in Nat /\ x \notin S /\ x # 0
  OBVIOUS
<1>4. x - 1 \in Nat /\ x - 1 < x /\ (x - 1) + 1 = x
  BY <1>3
<1>5. x - 1 \in S
  BY <1>2, <1>4
<1>. QED
  BY <1>3, <1>4, <1>5

\* What holds of the number k and goes on from each number to the next up to n.
LEMMA Onward ==
  ASSUME NEW n \in Nat, NEW k \in 0..n, NEW S, k \in S,
         \A i \in k..(n - 1) : i \in S => i + 1 \in S
  PROVE  n \in S
<1>. DEFINE T == {i \in Nat : k <= i /\ i <= n => i \in S}
<1>1. 0 \in T
  OBVIOUS
<1>2. ASSUME NEW i \in Nat, i \in T PROVE i + 1 \in T
  <2>1. CASE i + 1 = k
    BY <2>1
  <2>2. CASE i + 1 # k
    <3>1. SUFFICES ASSUME k <= i + 1, i + 1 <= n PROVE i + 1 \in S
      OBVIOUS
    <3>2. i \in k..(n - 1)
      BY <2>2, <3>1
    <3>3. i \in S
      BY <1>2, <3>2
    <3>. QED
      BY <3>2, <3>3
  <2>. QED
    BY <2>1, <2>2
<1>3. n \in T
  <2>. HIDE DEF T
  <2>. QED
    BY <1>1, <1>2, NumbersFrom0
<1>. QED
  BY <1>3

\* Counted off, the places that stay are as many as there are numbers for them.
LEMMA PlacesCount ==
  ASSUME NEW K \in SUBSET Nat, IsFiniteSet(K)
  PROVE  /\ \A i, j \in K : i < j => Cardinality({x \in K : x <= i}) < Cardinality({x \in K : x <= j})
         /\ \A i \in K : Cardinality({x \in K : x <= i}) \in 1..Cardinality(K)
         /\ \A n \in 1..Cardinality(K) : \E i \in K : Cardinality({x \in K : x <= i}) = n
<1>. DEFINE Upto(i) == {x \in K : x <= i}
            rank == [i \in K |-> Cardinality(Upto(i))]
<1>1. \A i \in K : IsFiniteSet(Upto(i)) /\ Cardinality(Upto(i)) \in Nat /\ Cardinality(Upto(i)) <= Cardinality(K)
  <2>1. \A i \in K : Upto(i) \in SUBSET K
    OBVIOUS
  <2>. HIDE DEF Upto
  <2>. QED
    BY <2>1, FS_Subset, FS_CardinalityType
<1>2. Cardinality(K) \in Nat
  BY FS_CardinalityType
<1>3. ASSUME NEW i \in K PROVE Cardinality(Upto(i)) \in 1..Cardinality(K)
  <2>1. i \in Upto(i)
    OBVIOUS
  <2>2. Cardinality(Upto(i)) # 0
    <3>. HIDE DEF Upto
    <3>. QED
      BY <1>1, <2>1, FS_EmptySet
  <2>. QED
    BY <1>1, <1>2, <2>2
<1>4. ASSUME NEW i \in K, NEW j \in K, i < j PROVE Cardinality(Upto(i)) < Cardinality(Upto(j))
  <2>1. Upto(i) \in SUBSET Upto(j) /\ j \in Upto(j) /\ j \notin Upto(i)
    <3>1. i \in Nat /\ j \in Nat /\ \A x \in K : x \in Nat
      OBVIOUS
    <3>2. \A x \in K : x <= i => x <= j
      BY <1>4, <3>1
    <3>3. j <= j /\ ~(j <= i)
      BY <1>4, <3>1
    <3>. QED
      BY <3>2, <3>3
  <2>2. Cardinality(Upto(i)) <= Cardinality(Upto(j)) /\ Cardinality(Upto(i)) # Cardinality(Upto(j))
    <3>. HIDE DEF Upto
    <3>. QED
      BY <1>1, <2>1, FS_Subset
  <2>. QED
    BY <1>1, <2>2
<1>5. ASSUME NEW n \in 1..Cardinality(K) PROVE \E i \in K : Cardinality(Upto(i)) = n
  <2>. DEFINE N == 1..Cardinality(K)
  <2>1. rank \in [K -> N] /\ \A i, j \in K : rank[i] = rank[j] => i = j
    <3>. HIDE DEF Upto
    <3>1. \A i, j \in K : i < j \/ j < i \/ i = j
      OBVIOUS
    <3>2. \A i \in K : Cardinality(Upto(i)) \in Nat
      BY <1>1
    <3>3. ASSUME NEW i \in K, NEW j \in K, Cardinality(Upto(i)) = Cardinality(Upto(j)) PROVE i = j
      BY <1>4, <3>1, <3>2, <3>3
    <3>. QED
      BY <1>3, <3>3
  <2>. HIDE DEF rank
  <2>2. rank \in Injection(K, N)
    BY <2>1 DEF Injection, IsInjective
  <2>3. IsFiniteSet(N) /\ Cardinality(N) = Cardinality(K)
    BY <1>2, FS_Interval
  <2>4. rank \in Surjection(K, N)
    BY <2>2, <2>3, FS_Injection
  <2>5. \E i \in K : rank[i] = n
    BY <2>4 DEF Surjection
  <2>. QED
    BY <2>5 DEF rank
<1>. QED
  BY <1>3, <1>4, <1>5

-----------------------------------------------------------------------------
(* Sequences by what is in them.                                           *)

Proper(s) == s \in Seq(ToSet(s))

\* A proper sequence has a length, and its members stand at its places.
LEMMA Properness ==
  ASSUME NEW s, Proper(s)
  PROVE  /\ Len(s) \in Nat /\ DOMAIN s = 1..Len(s)
         /\ \A x : x \in ToSet(s) <=> \E i \in 1..Len(s) : s[i] = x
BY DEF Proper, ToSet

\* The sequence of one statement.
LEMMA OneMember ==
  ASSUME NEW x
  PROVE  Proper(<<x>>) /\ ToSet(<<x>>) = {x}
BY DEF Proper, ToSet

\* The empty sequence.
LEMMA NoMember == Proper(<<>>) /\ ToSet(<<>>) = {}
BY DEF Proper, ToSet

\* One sequence after another has the members of both.
LEMMA ConcatMembers ==
  ASSUME NEW s, NEW t, Proper(s), Proper(t)
  PROVE  Proper(s \o t) /\ ToSet(s \o t) = ToSet(s) \union ToSet(t)
<1>. DEFINE A == ToSet(s) \union ToSet(t)
<1>1. s \in Seq(A) /\ t \in Seq(A)
  BY DEF Proper, ToSet
<1>. HIDE DEF A
<1>2. /\ s \o t \in Seq(A) /\ Len(s \o t) = Len(s) + Len(t)
      /\ \A i \in 1..Len(s) + Len(t) : (s \o t)[i] = IF i <= Len(s) THEN s[i] ELSE t[i - Len(s)]
  BY <1>1, ConcatProperties
<1>3. Len(s) \in Nat /\ Len(t) \in Nat /\ DOMAIN s = 1..Len(s) /\ DOMAIN t = 1..Len(t)
      /\ DOMAIN (s \o t) = 1..Len(s) + Len(t)
  BY <1>1, <1>2
<1>4. ToSet(s \o t) \subseteq A
  BY <1>2, <1>3 DEF ToSet, A
<1>5. ASSUME NEW i \in 1..Len(s) PROVE s[i] \in ToSet(s \o t)
  <2>1. i \in 1..Len(s) + Len(t) /\ (s \o t)[i] = s[i]
    BY <1>2, <1>3
  <2>. QED
    BY <1>3, <2>1 DEF ToSet
<1>6. ASSUME NEW i \in 1..Len(t) PROVE t[i] \in ToSet(s \o t)
  <2>1. Len(s) + i \in 1..Len(s) + Len(t) /\ ~(Len(s) + i <= Len(s)) /\ (Len(s) + i) - Len(s) = i
    BY <1>3
  <2>2. (s \o t)[Len(s) + i] = t[i]
    BY <1>2, <2>1
  <2>. QED
    BY <1>3, <2>1, <2>2 DEF ToSet
<1>7. ToSet(s \o t) = A
  BY <1>3, <1>4, <1>5, <1>6 DEF ToSet, A
<1>8. s \o t \in Seq(ToSet(s \o t))
  BY <1>2, <1>7
<1>. QED
  BY <1>7, <1>8 DEF Proper, A

\* What a function of the numbers up to n gives is a sequence.
LEMMA ListMembers ==
  ASSUME NEW n \in Nat, NEW f, f = [i \in 1..n |-> f[i]]
  PROVE  Proper(f) /\ Len(f) = n /\ ToSet(f) = {f[i] : i \in 1..n}
BY DEF Proper, ToSet

\* The values of a map with the names in order: each of them, and nothing else.
LEMMA EachMembers ==
  ASSUME NEW f, DOMAIN f \in SUBSET Nat, IsFiniteSet(DOMAIN f)
  PROVE  Proper(Each(f)) /\ ToSet(Each(f)) = {f[n] : n \in DOMAIN f}
<1>. DEFINE S == DOMAIN f  C == Cardinality(S)
            rank(n) == Cardinality({m \in S : m <= n})
<1>1. C \in Nat
  BY FS_CardinalityType
<1>2. /\ \A n \in S : rank(n) \in 1..C
      /\ \A i \in 1..C : \E n \in S : rank(n) = i
      /\ \A n, m \in S : rank(n) = rank(m) => n = m
  <2>1. \A n, m \in S : n < m => rank(n) < rank(m)
    BY PlacesCount
  <2>2. \A n \in S : rank(n) \in 1..C
    BY PlacesCount
  <2>3. \A i \in 1..C : \E n \in S : rank(n) = i
    BY PlacesCount
  <2>4. \A n, m \in S : n < m \/ m < n \/ n = m
    OBVIOUS
  <2>5. \A n \in S : rank(n) \in Nat
    BY <1>1, <2>2
  <2>. HIDE DEF rank
  <2>. QED
    BY <2>1, <2>2, <2>3, <2>4, <2>5
<1>3. Ordered(S) = [i \in 1..C |-> CHOOSE n \in S : rank(n) = i]
  BY DEF Ordered
<1>. HIDE DEF rank, C
<1>4. \A i \in 1..C : Ordered(S)[i] \in S /\ rank(Ordered(S)[i]) = i
  BY <1>2, <1>3
<1>5. \A n \in S : Ordered(S)[rank(n)] = n
  BY <1>2, <1>4
<1>6. Each(f) = [i \in 1..C |-> f[Ordered(S)[i]]]
  BY DEF Each, C
<1>7. \A i \in 1..C : Each(f)[i] = f[Ordered(S)[i]]
  BY <1>6
<1>8. /\ Each(f) = [i \in 1..C |-> Each(f)[i]]
  BY <1>6, <1>7
<1>9. Proper(Each(f)) /\ ToSet(Each(f)) = {Each(f)[i] : i \in 1..C}
  BY <1>1, <1>8, ListMembers
<1>10. {Each(f)[i] : i \in 1..C} = {f[n] : n \in S}
  BY <1>2, <1>4, <1>5, <1>7
<1>. QED
  BY <1>9, <1>10

\* The first lists strung together, for each number of them: FlattenSeq is the last.
Strung(ss) ==
  CHOOSE g : g = [i \in 1..Len(ss) |-> IF i = 1 THEN ss[i] ELSE g[i - 1] \o ss[i]]

\* A sequence strung so far is the one before with the next list behind it.
LEMMA StrungUpto ==
  ASSUME NEW ss, NEW g, NEW m, g = [i \in 1..m |-> IF i = 1 THEN ss[i] ELSE g[i - 1] \o ss[i]], NEW j \in 1..m
  PROVE  g[j] = IF j = 1 THEN ss[j] ELSE g[j - 1] \o ss[j]
OBVIOUS

\* FlattenSeq strings the lists together one by one.
LEMMA StrungStepByStep ==
  ASSUME NEW ss, Proper(ss), Len(ss) # 0
  PROVE  /\ FlattenSeq(ss) = Strung(ss)[Len(ss)] /\ Strung(ss)[1] = ss[1]
         /\ \A i \in 2..Len(ss) : Strung(ss)[i] = Strung(ss)[i - 1] \o ss[i]
<1>1. FlattenSeq(ss) = Strung(ss)[Len(ss)]
  BY DEF FlattenSeq, Strung
<1>. DEFINE Upto(g, m) == g = [i \in 1..m |-> IF i = 1 THEN ss[i] ELSE g[i - 1] \o ss[i]]
            S == {m \in Nat : \E g : Upto(g, m)}
<1>2. 0 \in S
  <2>1. Upto([i \in 1..0 |-> ss[1]], 0)
    OBVIOUS
  <2>. QED
    BY <2>1
<1>3. ASSUME NEW m \in Nat, m \in S
      PROVE  m + 1 \in S
  <2>1. PICK g : Upto(g, m)
    BY <1>3
  <2>. DEFINE h == [i \in 1..m + 1 |-> IF i = m + 1 THEN (IF m = 0 THEN ss[1] ELSE g[m] \o ss[m + 1]) ELSE g[i]]
  <2>2. \A i \in 1..m : h[i] = g[i] /\ g[i] = IF i = 1 THEN ss[i] ELSE g[i - 1] \o ss[i]
    <3>1. \A i \in 1..m : g[i] = IF i = 1 THEN ss[i] ELSE g[i - 1] \o ss[i]
      BY <2>1, StrungUpto
    <3>2. \A i \in 1..m : h[i] = g[i]
      OBVIOUS
    <3>. QED
      BY <3>1, <3>2
  <2>3. ASSUME NEW i \in 1..m + 1
        PROVE  h[i] = IF i = 1 THEN ss[i] ELSE h[i - 1] \o ss[i]
    <3>1. CASE i = m + 1
      BY <2>2, <3>1
    <3>2. CASE i # m + 1
      <4>1. i \in 1..m /\ (i # 1 => i - 1 \in 1..m)
        BY <3>2
      <4>. HIDE DEF h
      <4>. QED
        BY <2>2, <4>1
    <3>. QED
      BY <3>1, <3>2
  <2>4. h = [i \in 1..m + 1 |-> h[i]]
    OBVIOUS
  <2>. HIDE DEF h
  <2>5. Upto(h, m + 1)
    BY <2>3, <2>4
  <2>6. m + 1 \in Nat
    OBVIOUS
  <2>. HIDE DEF Upto
  <2>. QED
    BY <2>5, <2>6
<1>4. Len(ss) \in S
  <2>1. Len(ss) \in Nat
    BY Properness
  <2>. HIDE DEF S
  <2>. QED
    BY <1>2, <1>3, <2>1, NumbersFrom0
<1>5. Upto(Strung(ss), Len(ss))
  BY <1>4 DEF Strung
<1>6. \A i \in 1..Len(ss) :
         Strung(ss)[i] = IF i = 1 THEN ss[i] ELSE Strung(ss)[i - 1] \o ss[i]
  BY <1>5, StrungUpto
<1>7. Len(ss) \in Nat /\ 1 \in 1..Len(ss) /\ \A i \in 2..Len(ss) : i \in 1..Len(ss) /\ i # 1
  <2>1. Len(ss) \in Nat
    BY Properness
  <2>. QED
    BY <2>1
<1>. HIDE DEF Upto, S
<1>8. Strung(ss)[1] = ss[1]
  BY <1>6, <1>7
<1>9. \A i \in 2..Len(ss) : Strung(ss)[i] = Strung(ss)[i - 1] \o ss[i]
  BY <1>6, <1>7
<1>. QED
  BY <1>1, <1>8, <1>9

\* Lists strung together have the members of each.
LEMMA FlattenMembers ==
  ASSUME NEW ss, Proper(ss), \A s \in ToSet(ss) : Proper(s)
  PROVE  Proper(FlattenSeq(ss)) /\ ToSet(FlattenSeq(ss)) = UNION {ToSet(s) : s \in ToSet(ss)}
<1>1. Len(ss) \in Nat /\ DOMAIN ss = 1..Len(ss) /\ \A i \in 1..Len(ss) : ss[i] \in ToSet(ss)
  BY Properness
<1>2. CASE Len(ss) = 0
  <2>1. FlattenSeq(ss) = ss
    BY <1>2 DEF FlattenSeq
  <2>2. ToSet(ss) = {}
    BY <1>1, <1>2 DEF ToSet
  <2>. QED
    BY <2>1, <2>2
<1>3. CASE Len(ss) # 0
  <2>. DEFINE N == Len(ss)
              Sum(n) == UNION {ToSet(ss[i]) : i \in 1..n}
              S == {n \in Nat : Proper(Strung(ss)[n]) /\ ToSet(Strung(ss)[n]) = Sum(n)}
  <2>1. 1 \in S
    <3>1. Sum(1) = ToSet(ss[1])
      <4>1. \A i : i \in 1..1 <=> i = 1
        OBVIOUS
      <4>. QED
        BY <4>1
    <3>2. 1 \in 1..N
      BY <1>1, <1>3
    <3>. QED
      BY <1>1, <1>3, <3>1, <3>2, StrungStepByStep
  <2>2. ASSUME NEW n \in 1..(N - 1), n \in S PROVE n + 1 \in S
    <3>1. n + 1 \in 2..N /\ (n + 1) - 1 = n /\ n + 1 \in 1..N /\ n + 1 \in Nat
      BY <1>1
    <3>2. Strung(ss)[n + 1] = Strung(ss)[n] \o ss[n + 1]
      BY <1>3, <3>1, StrungStepByStep
    <3>3. Proper(ss[n + 1])
      BY <1>1, <3>1
    <3>4. Proper(Strung(ss)[n + 1]) /\ ToSet(Strung(ss)[n + 1]) = Sum(n) \union ToSet(ss[n + 1])
      <4>. HIDE DEF Sum
      <4>. QED
        BY <2>2, <3>2, <3>3, ConcatMembers
    <3>5. Sum(n + 1) = Sum(n) \union ToSet(ss[n + 1])
      <4>1. \A i : i \in 1..(n + 1) <=> i \in 1..n \/ i = n + 1
        BY <3>1
      <4>. QED
        BY <4>1
    <3>. QED
      BY <3>1, <3>4, <3>5
  <2>3. N \in S
    <3>1. N \in Nat /\ 1 \in 0..N
      BY <1>1, <1>3
    <3>. HIDE DEF S, N
    <3>. QED
      BY <2>1, <2>2, <3>1, Onward
  <2>4. Sum(N) = UNION {ToSet(s) : s \in ToSet(ss)}
    BY <1>1, Properness
  <2>. QED
    BY <1>3, <2>3, <2>4, StrungStepByStep
<1>. QED
  BY <1>2, <1>3

-----------------------------------------------------------------------------
(* Runs of statements.                                                     *)

\* The database after each of the statements, or Failed: RunAll is the last.
Course(stmts, d) ==
  CHOOSE g : g = [n \in 0..Len(stmts) |->
                   IF n = 0 THEN d
                   ELSE IF g[n - 1] = Failed \/ ~Accepts(stmts[n], g[n - 1]) THEN Failed
                   ELSE Effect(stmts[n], g[n - 1])]

\* A run that came through: every statement was accepted.
CameThrough(g, stmts, d, e) ==
  /\ g[0] = d /\ g[Len(stmts)] = e
  /\ \A n \in 1..Len(stmts) : Accepts(stmts[n], g[n - 1]) /\ g[n] = Effect(stmts[n], g[n - 1])

\* A statement that runs takes the database before it to the one after.
LEMMA CourseUpto ==
  ASSUME NEW stmts, NEW d, NEW g, NEW m,
         g = [n \in 0..m |->
               IF n = 0 THEN d
               ELSE IF g[n - 1] = Failed \/ ~Accepts(stmts[n], g[n - 1]) THEN Failed
               ELSE Effect(stmts[n], g[n - 1])],
         NEW j \in 0..m
  PROVE  g[j] = IF j = 0 THEN d
                ELSE IF g[j - 1] = Failed \/ ~Accepts(stmts[j], g[j - 1]) THEN Failed
                ELSE Effect(stmts[j], g[j - 1])
OBVIOUS

\* RunAll runs the statements one by one (ExecuteMigration).
LEMMA CourseStepByStep ==
  ASSUME NEW stmts, NEW d, Proper(stmts)
  PROVE  /\ RunAll(stmts, d) = Course(stmts, d)[Len(stmts)] /\ Course(stmts, d)[0] = d
         /\ \A n \in 1..Len(stmts) :
              Course(stmts, d)[n] =
                IF Course(stmts, d)[n - 1] = Failed \/ ~Accepts(stmts[n], Course(stmts, d)[n - 1]) THEN Failed
                ELSE Effect(stmts[n], Course(stmts, d)[n - 1])
<1>1. RunAll(stmts, d) = Course(stmts, d)[Len(stmts)]
  BY DEF RunAll, Course
<1>. DEFINE Step(n, x) == IF x = Failed \/ ~Accepts(stmts[n], x) THEN Failed ELSE Effect(stmts[n], x)
            Upto(g, m) ==
              g = [n \in 0..m |->
                    IF n = 0 THEN d
                    ELSE IF g[n - 1] = Failed \/ ~Accepts(stmts[n], g[n - 1]) THEN Failed
                    ELSE Effect(stmts[n], g[n - 1])]
            S == {m \in Nat : \E g : Upto(g, m)}
<1>2. \A g, m : Upto(g, m) <=> g = [n \in 0..m |-> IF n = 0 THEN d ELSE Step(n, g[n - 1])]
  OBVIOUS
<1>3. \A g, m : Upto(g, m) => \A n \in 0..m : g[n] = IF n = 0 THEN d ELSE Step(n, g[n - 1])
  BY CourseUpto
<1>4. 0 \in S
  <2>1. Upto([n \in 0..0 |-> d], 0)
    OBVIOUS
  <2>. QED
    BY <2>1
<1>5. ASSUME NEW m \in Nat, m \in S
      PROVE  m + 1 \in S
  <2>1. PICK g : Upto(g, m)
    BY <1>5
  <2>. DEFINE h == [n \in 0..m + 1 |-> IF n = m + 1 THEN Step(m + 1, g[m]) ELSE g[n]]
  <2>. HIDE DEF Step, Upto
  <2>2. \A n \in 0..m : h[n] = g[n] /\ g[n] = IF n = 0 THEN d ELSE Step(n, g[n - 1])
    BY <1>3, <2>1
  <2>3. ASSUME NEW n \in 0..m + 1
        PROVE  h[n] = IF n = 0 THEN d ELSE Step(n, h[n - 1])
    <3>1. CASE n = m + 1
      BY <2>2, <3>1
    <3>2. CASE n # m + 1
      <4>1. n \in 0..m /\ (n # 0 => n - 1 \in 0..m)
        BY <3>2
      <4>. HIDE DEF h
      <4>. QED
        BY <2>2, <4>1
    <3>. QED
      BY <3>1, <3>2
  <2>4. h = [n \in 0..m + 1 |-> h[n]]
    OBVIOUS
  <2>. HIDE DEF h
  <2>5. Upto(h, m + 1)
    BY <1>2, <2>3, <2>4
  <2>6. m + 1 \in Nat
    OBVIOUS
  <2>. QED
    BY <2>5, <2>6
<1>6. Len(stmts) \in S /\ Len(stmts) \in Nat
  <2>1. Len(stmts) \in Nat
    BY Properness
  <2>. HIDE DEF S
  <2>. QED
    BY <1>4, <1>5, <2>1, NumbersFrom0
<1>7. Upto(Course(stmts, d), Len(stmts))
  BY <1>6 DEF Course
<1>. HIDE DEF Upto, S, Step
<1>8. \A n \in 0..Len(stmts) :
        Course(stmts, d)[n] = IF n = 0 THEN d ELSE Step(n, Course(stmts, d)[n - 1])
  BY <1>3, <1>7
<1>9. 0 \in 0..Len(stmts) /\ \A n \in 1..Len(stmts) : n \in 0..Len(stmts) /\ n # 0
  BY <1>6
<1>10. Course(stmts, d)[0] = d
  BY <1>8, <1>9
<1>11. \A n \in 1..Len(stmts) : Course(stmts, d)[n] = Step(n, Course(stmts, d)[n - 1])
  BY <1>8, <1>9
<1>. QED
  BY <1>1, <1>10, <1>11 DEF Step

\* When a run does not fail, none of its statements has failed.
LEMMA RunCameThrough ==
  ASSUME NEW stmts, NEW d, Proper(stmts), RunAll(stmts, d) # Failed
  PROVE  CameThrough(Course(stmts, d), stmts, d, RunAll(stmts, d))
<1>. DEFINE g == Course(stmts, d)  N == Len(stmts)
<1>1. N \in Nat
  BY Properness
<1>2. /\ RunAll(stmts, d) = g[N] /\ g[0] = d
      /\ \A n \in 1..N : g[n] = IF g[n - 1] = Failed \/ ~Accepts(stmts[n], g[n - 1]) THEN Failed
                                ELSE Effect(stmts[n], g[n - 1])
  BY CourseStepByStep
<1>. HIDE DEF g
<1>3. ASSUME NEW k \in 0..N PROVE g[k] # Failed
  <2>. DEFINE S == {n \in 0..N : g[n] = Failed}
  <2>1. SUFFICES ASSUME k \in S PROVE FALSE
    OBVIOUS
  <2>2. ASSUME NEW i \in k..(N - 1), i \in S PROVE i + 1 \in S
    <3>1. i + 1 \in 1..N /\ i + 1 \in 0..N /\ (i + 1) - 1 = i
      BY <1>1, <1>3
    <3>. QED
      BY <1>2, <2>2, <3>1
  <2>3. N \in S
    <3>. HIDE DEF S, N
    <3>. QED
      BY <1>1, <2>1, <2>2, Onward
  <2>. QED
    BY <1>2, <2>3
<1>4. ASSUME NEW n \in 1..N PROVE Accepts(stmts[n], g[n - 1]) /\ g[n] = Effect(stmts[n], g[n - 1])
  <2>1. n \in 0..N
    BY <1>1
  <2>. QED
    BY <1>2, <1>3, <2>1
<1>. QED
  BY <1>2, <1>4 DEF CameThrough, g

-----------------------------------------------------------------------------
(* Databases, and what a statement does to the single definitions in them. *)

\* The parts of a table, and the attributes of a bucket.
Parts == {"fields", "indexes", "events", "permissions"}
Attributes == {"permissions", "backend", "readonly", "comment"}
\* A map from names; a table and a database of such maps.
IsMap(f) == f = [n \in DOMAIN f |-> f[n]]

IsStored(def) ==
  /\ def = [fields |-> def.fields, indexes |-> def.indexes, events |-> def.events,
            mode |-> def.mode, permissions |-> def.permissions]
  /\ \A p \in Parts : IsMap(def[p])
IsDatabase(d) ==
  /\ d = [tables |-> d.tables, buckets |-> d.buckets] /\ IsMap(d.tables) /\ IsMap(d.buckets)
  /\ \A t \in DOMAIN d.tables : IsStored(d.tables[t])
  /\ \A b \in DOMAIN d.buckets : IsBucket(d.buckets[b])

\* A statement of a generated migration, whole.
IsStatement(s) ==
  /\ s.do \in {"define table", "remove table", "define", "remove", "permit", "backfill",
               "define bucket", "remove bucket", "alter bucket"}
  /\ s.do \in {"define", "remove"} => s.part \in {"fields", "indexes", "events"}
  /\ s.do = "define bucket" => IsBucket(s.def)

\* What is in a database, and what statements are about.
Has(d, p, t, n) == t \in DOMAIN d.tables /\ n \in DOMAIN d.tables[t][p]
Defines(s, t) == s.do = "define table" /\ s.table = t
Drops(s, t) == s.do = "remove table" /\ s.table = t
Writes(s, p, t, n) ==
  /\ (s.do = "define" /\ s.part = p) \/ (s.do = "permit" /\ p = "permissions")
  /\ s.table = t /\ s.name = n
Erases(s, p, t, n) == s.do = "remove" /\ s.part = p /\ s.table = t /\ s.name = n
Stores(s, b) == s.do = "define bucket" /\ s.bucket = b
Unstores(s, b) == s.do = "remove bucket" /\ s.bucket = b
Alters(s, b, a) == s.do = "alter bucket" /\ s.bucket = b /\ a \in DOMAIN s.change

\* What a statement does, definition by definition.
Follow(s, d, e) ==
  /\ IsDatabase(e)
  /\ \A t : t \in DOMAIN e.tables <=> Defines(s, t) \/ (t \in DOMAIN d.tables /\ ~Drops(s, t))
  /\ \A t, n : \A p \in Parts :
       /\ Has(e, p, t, n) <=> Writes(s, p, t, n) \/ (Has(d, p, t, n) /\ ~Erases(s, p, t, n) /\ ~Drops(s, t))
       /\ Has(e, p, t, n) =>
            e.tables[t][p][n] = IF Writes(s, p, t, n) THEN s.def ELSE d.tables[t][p][n]
  /\ \A t \in DOMAIN e.tables : ~Defines(s, t) => e.tables[t].mode = d.tables[t].mode
  /\ \A b : b \in DOMAIN e.buckets <=> Stores(s, b) \/ (b \in DOMAIN d.buckets /\ ~Unstores(s, b))
  /\ \A b \in DOMAIN e.buckets : \A a \in Attributes :
       e.buckets[b][a] = IF Stores(s, b) THEN s.def[a]
                         ELSE IF Alters(s, b, a) THEN s.change[a] ELSE d.buckets[b][a]

\* One part of one table replaced.
Replaced(d, t, p, f) == [d EXCEPT !.tables[t][p] = f]
OnlyPart(d, t, p, f, e) ==
  /\ IsDatabase(e) /\ e.buckets = d.buckets /\ e.tables[t][p] = f
  /\ \A u : u \in DOMAIN e.tables <=> u \in DOMAIN d.tables
  /\ \A u \in DOMAIN d.tables, q \in Parts : ~(u = t /\ q = p) => e.tables[u][q] = d.tables[u][q]
  /\ \A u \in DOMAIN d.tables : e.tables[u].mode = d.tables[u].mode

\* To replace one part of a table leaves everything else as it was.
LEMMA PartReplaced ==
  ASSUME NEW d, IsDatabase(d), NEW t \in DOMAIN d.tables, NEW p \in Parts, NEW f, IsMap(f)
  PROVE  OnlyPart(d, t, p, f, Replaced(d, t, p, f))
<1>. DEFINE e == Replaced(d, t, p, f)
<1>1. /\ DOMAIN e.tables = DOMAIN d.tables /\ e.buckets = d.buckets
      /\ e.tables[t] = [d.tables[t] EXCEPT ![p] = f]
      /\ \A u \in DOMAIN d.tables : u # t => e.tables[u] = d.tables[u]
      /\ IsMap(e.tables) /\ e = [tables |-> e.tables, buckets |-> e.buckets]
  BY DEF IsDatabase, IsMap, Replaced
<1>. DEFINE x == d.tables[t]  y == e.tables[t]
<1>2. IsStored(x)
  BY DEF IsDatabase
<1>3. y = [x EXCEPT ![p] = f]
  BY <1>1
<1>. HIDE DEF x, y, e
<1>4. IsStored(y) /\ y[p] = f /\ y.mode = x.mode /\ \A q \in Parts : q # p => y[q] = x[q]
  BY <1>2, <1>3 DEF IsStored, Parts
<1>5. IsDatabase(e)
  BY <1>1, <1>4 DEF IsDatabase, y
<1>. QED
  BY <1>1, <1>4, <1>5 DEF x, y, e, OnlyPart

\* An entry put into a map is there, and the others stay.
LEMMA PutKeeps ==
  ASSUME NEW f, NEW n, NEW v
  PROVE  /\ IsMap(Put(f, n, v)) /\ \A m : m \in DOMAIN Put(f, n, v) <=> m \in DOMAIN f \/ m = n
         /\ Put(f, n, v)[n] = v /\ \A m \in DOMAIN f : m # n => Put(f, n, v)[m] = f[m]
BY DEF IsMap, Put

\* An entry taken out of a map is gone, and the others stay.
LEMMA WithoutKeeps ==
  ASSUME NEW f, NEW n
  PROVE  /\ IsMap(Without(f, n)) /\ \A m : m \in DOMAIN Without(f, n) <=> m \in DOMAIN f /\ m # n
         /\ \A m \in DOMAIN f : m # n => Without(f, n)[m] = f[m]
BY DEF IsMap, Without

\* A statement on a field, index, event or permission does what Follow says.
LEMMA ItemFollows ==
  ASSUME NEW s, NEW d, NEW e, NEW p, NEW f, IsDatabase(d), s.table \in DOMAIN d.tables,
         \/ s.do \in {"define", "remove"} /\ p = s.part /\ p \in {"fields", "indexes", "events"}
         \/ s.do = "permit" /\ p = "permissions",
         e = [d EXCEPT !.tables[s.table][p] = f],
         IF s.do = "remove" THEN f = Without(d.tables[s.table][p], s.name)
                            ELSE f = Put(d.tables[s.table][p], s.name, s.def)
  PROVE  Follow(s, d, e)
<1>. DEFINE t == s.table
<1>1. p \in Parts
  BY DEF Parts
<1>2. /\ IsMap(f)
      /\ \A m : m \in DOMAIN f <=> (s.do # "remove" /\ m = s.name)
                                   \/ (m \in DOMAIN d.tables[t][p] /\ ~(s.do = "remove" /\ m = s.name))
      /\ s.do # "remove" => f[s.name] = s.def
      /\ \A m \in DOMAIN d.tables[t][p] : m # s.name => f[m] = d.tables[t][p][m]
  <2>1. CASE s.do = "remove"
    <3>1. f = Without(d.tables[t][p], s.name)
      BY <2>1
    <3>2. IsMap(f) /\ (\A m : m \in DOMAIN f <=> m \in DOMAIN d.tables[t][p] /\ m # s.name)
          /\ \A m \in DOMAIN d.tables[t][p] : m # s.name => f[m] = d.tables[t][p][m]
      BY ONLY <3>1, WithoutKeeps
    <3>. QED
      BY ONLY <2>1, <3>2
  <2>2. CASE s.do # "remove"
    <3>1. f = Put(d.tables[t][p], s.name, s.def)
      BY <2>2
    <3>2. IsMap(f) /\ (\A m : m \in DOMAIN f <=> m \in DOMAIN d.tables[t][p] \/ m = s.name)
          /\ f[s.name] = s.def /\ \A m \in DOMAIN d.tables[t][p] : m # s.name => f[m] = d.tables[t][p][m]
      BY ONLY <3>1, PutKeeps
    <3>. QED
      BY ONLY <2>2, <3>2
  <2>. QED
    BY <2>1, <2>2
<1>3. OnlyPart(d, t, p, f, e)
  <2>1. IsDatabase(d) /\ t \in DOMAIN d.tables /\ e = Replaced(d, t, p, f)
    BY DEF Replaced
  <2>2. IsMap(f)
    BY <1>2
  <2>. HIDE DEF t
  <2>. QED
    BY ONLY <1>1, <2>1, <2>2, PartReplaced
<1>. USE DEF OnlyPart
<1>4. ASSUME NEW u, NEW m, NEW q \in Parts
      PROVE  /\ Has(e, q, u, m) <=> Writes(s, q, u, m) \/ (Has(d, q, u, m) /\ ~Erases(s, q, u, m) /\ ~Drops(s, u))
             /\ Has(e, q, u, m) =>
                  e.tables[u][q][m] = IF Writes(s, q, u, m) THEN s.def ELSE d.tables[u][q][m]
  <2>1. CASE u = t /\ q = p
    <3>0. \/ s.do \in {"define", "remove"} /\ p = s.part /\ p # "permissions"
          \/ s.do = "permit" /\ p = "permissions"
      OBVIOUS
    <3>1. ~Drops(s, u) /\ (Writes(s, q, u, m) <=> s.do # "remove" /\ m = s.name)
          /\ (Erases(s, q, u, m) <=> s.do = "remove" /\ m = s.name)
      BY ONLY <2>1, <3>0 DEF Writes, Erases, Drops
    <3>2. (Has(e, q, u, m) <=> m \in DOMAIN f) /\ (Has(d, q, u, m) <=> m \in DOMAIN d.tables[t][p])
          /\ e.tables[u][q] = f
      BY <1>3, <2>1 DEF Has
    <3>. QED
      BY ONLY <1>2, <2>1, <3>1, <3>2
  <2>2. CASE ~(u = t /\ q = p)
    <3>1. ~Writes(s, q, u, m) /\ ~Erases(s, q, u, m) /\ ~Drops(s, u)
      BY <2>2 DEF Writes, Erases, Drops, Parts
    <3>2. u \in DOMAIN d.tables => e.tables[u][q] = d.tables[u][q]
      BY <1>3, <2>2
    <3>. QED
      BY <1>3, <3>1, <3>2 DEF Has
  <2>. QED
    BY <2>1, <2>2
<1>5. \A b, a : ~Stores(s, b) /\ ~Unstores(s, b) /\ ~Alters(s, b, a) /\ ~Defines(s, b) /\ ~Drops(s, b)
  BY DEF Stores, Unstores, Alters, Defines, Drops
<1>6. \A u : u \in DOMAIN e.tables <=> Defines(s, u) \/ (u \in DOMAIN d.tables /\ ~Drops(s, u))
  BY <1>3, <1>5
<1>7. \A u \in DOMAIN e.tables : ~Defines(s, u) => e.tables[u].mode = d.tables[u].mode
  BY <1>3
<1>. QED
  BY ONLY <1>3, <1>4, <1>5, <1>6, <1>7 DEF Follow

\* DEFINE TABLE and REMOVE TABLE do what Follow says.
LEMMA TableFollows ==
  ASSUME NEW s, NEW d, NEW e, IsDatabase(d),
         \/ /\ s.do = "define table"
            /\ e = [d EXCEPT !.tables = Put(@, s.table,
                      IF s.table \in DOMAIN @ THEN [@[s.table] EXCEPT !.mode = s.mode] ELSE EmptyTable(s.mode))]
         \/ s.do = "remove table" /\ e = [d EXCEPT !.tables = Without(@, s.table)]
  PROVE  Follow(s, d, e)
<1>. DEFINE t == s.table
            new == IF t \in DOMAIN d.tables THEN [d.tables[t] EXCEPT !.mode = s.mode] ELSE EmptyTable(s.mode)
<1>1. e.buckets = d.buckets /\ e = [tables |-> e.tables, buckets |-> e.buckets]
      /\ e.tables = IF s.do = "define table" THEN Put(d.tables, t, new) ELSE Without(d.tables, t)
  BY DEF IsDatabase
<1>2. /\ IsStored(new)
      /\ \A q \in Parts : new[q] = IF t \in DOMAIN d.tables THEN d.tables[t][q] ELSE Nothing
  <2>1. CASE t \in DOMAIN d.tables
    <3>1. IsStored(d.tables[t])
      BY <2>1 DEF IsDatabase
    <3>. QED
      BY <2>1, <3>1 DEF IsStored, Parts
  <2>2. CASE t \notin DOMAIN d.tables
    <3>1. new = EmptyTable(s.mode)
      BY <2>2
    <3>2. IsMap(Nothing)
      BY DEF IsMap, Nothing
    <3>. HIDE DEF new
    <3>3. new = [fields |-> Nothing, indexes |-> Nothing, events |-> Nothing,
                 mode |-> s.mode, permissions |-> Nothing]
      BY ONLY <3>1 DEF EmptyTable
    <3>4. \A q \in Parts : new[q] = Nothing
      BY ONLY <3>3 DEF Parts
    <3>5. IsStored(new)
      BY ONLY <3>2, <3>3, <3>4 DEF IsStored
    <3>. QED
      BY <2>2, <3>4, <3>5
  <2>. QED
    BY <2>1, <2>2
<1>. HIDE DEF new
<1>3. /\ IsMap(e.tables)
      /\ \A u : u \in DOMAIN e.tables <=> Defines(s, u) \/ (u \in DOMAIN d.tables /\ ~Drops(s, u))
      /\ \A u \in DOMAIN d.tables : u # t => e.tables[u] = d.tables[u]
      /\ s.do = "define table" => e.tables[t] = new
  <2>1. CASE s.do = "define table"
    <3>1. e.tables = Put(d.tables, t, new)
      BY <1>1, <2>1
    <3>2. /\ IsMap(e.tables) /\ e.tables[t] = new
          /\ \A u : u \in DOMAIN e.tables <=> u \in DOMAIN d.tables \/ u = t
          /\ \A u \in DOMAIN d.tables : u # t => e.tables[u] = d.tables[u]
      BY ONLY <3>1, PutKeeps
    <3>. QED
      BY ONLY <2>1, <3>2 DEF Defines, Drops
  <2>2. CASE s.do = "remove table"
    <3>1. e.tables = Without(d.tables, t)
      BY <1>1, <2>2
    <3>2. /\ IsMap(e.tables) /\ \A u : u \in DOMAIN e.tables <=> u \in DOMAIN d.tables /\ u # t
          /\ \A u \in DOMAIN d.tables : u # t => e.tables[u] = d.tables[u]
      BY ONLY <3>1, WithoutKeeps
    <3>. QED
      BY ONLY <2>2, <3>2 DEF Defines, Drops
  <2>. QED
    BY <2>1, <2>2
<1>4. IsDatabase(e)
  <2>1. ASSUME NEW u \in DOMAIN e.tables PROVE IsStored(e.tables[u])
    <3>1. CASE u = t
      BY <1>2, <1>3, <3>1 DEF Defines, Drops
    <3>2. CASE u # t
      BY <1>3, <3>2 DEF IsDatabase, Defines
    <3>. QED
      BY <3>1, <3>2
  <2>. QED
    BY <1>1, <1>3, <2>1 DEF IsDatabase
<1>5. DOMAIN Nothing = {}
  BY DEF Nothing
<1>6. ASSUME NEW u, NEW m, NEW q \in Parts
      PROVE  /\ Has(e, q, u, m) <=> Writes(s, q, u, m) \/ (Has(d, q, u, m) /\ ~Erases(s, q, u, m) /\ ~Drops(s, u))
             /\ Has(e, q, u, m) =>
                  e.tables[u][q][m] = IF Writes(s, q, u, m) THEN s.def ELSE d.tables[u][q][m]
  <2>1. ~Writes(s, q, u, m) /\ ~Erases(s, q, u, m)
    BY DEF Writes, Erases
  <2>2. CASE u = t
    BY <1>2, <1>3, <1>5, <2>1, <2>2 DEF Has, Defines, Drops
  <2>3. CASE u # t
    BY <1>3, <2>1, <2>3 DEF Has, Defines, Drops
  <2>. QED
    BY <2>2, <2>3
<1>7. \A b, a : ~Stores(s, b) /\ ~Unstores(s, b) /\ ~Alters(s, b, a)
  BY DEF Stores, Unstores, Alters
<1>8. \A u \in DOMAIN e.tables : ~Defines(s, u) => e.tables[u].mode = d.tables[u].mode
  BY <1>3 DEF Defines, Drops
<1>. QED
  BY <1>1, <1>3, <1>4, <1>6, <1>7, <1>8 DEF Follow

\* A statement on a bucket does what Follow says, a backfill nothing.
LEMMA BucketFollows ==
  ASSUME NEW s, NEW d, NEW e, IsDatabase(d), IsStatement(s),
         \/ s.do = "define bucket" /\ e = [d EXCEPT !.buckets = Put(@, s.bucket, s.def)]
         \/ s.do = "remove bucket" /\ e = [d EXCEPT !.buckets = Without(@, s.bucket)]
         \/ /\ s.do = "alter bucket" /\ s.bucket \in DOMAIN d.buckets
            /\ e = [d EXCEPT !.buckets[s.bucket] =
                     [a \in DOMAIN @ |-> IF a \in DOMAIN s.change THEN s.change[a] ELSE @[a]]]
         \/ s.do = "backfill" /\ e = d
  PROVE  Follow(s, d, e)
<1>. DEFINE b == s.bucket
            altered == [a \in DOMAIN d.buckets[b] |-> IF a \in DOMAIN s.change THEN s.change[a] ELSE d.buckets[b][a]]
<1>1. e.tables = d.tables /\ e = [tables |-> e.tables, buckets |-> e.buckets]
  BY DEF IsDatabase
<1>2. /\ IsMap(e.buckets)
      /\ \A c : c \in DOMAIN e.buckets <=> Stores(s, c) \/ (c \in DOMAIN d.buckets /\ ~Unstores(s, c))
      /\ \A c \in DOMAIN e.buckets :
           e.buckets[c] = IF Stores(s, c) THEN s.def
                          ELSE IF s.do = "alter bucket" /\ c = b THEN altered ELSE d.buckets[c]
  <2>1. CASE s.do = "define bucket"
    <3>1. e.buckets = Put(d.buckets, b, s.def)
      BY <2>1 DEF IsDatabase
    <3>2. /\ IsMap(e.buckets) /\ e.buckets[b] = s.def
          /\ \A c : c \in DOMAIN e.buckets <=> c \in DOMAIN d.buckets \/ c = b
          /\ \A c \in DOMAIN d.buckets : c # b => e.buckets[c] = d.buckets[c]
      BY ONLY <3>1, PutKeeps
    <3>. HIDE DEF altered
    <3>. QED
      BY ONLY <2>1, <3>2 DEF Stores, Unstores
  <2>2. CASE s.do = "remove bucket"
    <3>1. e.buckets = Without(d.buckets, b)
      BY <2>2 DEF IsDatabase
    <3>2. /\ IsMap(e.buckets) /\ \A c : c \in DOMAIN e.buckets <=> c \in DOMAIN d.buckets /\ c # b
          /\ \A c \in DOMAIN d.buckets : c # b => e.buckets[c] = d.buckets[c]
      BY ONLY <3>1, WithoutKeeps
    <3>. HIDE DEF altered
    <3>. QED
      BY ONLY <2>2, <3>2 DEF Stores, Unstores
  <2>3. CASE s.do = "alter bucket"
    <3>1. b \in DOMAIN d.buckets /\ e.buckets = [d.buckets EXCEPT ![b] = altered]
      BY <2>3 DEF IsDatabase
    <3>. HIDE DEF altered
    <3>. QED
      BY <2>3, <3>1 DEF Stores, Unstores, IsMap
  <2>4. CASE s.do = "backfill"
    BY <2>4 DEF Stores, Unstores, IsDatabase
  <2>. QED
    BY <2>1, <2>2, <2>3, <2>4
<1>3. \A c \in DOMAIN d.buckets : IsBucket(d.buckets[c]) /\ DOMAIN d.buckets[c] = Attributes
  BY DEF IsDatabase, IsBucket, Attributes
<1>4. ASSUME NEW c \in DOMAIN e.buckets
      PROVE  /\ IsBucket(e.buckets[c])
             /\ \A a \in Attributes :
                  e.buckets[c][a] = IF Stores(s, c) THEN s.def[a]
                                    ELSE IF Alters(s, c, a) THEN s.change[a] ELSE d.buckets[c][a]
  <2>1. CASE Stores(s, c)
    BY <1>2, <2>1 DEF Stores, IsStatement
  <2>2. CASE ~Stores(s, c) /\ s.do = "alter bucket" /\ c = b
    <3>1. c \in DOMAIN d.buckets /\ e.buckets[c] = altered
      BY <1>2, <2>2
    <3>2. DOMAIN d.buckets[b] = Attributes
      BY <1>3, <2>2, <3>1
    <3>3. \A a \in Attributes : altered[a] = IF a \in DOMAIN s.change THEN s.change[a] ELSE d.buckets[b][a]
      BY <3>2
    <3>4. IsBucket(altered)
      BY <3>2 DEF IsBucket, Attributes
    <3>. HIDE DEF altered
    <3>. QED
      BY <2>2, <3>1, <3>3, <3>4 DEF Alters
  <2>3. CASE ~Stores(s, c) /\ ~(s.do = "alter bucket" /\ c = b)
    <3>1. c \in DOMAIN d.buckets /\ e.buckets[c] = d.buckets[c]
      BY <1>2, <2>3
    <3>. QED
      BY <1>3, <2>3, <3>1 DEF Alters
  <2>. QED
    BY <2>1, <2>2, <2>3
<1>5. IsDatabase(e)
  BY <1>1, <1>2, <1>4 DEF IsDatabase
<1>6. \A t, p, n : ~Defines(s, t) /\ ~Drops(s, t) /\ ~Writes(s, p, t, n) /\ ~Erases(s, p, t, n)
  BY DEF Defines, Drops, Writes, Erases
<1>. QED
  BY <1>1, <1>2, <1>4, <1>5, <1>6 DEF Follow, Has

\* Every statement a database accepts does what Follow says of it.
LEMMA EffectFollows ==
  ASSUME NEW s, NEW d, IsDatabase(d), IsStatement(s), Accepts(s, d)
  PROVE  Follow(s, d, Effect(s, d))
<1>1. CASE s.do \in {"define", "remove"}
  <2>1. s.table \in DOMAIN d.tables /\ s.part \in {"fields", "indexes", "events"}
    BY <1>1 DEF Accepts, IsStatement
  <2>2. CASE s.do = "define"
    <3>1. Effect(s, d) = [d EXCEPT !.tables[s.table][s.part] = Put(d.tables[s.table][s.part], s.name, s.def)]
      BY <2>2 DEF Effect
    <3>. QED
      BY <2>1, <2>2, <3>1, ItemFollows
  <2>3. CASE s.do = "remove"
    <3>1. Effect(s, d) = [d EXCEPT !.tables[s.table][s.part] = Without(d.tables[s.table][s.part], s.name)]
      BY <2>3 DEF Effect
    <3>. QED
      BY <2>1, <2>3, <3>1, ItemFollows
  <2>. QED
    BY <1>1, <2>2, <2>3
<1>2. CASE s.do = "permit"
  <2>1. s.table \in DOMAIN d.tables
    BY <1>2 DEF Accepts
  <2>2. Effect(s, d) = [d EXCEPT !.tables[s.table]["permissions"] = Put(d.tables[s.table].permissions, s.name, s.def)]
    BY <1>2 DEF Effect
  <2>. QED
    BY <1>2, <2>1, <2>2, ItemFollows
<1>3. CASE s.do \in {"define table", "remove table"}
  BY <1>3, TableFollows DEF Effect
<1>4. CASE s.do \in {"backfill", "define bucket", "remove bucket", "alter bucket"}
  BY <1>4, BucketFollows DEF Effect, Accepts
<1>. QED
  BY <1>1, <1>2, <1>3, <1>4 DEF IsStatement

-----------------------------------------------------------------------------
(* What a run that came through leaves, from the set of its statements: the *)
(* order counts only where one statement undoes another.                    *)

\* The databases g of a run from d to e: each statement had its effect on the next.
Followed(g, stmts, d, e) ==
  /\ Len(stmts) \in Nat /\ g[0] = d /\ g[Len(stmts)] = e
  /\ \A n \in 0..Len(stmts) : IsDatabase(g[n])
  /\ \A n \in 0..(Len(stmts) - 1) :
       n \in 0..Len(stmts) /\ n + 1 \in 0..Len(stmts) /\ stmts[n + 1] \in ToSet(stmts) /\ Follow(stmts[n + 1], g[n], g[n + 1])
  /\ \A s \in ToSet(stmts) : \E n \in 0..(Len(stmts) - 1) : s = stmts[n + 1]

\* In a run that does not fail every statement has its effect.
LEMMA RunFollowed ==
  ASSUME NEW stmts, NEW d, Proper(stmts), IsDatabase(d), \A s \in ToSet(stmts) : IsStatement(s),
         RunAll(stmts, d) # Failed
  PROVE  Followed(Course(stmts, d), stmts, d, RunAll(stmts, d))
<1>. DEFINE g == Course(stmts, d)  N == Len(stmts)
<1>1. N \in Nat /\ \A n \in 1..N : stmts[n] \in ToSet(stmts)
  BY Properness
<1>2. /\ g[0] = d /\ g[N] = RunAll(stmts, d)
      /\ \A n \in 1..N : Accepts(stmts[n], g[n - 1]) /\ g[n] = Effect(stmts[n], g[n - 1])
  BY RunCameThrough DEF CameThrough
<1>3. \A s \in ToSet(stmts) : \E n \in 1..N : s = stmts[n]
  BY Properness
<1>. HIDE DEF g, N
<1>4. \A n \in 0..(N - 1) : n + 1 \in 0..N /\ n + 1 \in 1..N /\ (n + 1) - 1 = n
  BY <1>1
<1>5. ASSUME NEW n \in 0..(N - 1), IsDatabase(g[n]) PROVE Follow(stmts[n + 1], g[n], g[n + 1])
  <2>1. IsStatement(stmts[n + 1]) /\ Accepts(stmts[n + 1], g[n]) /\ g[n + 1] = Effect(stmts[n + 1], g[n])
    BY <1>1, <1>2, <1>4
  <2>. QED
    BY <1>5, <2>1, EffectFollows
<1>6. ASSUME NEW k \in 0..N PROVE IsDatabase(g[k])
  <2>. DEFINE S == {n \in 0..N : IsDatabase(g[n])}
  <2>1. 0 \in S
    BY <1>1, <1>2
  <2>2. ASSUME NEW i \in 0..(k - 1), i \in S PROVE i + 1 \in S
    <3>1. i \in 0..(N - 1)
      BY <1>1
    <3>2. Follow(stmts[i + 1], g[i], g[i + 1])
      BY <1>5, <2>2, <3>1
    <3>. QED
      BY <1>4, <3>1, <3>2 DEF Follow
  <2>3. k \in Nat /\ 0 \in 0..k
    BY <1>1
  <2>4. k \in S
    <3>. HIDE DEF S
    <3>. QED
      BY <2>1, <2>2, <2>3, Onward
  <2>. QED
    BY <2>4
<1>7. \A n \in 0..(N - 1) :
        n \in 0..N /\ n + 1 \in 0..N /\ stmts[n + 1] \in ToSet(stmts) /\ Follow(stmts[n + 1], g[n], g[n + 1])
  <2>1. \A n \in 0..(N - 1) : n \in 0..N
    BY <1>1
  <2>. QED
    BY <1>1, <1>4, <1>5, <1>6, <2>1
<1>8. \A s \in ToSet(stmts) : \E n \in 0..(N - 1) : s = stmts[n + 1]
  <2>1. \A n \in 1..N : n - 1 \in 0..(N - 1) /\ (n - 1) + 1 = n
    BY <1>1
  <2>. QED
    BY <1>3, <2>1
<1>. QED
  BY <1>1, <1>2, <1>6, <1>7, <1>8 DEF Followed, g, N

\* Some statement of W.
SomeDefines(W, t) == \E s \in W : Defines(s, t)
SomeDrops(W, t) == \E s \in W : Drops(s, t)
SomeWrites(W, p, t, n) == \E s \in W : Writes(s, p, t, n)
SomeErases(W, p, t, n) == \E s \in W : Erases(s, p, t, n)
SomeStores(W, b) == \E s \in W : Stores(s, b)
SomeUnstores(W, b) == \E s \in W : Unstores(s, b)
SomeAlters(W, b, a) == \E s \in W : Alters(s, b, a)

\* The definition is one that a statement of W wrote.
Written(W, e, p, t, n) == \E s \in W : Writes(s, p, t, n) /\ e.tables[t][p][n] = s.def
StoredBy(W, e, b, a) == \E s \in W : Stores(s, b) /\ e.buckets[b][a] = s.def[a]
AlteredBy(W, e, b, a) == \E s \in W : Alters(s, b, a) /\ e.buckets[b][a] = s.change[a]

\* A table is there after a run when it was there before or some statement defines it,
\* and none drops it; it is not when it was not there or is dropped, and none defines it.
LEMMA TablesLand ==
  ASSUME NEW g, NEW stmts, NEW d, NEW e, Followed(g, stmts, d, e), NEW t
  PROVE  LET W == ToSet(stmts) IN
         /\ (t \in DOMAIN d.tables \/ SomeDefines(W, t)) /\ ~SomeDrops(W, t) => t \in DOMAIN e.tables
         /\ (t \notin DOMAIN d.tables \/ SomeDrops(W, t)) /\ ~SomeDefines(W, t) => t \notin DOMAIN e.tables
         /\ ~SomeDefines(W, t) /\ t \in DOMAIN e.tables =>
              t \in DOMAIN d.tables /\ e.tables[t].mode = d.tables[t].mode
<1>. DEFINE W == ToSet(stmts)  N == Len(stmts)
            Lasts == {n \in 0..N : t \in DOMAIN g[n].tables}
            Out == {n \in 0..N : t \notin DOMAIN g[n].tables}
            Old == {n \in 0..N : t \in DOMAIN g[n].tables =>
                                   t \in DOMAIN d.tables /\ g[n].tables[t].mode = d.tables[t].mode}
<1>1. /\ N \in Nat /\ g[0] = d /\ g[N] = e
      /\ \A i \in 0..(N - 1) : i + 1 \in 0..N /\ i \in 0..N /\ stmts[i + 1] \in W
      /\ \A s \in W : \E n \in 0..(N - 1) : s = stmts[n + 1]
  BY DEF Followed
<1>2. \A i \in 0..(N - 1) :
        /\ t \in DOMAIN g[i + 1].tables <=>
             Defines(stmts[i + 1], t) \/ (t \in DOMAIN g[i].tables /\ ~Drops(stmts[i + 1], t))
        /\ t \in DOMAIN g[i + 1].tables /\ ~Defines(stmts[i + 1], t) =>
             g[i + 1].tables[t].mode = g[i].tables[t].mode
  BY DEF Followed, Follow
<1>3. 0 \in 0..N /\ N \in 0..N /\ \A k \in 0..N : \A i \in k..(N - 1) : i \in 0..(N - 1)
  BY <1>1
<1>. HIDE DEF N, W
<1>4. ASSUME NEW k \in Lasts, ~SomeDrops(W, t) PROVE N \in Lasts
  <2>1. \A i \in k..(N - 1) : i \in Lasts => i + 1 \in Lasts
    BY <1>1, <1>2, <1>3, <1>4 DEF SomeDrops
  <2>2. k \in 0..N
    OBVIOUS
  <2>. HIDE DEF Lasts
  <2>. QED
    BY <1>1, <1>4, <2>1, <2>2, Onward
<1>5. ASSUME NEW k \in Out, ~SomeDefines(W, t) PROVE N \in Out
  <2>1. \A i \in k..(N - 1) : i \in Out => i + 1 \in Out
    BY <1>1, <1>2, <1>3, <1>5 DEF SomeDefines
  <2>2. k \in 0..N
    OBVIOUS
  <2>. HIDE DEF Out
  <2>. QED
    BY <1>1, <1>5, <2>1, <2>2, Onward
<1>6. ASSUME ~SomeDefines(W, t) PROVE N \in Old
  <2>1. \A i \in 0..(N - 1) : i \in Old => i + 1 \in Old
    BY <1>1, <1>2, <1>3, <1>6 DEF SomeDefines
  <2>2. 0 \in Old
    BY <1>1, <1>3
  <2>. HIDE DEF Old
  <2>. QED
    BY <1>1, <1>3, <2>1, <2>2, Onward
<1>7. t \in DOMAIN d.tables \/ SomeDefines(W, t) => \E k : k \in Lasts
  <2>1. CASE t \in DOMAIN d.tables
    <3>1. 0 \in Lasts
      BY <1>1, <1>3, <2>1
    <3>. QED
      BY <3>1
  <2>2. CASE SomeDefines(W, t)
    <3>1. PICK s \in W : Defines(s, t)
      BY <2>2 DEF SomeDefines
    <3>2. PICK n \in 0..(N - 1) : s = stmts[n + 1]
      BY <1>1
    <3>3. n + 1 \in Lasts
      BY <1>1, <1>2, <3>1, <3>2
    <3>. QED
      BY <3>3
  <2>. QED
    BY <2>1, <2>2
<1>8. (t \notin DOMAIN d.tables \/ SomeDrops(W, t)) /\ ~SomeDefines(W, t) => \E k : k \in Out
  BY <1>1, <1>2, <1>3 DEF SomeDefines, SomeDrops
<1>. QED
  BY <1>1, <1>4, <1>5, <1>6, <1>7, <1>8 DEF W

\* A field, index, event or permission is there after a run as some statement wrote it,
\* or as it was before; it is gone when one erases it or drops its table and none writes it.
LEMMA ItemsLand ==
  ASSUME NEW g, NEW stmts, NEW d, NEW e, Followed(g, stmts, d, e), NEW t, NEW p \in Parts, NEW n
  PROVE  LET W == ToSet(stmts)
             gone == SomeErases(W, p, t, n) \/ SomeDrops(W, t)
         IN  /\ Has(e, p, t, n) => Written(W, e, p, t, n)
                                   \/ (Has(d, p, t, n) /\ e.tables[t][p][n] = d.tables[t][p][n])
             /\ SomeWrites(W, p, t, n) /\ ~gone => Has(e, p, t, n) /\ Written(W, e, p, t, n)
             /\ Has(d, p, t, n) /\ ~gone => Has(e, p, t, n)
             /\ ~SomeWrites(W, p, t, n) /\ (~Has(d, p, t, n) \/ gone) => ~Has(e, p, t, n)
<1>. DEFINE W == ToSet(stmts)  N == Len(stmts)
            gone == SomeErases(W, p, t, n) \/ SomeDrops(W, t)
            Lasts == {i \in 0..N : Has(g[i], p, t, n)}
            New == {i \in 0..N : Has(g[i], p, t, n) /\ Written(W, g[i], p, t, n)}
            Out == {i \in 0..N : ~Has(g[i], p, t, n)}
            Old == {i \in 0..N : Has(g[i], p, t, n) =>
                       Written(W, g[i], p, t, n)
                       \/ (Has(d, p, t, n) /\ g[i].tables[t][p][n] = d.tables[t][p][n])}
<1>1. /\ N \in Nat /\ g[0] = d /\ g[N] = e
      /\ \A i \in 0..(N - 1) : i + 1 \in 0..N /\ i \in 0..N /\ stmts[i + 1] \in W
      /\ \A s \in W : \E i \in 0..(N - 1) : s = stmts[i + 1]
  BY DEF Followed
<1>2. \A i \in 0..(N - 1) :
        LET s == stmts[i + 1] IN
        /\ Has(g[i + 1], p, t, n) <=>
             Writes(s, p, t, n) \/ (Has(g[i], p, t, n) /\ ~Erases(s, p, t, n) /\ ~Drops(s, t))
        /\ Has(g[i + 1], p, t, n) =>
             g[i + 1].tables[t][p][n] = IF Writes(s, p, t, n) THEN s.def ELSE g[i].tables[t][p][n]
  <2>. TAKE i \in 0..(N - 1)
  <2>. DEFINE s == stmts[i + 1]  x == g[i]  y == g[i + 1]
  <2>1. p \in Parts /\ Follow(s, x, y)
    BY DEF Followed
  <2>. HIDE DEF s, x, y
  <2>2. /\ Has(y, p, t, n) <=> Writes(s, p, t, n) \/ (Has(x, p, t, n) /\ ~Erases(s, p, t, n) /\ ~Drops(s, t))
        /\ Has(y, p, t, n) => y.tables[t][p][n] = IF Writes(s, p, t, n) THEN s.def ELSE x.tables[t][p][n]
    BY ONLY <2>1 DEF Follow
  <2>. QED
    BY <2>2 DEF s, x, y
<1>3. 0 \in 0..N /\ N \in 0..N /\ \A k \in 0..N : \A i \in k..(N - 1) : i \in 0..(N - 1)
  BY <1>1
<1>. HIDE DEF N, W
<1>4. ASSUME NEW k \in Lasts, ~gone PROVE N \in Lasts
  <2>1. \A i \in k..(N - 1) : i \in Lasts => i + 1 \in Lasts
    BY <1>1, <1>2, <1>3, <1>4 DEF SomeDrops, SomeErases
  <2>2. k \in 0..N
    OBVIOUS
  <2>. HIDE DEF Lasts
  <2>. QED
    BY <1>1, <1>4, <2>1, <2>2, Onward
<1>5. ASSUME NEW k \in New, ~gone PROVE N \in New
  <2>1. \A i \in k..(N - 1) : i \in New => i + 1 \in New
    BY <1>1, <1>2, <1>3, <1>5 DEF SomeDrops, SomeErases, Written
  <2>2. k \in 0..N
    OBVIOUS
  <2>. HIDE DEF New
  <2>. QED
    BY <1>1, <1>5, <2>1, <2>2, Onward
<1>6. ASSUME NEW k \in Out, ~SomeWrites(W, p, t, n) PROVE N \in Out
  <2>1. \A i \in k..(N - 1) : i \in Out => i + 1 \in Out
    BY <1>1, <1>2, <1>3, <1>6 DEF SomeWrites
  <2>2. k \in 0..N
    OBVIOUS
  <2>. HIDE DEF Out
  <2>. QED
    BY <1>1, <1>6, <2>1, <2>2, Onward
<1>7. N \in Old
  <2>1. \A i \in 0..(N - 1) : i \in Old => i + 1 \in Old
    BY <1>1, <1>2, <1>3 DEF Written
  <2>2. 0 \in Old
    BY <1>1, <1>3
  <2>. HIDE DEF Old
  <2>. QED
    BY <1>1, <1>3, <2>1, <2>2, Onward
<1>8. SomeWrites(W, p, t, n) => \E k : k \in New
  BY <1>1, <1>2, <1>3 DEF SomeWrites, Written
<1>9. Has(d, p, t, n) => 0 \in Lasts
  BY <1>1, <1>3
<1>10. ~SomeWrites(W, p, t, n) /\ (~Has(d, p, t, n) \/ gone) => \E k : k \in Out
  BY <1>1, <1>2, <1>3 DEF SomeWrites, SomeErases, SomeDrops
<1>. QED
  BY <1>1, <1>4, <1>5, <1>6, <1>7, <1>8, <1>9, <1>10 DEF W

\* A bucket likewise, and each attribute is as it was stored or altered by some
\* statement, or as it was before.
LEMMA BucketsLand ==
  ASSUME NEW g, NEW stmts, NEW d, NEW e, Followed(g, stmts, d, e), NEW b, NEW a \in Attributes
  PROVE  LET W == ToSet(stmts) IN
         /\ (b \in DOMAIN d.buckets \/ SomeStores(W, b)) /\ ~SomeUnstores(W, b) => b \in DOMAIN e.buckets
         /\ (b \notin DOMAIN d.buckets \/ SomeUnstores(W, b)) /\ ~SomeStores(W, b) => b \notin DOMAIN e.buckets
         /\ b \in DOMAIN e.buckets =>
              \/ StoredBy(W, e, b, a) \/ AlteredBy(W, e, b, a)
              \/ b \in DOMAIN d.buckets /\ e.buckets[b][a] = d.buckets[b][a]
         /\ SomeAlters(W, b, a) /\ b \in DOMAIN d.buckets /\ ~SomeStores(W, b) /\ ~SomeUnstores(W, b) =>
              AlteredBy(W, e, b, a)
         /\ SomeStores(W, b) /\ ~SomeAlters(W, b, a) /\ ~SomeUnstores(W, b) => StoredBy(W, e, b, a)
<1>. DEFINE W == ToSet(stmts)  N == Len(stmts)
            Lasts == {n \in 0..N : b \in DOMAIN g[n].buckets}
            Out == {n \in 0..N : b \notin DOMAIN g[n].buckets}
            Old == {n \in 0..N : b \in DOMAIN g[n].buckets =>
                      \/ StoredBy(W, g[n], b, a) \/ AlteredBy(W, g[n], b, a)
                      \/ b \in DOMAIN d.buckets /\ g[n].buckets[b][a] = d.buckets[b][a]}
            Turned == {n \in 0..N : b \in DOMAIN g[n].buckets /\ AlteredBy(W, g[n], b, a)}
            New == {n \in 0..N : b \in DOMAIN g[n].buckets /\ StoredBy(W, g[n], b, a)}
<1>1. /\ N \in Nat /\ g[0] = d /\ g[N] = e
      /\ \A i \in 0..(N - 1) : i + 1 \in 0..N /\ i \in 0..N /\ stmts[i + 1] \in W
      /\ \A s \in W : \E i \in 0..(N - 1) : s = stmts[i + 1]
  BY DEF Followed
<1>2. \A i \in 0..(N - 1) :
        LET s == stmts[i + 1]  x == g[i]  y == g[i + 1] IN
        /\ b \in DOMAIN y.buckets <=> Stores(s, b) \/ (b \in DOMAIN x.buckets /\ ~Unstores(s, b))
        /\ b \in DOMAIN y.buckets =>
             y.buckets[b][a] = IF Stores(s, b) THEN s.def[a]
                               ELSE IF Alters(s, b, a) THEN s.change[a] ELSE x.buckets[b][a]
  <2>. TAKE i \in 0..(N - 1)
  <2>. DEFINE s == stmts[i + 1]  x == g[i]  y == g[i + 1]
  <2>1. a \in Attributes /\ Follow(s, x, y)
    BY DEF Followed
  <2>. HIDE DEF s, x, y
  <2>2. /\ b \in DOMAIN y.buckets <=> Stores(s, b) \/ (b \in DOMAIN x.buckets /\ ~Unstores(s, b))
        /\ b \in DOMAIN y.buckets =>
             y.buckets[b][a] = IF Stores(s, b) THEN s.def[a]
                               ELSE IF Alters(s, b, a) THEN s.change[a] ELSE x.buckets[b][a]
    BY ONLY <2>1 DEF Follow
  <2>. QED
    BY <2>2 DEF s, x, y
<1>3. 0 \in 0..N /\ N \in 0..N /\ \A k \in 0..N : \A i \in k..(N - 1) : i \in 0..(N - 1)
  BY <1>1
<1>0. \A s, c : Alters(s, c, a) => ~Stores(s, c) /\ ~Unstores(s, c)
  BY DEF Alters, Stores, Unstores
<1>. HIDE DEF N, W
<1>4. ASSUME NEW k \in Lasts, ~SomeUnstores(W, b) PROVE N \in Lasts
  <2>1. \A i \in k..(N - 1) : i \in Lasts => i + 1 \in Lasts
    BY <1>1, <1>2, <1>3, <1>4 DEF SomeUnstores
  <2>2. k \in 0..N
    OBVIOUS
  <2>. HIDE DEF Lasts
  <2>. QED
    BY <1>1, <1>4, <2>1, <2>2, Onward
<1>5. ASSUME NEW k \in Out, ~SomeStores(W, b) PROVE N \in Out
  <2>1. \A i \in k..(N - 1) : i \in Out => i + 1 \in Out
    BY <1>1, <1>2, <1>3, <1>5 DEF SomeStores
  <2>2. k \in 0..N
    OBVIOUS
  <2>. HIDE DEF Out
  <2>. QED
    BY <1>1, <1>5, <2>1, <2>2, Onward
<1>6. N \in Old
  <2>1. \A i \in 0..(N - 1) : i \in Old => i + 1 \in Old
    BY <1>1, <1>2, <1>3 DEF StoredBy, AlteredBy
  <2>2. 0 \in Old
    BY <1>1, <1>3
  <2>. HIDE DEF Old
  <2>. QED
    BY <1>1, <1>3, <2>1, <2>2, Onward
<1>7. ASSUME NEW k \in Turned, ~SomeStores(W, b), ~SomeUnstores(W, b) PROVE N \in Turned
  <2>1. \A i \in k..(N - 1) : i \in Turned => i + 1 \in Turned
    BY <1>1, <1>2, <1>3, <1>7 DEF SomeStores, SomeUnstores, AlteredBy
  <2>2. k \in 0..N
    OBVIOUS
  <2>. HIDE DEF Turned
  <2>. QED
    BY <1>1, <1>7, <2>1, <2>2, Onward
<1>8. ASSUME NEW k \in New, ~SomeAlters(W, b, a), ~SomeUnstores(W, b) PROVE N \in New
  <2>1. \A i \in k..(N - 1) : i \in New => i + 1 \in New
    BY <1>1, <1>2, <1>3, <1>8 DEF SomeAlters, SomeUnstores, StoredBy
  <2>2. k \in 0..N
    OBVIOUS
  <2>. HIDE DEF New
  <2>. QED
    BY <1>1, <1>8, <2>1, <2>2, Onward
<1>9. b \in DOMAIN d.buckets \/ SomeStores(W, b) => \E k : k \in Lasts
  BY <1>1, <1>2, <1>3 DEF SomeStores
<1>10. (b \notin DOMAIN d.buckets \/ SomeUnstores(W, b)) /\ ~SomeStores(W, b) => \E k : k \in Out
  BY <1>1, <1>2, <1>3 DEF SomeStores, SomeUnstores
<1>11. ASSUME SomeAlters(W, b, a), b \in DOMAIN d.buckets, ~SomeStores(W, b), ~SomeUnstores(W, b)
       PROVE  \E k : k \in Turned
  <2>1. PICK i \in 0..(N - 1) : Alters(stmts[i + 1], b, a)
    BY <1>1, <1>11 DEF SomeAlters
  <2>2. i \in Lasts
    <3>. DEFINE S == {n \in 0..N : b \in DOMAIN g[n].buckets}
    <3>1. \A j \in 0..(i - 1) : j \in S => j + 1 \in S
      <4>1. \A j \in 0..(i - 1) : j \in 0..(N - 1)
        BY <1>1
      <4>2. \A j \in 0..(N - 1) : ~Unstores(stmts[j + 1], b)
        BY <1>1, <1>11 DEF SomeUnstores
      <4>. QED
        BY <1>1, <1>2, <4>1, <4>2
    <3>2. 0 \in S
      BY <1>1, <1>3, <1>11
    <3>3. i \in Nat /\ 0 \in 0..i
      BY <1>1
    <3>. HIDE DEF S
    <3>4. i \in S
      BY <3>1, <3>2, <3>3, Onward
    <3>. QED
      BY <3>4 DEF S, Lasts
  <2>3. i + 1 \in Turned
    BY <1>0, <1>1, <1>2, <2>1, <2>2 DEF AlteredBy
  <2>. QED
    BY <2>3
<1>12. ASSUME SomeStores(W, b) PROVE \E k : k \in New
  <2>1. PICK s \in W : Stores(s, b)
    BY <1>12 DEF SomeStores
  <2>2. PICK n \in 0..(N - 1) : s = stmts[n + 1]
    BY <1>1, <2>1
  <2>3. n + 1 \in 0..N /\ b \in DOMAIN g[n + 1].buckets /\ g[n + 1].buckets[b][a] = s.def[a]
    BY <1>1, <1>2, <2>1, <2>2
  <2>4. n + 1 \in New
    BY <2>1, <2>3 DEF StoredBy
  <2>. QED
    BY <2>4
<1>. QED
  BY <1>1, <1>4, <1>5, <1>6, <1>7, <1>8, <1>9, <1>10, <1>11, <1>12 DEF W

-----------------------------------------------------------------------------
(* The statements of a diff, as a set.                                     *)

\* The statements of the diffs D, there and back.
Forward(D) == UNION {ToSet(x.forward) : x \in D}
Backward(D) == UNION {ToSet(x.backward) : x \in D}

\* A diff of whole statements; a valid one has nothing the generators refuse.
SoundDiff(x) ==
  /\ Proper(x.forward) /\ Proper(x.backward)
  /\ \A s \in ToSet(x.forward) \union ToSet(x.backward) :
       IsStatement(s) /\ (x.valid /\ s.do = "define" => s.def \notin Refused)

\* The diff of one definition: one statement forward, but for a backfill, and one back.
OneItem(x, t, there, back) ==
  /\ SoundDiff(x)
  /\ there \in ToSet(x.forward)
  /\ \A s \in ToSet(x.forward) : s = there \/ (s.do = "backfill" /\ s.table = t)
  /\ ToSet(x.backward) = {back}

\* What DefineItem says.
LEMMA DefineStatement ==
  ASSUME NEW p \in {"fields", "indexes", "events"}, NEW t, NEW n, NEW v
  PROVE  LET s == DefineItem(p, t, n, v) IN
         /\ IsStatement(s) /\ s.do = "define" /\ s.part = p /\ s.table = t /\ s.name = n /\ s.def = v
BY DEF DefineItem, IsStatement

\* What RemoveItem says.
LEMMA RemoveStatement ==
  ASSUME NEW p \in {"fields", "indexes", "events"}, NEW t, NEW n
  PROVE  LET s == RemoveItem(p, t, n) IN
         /\ IsStatement(s) /\ s.do = "remove" /\ s.part = p /\ s.table = t /\ s.name = n
BY DEF RemoveItem, IsStatement

\* A diff of one statement there and one back.
LEMMA TwoStatements ==
  ASSUME NEW there, NEW back, NEW valid, NEW t, IsStatement(there), IsStatement(back),
         valid => /\ there.do = "define" => there.def \notin Refused
                  /\ back.do = "define" => back.def \notin Refused
  PROVE  OneItem(Diff(<<there>>, <<back>>, valid), t, there, back)
<1>. DEFINE x == Diff(<<there>>, <<back>>, valid)
<1>1. x.forward = <<there>> /\ x.backward = <<back>> /\ x.valid = valid
  BY DEF Diff
<1>2. Proper(x.forward) /\ Proper(x.backward) /\ ToSet(x.forward) = {there} /\ ToSet(x.backward) = {back}
  BY <1>1, OneMember
<1>. HIDE DEF x
<1>. QED
  BY <1>1, <1>2 DEF OneItem, SoundDiff, x

\* The diffs of a field: one statement there and one back (generateAddFieldDiff, generateDropFieldDiff,
\* generateModifyFieldDiff).
LEMMA FieldsOneByOne ==
  ASSUME NEW t, NEW n, NEW v, NEW w
  PROVE  /\ OneItem(AddField(t, n, v), t, DefineItem("fields", t, n, v), RemoveItem("fields", t, n))
         /\ OneItem(DropField(t, n, v), t, RemoveItem("fields", t, n), DefineItem("fields", t, n, v))
         /\ OneItem(ModifyField(t, n, w, v), t, DefineItem("fields", t, n, v), DefineItem("fields", t, n, w))
<1>1. /\ \A u : LET s == DefineItem("fields", t, n, u) IN IsStatement(s) /\ s.do = "define" /\ s.def = u
      /\ LET s == RemoveItem("fields", t, n) IN IsStatement(s) /\ s.do = "remove"
  BY DefineStatement, RemoveStatement
<1>2. OneItem(DropField(t, n, v), t, RemoveItem("fields", t, n), DefineItem("fields", t, n, v))
  BY <1>1, TwoStatements DEF DropField, Renders
<1>3. OneItem(ModifyField(t, n, w, v), t, DefineItem("fields", t, n, v), DefineItem("fields", t, n, w))
  BY <1>1, TwoStatements DEF ModifyField, Renders
<1>4. OneItem(AddField(t, n, v), t, DefineItem("fields", t, n, v), RemoveItem("fields", t, n))
  <2>. DEFINE x == AddField(t, n, v)  there == DefineItem("fields", t, n, v)  back == RemoveItem("fields", t, n)
              fill == Backfill(t, n, v)
  <2>1. Proper(fill) /\ \A s \in ToSet(fill) : s.do = "backfill" /\ s.table = t
    <3>1. CASE v \in Backfilled
      BY <3>1, OneMember DEF Backfill
    <3>2. CASE v \notin Backfilled
      BY <3>2, NoMember DEF Backfill
    <3>. QED
      BY <3>1, <3>2
  <2>2. x.forward = <<there>> \o fill /\ x.backward = <<back>> /\ x.valid = Renders(v)
    BY DEF AddField, Diff
  <2>. HIDE DEF x, fill, there, back
  <2>3. /\ Proper(x.forward) /\ ToSet(x.forward) = {there} \union ToSet(fill)
        /\ Proper(x.backward) /\ ToSet(x.backward) = {back}
    <3>1. Proper(<<there>>) /\ ToSet(<<there>>) = {there} /\ Proper(<<back>>) /\ ToSet(<<back>>) = {back}
      BY OneMember
    <3>2. Proper(<<there>> \o fill) /\ ToSet(<<there>> \o fill) = ToSet(<<there>>) \union ToSet(fill)
      BY ONLY <2>1, <3>1, ConcatMembers
    <3>. QED
      BY <2>2, <3>1, <3>2
  <2>4. IsStatement(there) /\ there.def = v /\ IsStatement(back) /\ back.do = "remove"
    BY <1>1 DEF there, back
  <2>5. \A s \in ToSet(fill) : IsStatement(s) /\ s.do # "define"
    BY <2>1 DEF IsStatement
  <2>6. SoundDiff(x)
    BY <2>2, <2>3, <2>4, <2>5 DEF SoundDiff, Renders
  <2>7. OneItem(x, t, there, back)
    BY <2>1, <2>3, <2>6 DEF OneItem
  <2>. QED
    BY <2>7 DEF x, there, back
<1>. QED
  BY <1>2, <1>3, <1>4

\* The diffs of an index or event: one statement there and one back.
LEMMA ItemsOneByOne ==
  ASSUME NEW p \in {"indexes", "events"}, NEW t, NEW n, NEW v
  PROVE  /\ OneItem(AddItem(p, t, n, v), t, DefineItem(p, t, n, v), RemoveItem(p, t, n))
         /\ OneItem(DropItem(p, t, n, v), t, RemoveItem(p, t, n), DefineItem(p, t, n, v))
<1>1. /\ LET s == DefineItem(p, t, n, v) IN IsStatement(s) /\ s.do = "define" /\ s.def = v
      /\ LET s == RemoveItem(p, t, n) IN IsStatement(s) /\ s.do = "remove"
  BY DefineStatement, RemoveStatement
<1>. QED
  BY <1>1, TwoStatements DEF AddItem, DropItem, Renders

\* The names that two maps differ in.
LEMMA NamesThatDiffer ==
  ASSUME NEW old, NEW new, Named(old), Named(new)
  PROVE  /\ Added(old, new) \in SUBSET Nat /\ IsFiniteSet(Added(old, new))
         /\ Added(new, old) \in SUBSET Nat /\ IsFiniteSet(Added(new, old))
         /\ Changed(old, new) \in SUBSET Nat /\ IsFiniteSet(Changed(old, new))
<1>1. Added(old, new) \in SUBSET DOMAIN new /\ Added(new, old) \in SUBSET DOMAIN old
      /\ Changed(old, new) \in SUBSET DOMAIN new
  BY DEF Added, Changed
<1>2. IsFiniteSet(DOMAIN old) /\ IsFiniteSet(DOMAIN new) /\ DOMAIN old \subseteq Nat /\ DOMAIN new \subseteq Nat
  BY DEF Named
<1>. QED
  BY <1>1, <1>2, FS_Subset

\* The diffs of the fields of a table, as a set (DiffFields).
LEMMA FieldDiffs ==
  ASSUME NEW t, NEW old, NEW new, Named(old), Named(new)
  PROVE  LET D == DiffFields(t, old, new) IN
         /\ Proper(D)
         /\ \A x : x \in ToSet(D) <=>
              \/ \E n \in Added(old, new) : x = AddField(t, n, new[n])
              \/ \E n \in Added(new, old) : x = DropField(t, n, old[n])
              \/ \E n \in Changed(old, new) : x = ModifyField(t, n, old[n], new[n])
<1>. DEFINE f == [n \in Added(old, new) |-> AddField(t, n, new[n])]
            g == [n \in Added(new, old) |-> DropField(t, n, old[n])]
            h == [n \in Changed(old, new) |-> ModifyField(t, n, old[n], new[n])]
<1>1. /\ DOMAIN f = Added(old, new) /\ \A n \in DOMAIN f : f[n] = AddField(t, n, new[n])
      /\ DOMAIN g = Added(new, old) /\ \A n \in DOMAIN g : g[n] = DropField(t, n, old[n])
      /\ DOMAIN h = Changed(old, new) /\ \A n \in DOMAIN h : h[n] = ModifyField(t, n, old[n], new[n])
  OBVIOUS
<1>2. DiffFields(t, old, new) = (Each(f) \o Each(g)) \o Each(h)
  BY DEF DiffFields
<1>. HIDE DEF f, g, h
<1>3. /\ Proper(Each(f)) /\ ToSet(Each(f)) = {f[n] : n \in DOMAIN f}
      /\ Proper(Each(g)) /\ ToSet(Each(g)) = {g[n] : n \in DOMAIN g}
      /\ Proper(Each(h)) /\ ToSet(Each(h)) = {h[n] : n \in DOMAIN h}
  BY <1>1, NamesThatDiffer, EachMembers
<1>4. Proper(Each(f) \o Each(g)) /\ ToSet(Each(f) \o Each(g)) = ToSet(Each(f)) \union ToSet(Each(g))
  BY <1>3, ConcatMembers
<1>5. /\ Proper((Each(f) \o Each(g)) \o Each(h))
      /\ ToSet((Each(f) \o Each(g)) \o Each(h)) = ToSet(Each(f) \o Each(g)) \union ToSet(Each(h))
  BY <1>3, <1>4, ConcatMembers
<1>. QED
  BY <1>1, <1>2, <1>3, <1>4, <1>5

\* The diffs of its indexes or events, as a set (DiffIndexes, DiffEvents).
LEMMA ItemDiffs ==
  ASSUME NEW p, NEW t, NEW old, NEW new, Named(old), Named(new)
  PROVE  LET D == DiffItems(p, t, old, new) IN
         /\ Proper(D)
         /\ \A x : x \in ToSet(D) <=>
              \/ \E n \in Added(old, new) : x = AddItem(p, t, n, new[n])
              \/ \E n \in Added(new, old) : x = DropItem(p, t, n, old[n])
<1>. DEFINE f == [n \in Added(old, new) |-> AddItem(p, t, n, new[n])]
            g == [n \in Added(new, old) |-> DropItem(p, t, n, old[n])]
<1>1. /\ DOMAIN f = Added(old, new) /\ \A n \in DOMAIN f : f[n] = AddItem(p, t, n, new[n])
      /\ DOMAIN g = Added(new, old) /\ \A n \in DOMAIN g : g[n] = DropItem(p, t, n, old[n])
  OBVIOUS
<1>2. DiffItems(p, t, old, new) = Each(f) \o Each(g)
  BY DEF DiffItems
<1>. HIDE DEF f, g
<1>3. /\ Proper(Each(f)) /\ ToSet(Each(f)) = {f[n] : n \in DOMAIN f}
      /\ Proper(Each(g)) /\ ToSet(Each(g)) = {g[n] : n \in DOMAIN g}
  BY <1>1, NamesThatDiffer, EachMembers
<1>4. Proper(Each(f) \o Each(g)) /\ ToSet(Each(f) \o Each(g)) = ToSet(Each(f)) \union ToSet(Each(g))
  BY <1>3, ConcatMembers
<1>. QED
  BY <1>1, <1>2, <1>3, <1>4


-----------------------------------------------------------------------------
(* The plan of a set of statements for one part of one table.              *)

\* The diffs of one part of a table.
PartDiffs(p, t, old, new) ==
  CASE p = "fields" -> DiffFields(t, old, new)
    [] p \in {"indexes", "events"} -> DiffItems(p, t, old, new)
    [] p = "permissions" -> DiffPermissions(t, old, new)

\* The statement is about this part.
OfPart(s, p, t) ==
  /\ s.table = t
  /\ \/ s.do \in {"define", "remove"} /\ s.part = p
     \/ s.do = "backfill" \/ (s.do = "permit" /\ p = "permissions")

\* The statements take a part with the definitions A to one with the definitions B.
ItemPlan(W, p, t, A, B) ==
  /\ \A s \in W : \A n : Writes(s, p, t, n) => n \in DOMAIN B /\ s.def = B[n]
  /\ \A n : SomeErases(W, p, t, n) => n \notin DOMAIN B /\ n \in DOMAIN A
  /\ \A n \in DOMAIN B :
       n \notin DOMAIN A \/ (p \in {"fields", "permissions"} /\ A[n] # B[n]) => SomeWrites(W, p, t, n)
  /\ \A n \in DOMAIN A : n \notin DOMAIN B /\ p # "permissions" => SomeErases(W, p, t, n)
  /\ \A n \in DOMAIN A : p \in {"indexes", "events"} => ~SomeWrites(W, p, t, n)

\* The diffs D of a part plan it there and back.
PartPlanned(D, p, t, A, B) ==
  /\ \A x \in D : SoundDiff(x)
  /\ \A s \in Forward(D) \union Backward(D) : OfPart(s, p, t)
  /\ ItemPlan(Forward(D), p, t, A, B)
  /\ ItemPlan(Backward(D), p, t, B, A)

\* The names a diff is about, and the diff of one of them.
Differ(p, A, B) ==
  (DOMAIN A \ DOMAIN B) \union (DOMAIN B \ DOMAIN A)
    \union {n \in DOMAIN A \intersect DOMAIN B : p = "fields" /\ A[n] # B[n]}
ItemOf(p, t, n, A) == IF n \in DOMAIN A THEN DefineItem(p, t, n, A[n]) ELSE RemoveItem(p, t, n)
ForItem(x, p, t, n, A, B) == OneItem(x, t, ItemOf(p, t, n, B), ItemOf(p, t, n, A))

\* A set of diffs, each of one name, that define what is there on the one side.
LEMMA PlannedOneByOne ==
  ASSUME NEW D, NEW p \in {"fields", "indexes", "events"}, NEW t, NEW A, NEW B,
         \A x \in D : \E n \in Differ(p, A, B) : ForItem(x, p, t, n, A, B),
         \A n \in Differ(p, A, B) : \E x \in D : ForItem(x, p, t, n, A, B)
  PROVE  PartPlanned(D, p, t, A, B)
<1>. DEFINE there(n) == ItemOf(p, t, n, B)
            back(n) == ItemOf(p, t, n, A)
            X == Differ(p, A, B)
<1>1. \A n : /\ there(n).table = t /\ there(n).part = p /\ there(n).name = n
             /\ there(n).do = IF n \in DOMAIN B THEN "define" ELSE "remove"
             /\ n \in DOMAIN B => there(n).def = B[n]
             /\ back(n).table = t /\ back(n).part = p /\ back(n).name = n
             /\ back(n).do = IF n \in DOMAIN A THEN "define" ELSE "remove"
             /\ n \in DOMAIN A => back(n).def = A[n]
  BY DEF DefineItem, RemoveItem, ItemOf
<1>2. (\A x \in D : \E n \in X : OneItem(x, t, there(n), back(n)))
      /\ (\A n \in X : \E x \in D : OneItem(x, t, there(n), back(n)))
  BY DEF ForItem
<1>. HIDE DEF there, back, X
<1>3. \A s \in Forward(D) : (\E n \in X : s = there(n)) \/ (s.do = "backfill" /\ s.table = t)
  BY ONLY <1>2 DEF Forward, OneItem
<1>4. \A s \in Backward(D) : \E n \in X : s = back(n)
  BY ONLY <1>2 DEF Backward, OneItem
<1>5. \A n \in X : there(n) \in Forward(D) /\ back(n) \in Backward(D)
  BY ONLY <1>2 DEF Forward, Backward, OneItem
<1>6. \A x \in D : SoundDiff(x)
  BY ONLY <1>2 DEF OneItem
<1>7. \A s \in Forward(D) \union Backward(D) : OfPart(s, p, t)
  BY <1>1, <1>3, <1>4 DEF OfPart
<1>8. \A s \in Forward(D) : \A n :
        /\ Writes(s, p, t, n) => n \in X /\ n \in DOMAIN B /\ s.def = B[n]
        /\ Erases(s, p, t, n) => n \in X /\ n \notin DOMAIN B
  BY <1>1, <1>3 DEF Writes, Erases
<1>9. \A s \in Backward(D) : \A n :
        /\ Writes(s, p, t, n) => n \in X /\ n \in DOMAIN A /\ s.def = A[n]
        /\ Erases(s, p, t, n) => n \in X /\ n \notin DOMAIN A
  BY <1>1, <1>4 DEF Writes, Erases
<1>10. \A n \in X :
         /\ n \in DOMAIN B => SomeWrites(Forward(D), p, t, n)
         /\ n \notin DOMAIN B => SomeErases(Forward(D), p, t, n)
         /\ n \in DOMAIN A => SomeWrites(Backward(D), p, t, n)
         /\ n \notin DOMAIN A => SomeErases(Backward(D), p, t, n)
  BY <1>1, <1>5 DEF SomeWrites, SomeErases, Writes, Erases
<1>11. /\ \A n \in DOMAIN B : n \notin DOMAIN A => n \in X
       /\ \A n \in DOMAIN A : n \notin DOMAIN B => n \in X
       /\ p = "fields" => \A n \in DOMAIN A : n \in DOMAIN B /\ A[n] # B[n] => n \in X
       /\ p # "fields" => \A n \in X : ~(n \in DOMAIN A /\ n \in DOMAIN B)
       /\ \A n \in X : n \in DOMAIN A \/ n \in DOMAIN B
       /\ p # "permissions"
  BY DEF Differ, X
<1>12. ItemPlan(Forward(D), p, t, A, B)
  BY ONLY <1>8, <1>10, <1>11 DEF ItemPlan, SomeErases, SomeWrites
<1>13. ItemPlan(Backward(D), p, t, B, A)
  BY ONLY <1>9, <1>10, <1>11 DEF ItemPlan, SomeErases, SomeWrites
<1>. QED
  BY <1>6, <1>7, <1>12, <1>13 DEF PartPlanned

\* The diffs of the fields of a table take them from A to B and back.
LEMMA FieldsPlanned ==
  ASSUME NEW t, NEW A, NEW B, Named(A), Named(B)
  PROVE  LET D == DiffFields(t, A, B) IN
         Proper(D) /\ PartPlanned(ToSet(D), "fields", t, A, B)
<1>. DEFINE D == ToSet(DiffFields(t, A, B))
            X == Differ("fields", A, B)
            One(x, n) == ForItem(x, "fields", t, n, A, B)
<1>1. /\ Proper(DiffFields(t, A, B))
      /\ \A x : x \in D <=>
              \/ \E n \in Added(A, B) : x = AddField(t, n, B[n])
              \/ \E n \in Added(B, A) : x = DropField(t, n, A[n])
              \/ \E n \in Changed(A, B) : x = ModifyField(t, n, A[n], B[n])
  BY FieldDiffs
<1>2. /\ \A n \in Added(A, B) : n \in X /\ n \in DOMAIN B /\ n \notin DOMAIN A
      /\ \A n \in Added(B, A) : n \in X /\ n \in DOMAIN A /\ n \notin DOMAIN B
      /\ \A n \in Changed(A, B) : n \in X /\ n \in DOMAIN A /\ n \in DOMAIN B
      /\ \A n \in X : n \in Added(A, B) \/ n \in Added(B, A) \/ n \in Changed(A, B)
  BY DEF Added, Changed, Differ
<1>. HIDE DEF D, X
<1>3. /\ \A n \in Added(A, B) : One(AddField(t, n, B[n]), n)
      /\ \A n \in Added(B, A) : One(DropField(t, n, A[n]), n)
      /\ \A n \in Changed(A, B) : One(ModifyField(t, n, A[n], B[n]), n)
  BY <1>2, FieldsOneByOne DEF ForItem, ItemOf
<1>. HIDE DEF One
<1>4. (\A x \in D : \E n \in X : One(x, n)) /\ (\A n \in X : \E x \in D : One(x, n))
  BY <1>1, <1>2, <1>3
<1>5. PartPlanned(D, "fields", t, A, B)
  BY <1>4, PlannedOneByOne DEF One, X
<1>. QED
  BY <1>1, <1>5 DEF D

\* The diffs of its indexes or events take their names from A to B and back.
LEMMA ItemsPlanned ==
  ASSUME NEW p \in {"indexes", "events"}, NEW t, NEW A, NEW B, Named(A), Named(B)
  PROVE  LET D == DiffItems(p, t, A, B) IN
         Proper(D) /\ PartPlanned(ToSet(D), p, t, A, B)
<1>. DEFINE D == ToSet(DiffItems(p, t, A, B))
            X == Differ(p, A, B)
            One(x, n) == ForItem(x, p, t, n, A, B)
<1>1. /\ Proper(DiffItems(p, t, A, B))
      /\ \A x : x \in D <=>
              \/ \E n \in Added(A, B) : x = AddItem(p, t, n, B[n])
              \/ \E n \in Added(B, A) : x = DropItem(p, t, n, A[n])
  BY ItemDiffs
<1>2. /\ \A n \in Added(A, B) : n \in X /\ n \in DOMAIN B /\ n \notin DOMAIN A
      /\ \A n \in Added(B, A) : n \in X /\ n \in DOMAIN A /\ n \notin DOMAIN B
      /\ \A n \in X : n \in Added(A, B) \/ n \in Added(B, A)
  BY DEF Added, Differ
<1>. HIDE DEF D, X
<1>3. /\ \A n \in Added(A, B) : One(AddItem(p, t, n, B[n]), n)
      /\ \A n \in Added(B, A) : One(DropItem(p, t, n, A[n]), n)
  BY <1>2, ItemsOneByOne DEF ForItem, ItemOf
<1>. HIDE DEF One
<1>4. (\A x \in D : \E n \in X : One(x, n)) /\ (\A n \in X : \E x \in D : One(x, n))
  BY <1>1, <1>2, <1>3
<1>5. PartPlanned(D, p, t, A, B)
  <2>1. p \in {"fields", "indexes", "events"}
    OBVIOUS
  <2>. QED
    BY ONLY <1>4, <2>1, PlannedOneByOne DEF One, X
<1>. QED
  BY <1>1, <1>5 DEF D

\* Permissions are written with one statement for each operation.
LEMMA PermitMembers ==
  ASSUME NEW t, NEW A, Named(A)
  PROVE  /\ Proper(Permit(t, A))
         /\ \A s : s \in ToSet(Permit(t, A)) <=>
              \E n \in DOMAIN A : s = [do |-> "permit", table |-> t, name |-> n, def |-> A[n]]
<1>. DEFINE f == [n \in DOMAIN A |-> [do |-> "permit", table |-> t, name |-> n, def |-> A[n]]]
<1>1. DOMAIN f = DOMAIN A /\ \A n \in DOMAIN A : f[n] = [do |-> "permit", table |-> t, name |-> n, def |-> A[n]]
  OBVIOUS
<1>2. Permit(t, A) = Each(f)
  BY DEF Permit
<1>. HIDE DEF f
<1>3. Proper(Each(f)) /\ ToSet(Each(f)) = {f[n] : n \in DOMAIN f}
  BY <1>1, EachMembers DEF Named
<1>. QED
  BY <1>1, <1>2, <1>3

\* The diff of the permissions of a table puts those of B in place, and back those of A.
LEMMA PermissionsPlanned ==
  ASSUME NEW t, NEW A, NEW B, Named(A), Named(B)
  PROVE  LET D == DiffPermissions(t, A, B) IN
         Proper(D) /\ PartPlanned(ToSet(D), "permissions", t, A, B)
<1>. DEFINE D == ToSet(DiffPermissions(t, A, B))  x == ModifyPermissions(t, A, B)
            permit(n, v) == [do |-> "permit", table |-> t, name |-> n, def |-> v]
<1>0. Proper(DiffPermissions(t, A, B)) /\ D = IF A = B THEN {} ELSE {x}
  BY OneMember, NoMember DEF DiffPermissions
<1>1. x.forward = Permit(t, B) /\ x.backward = Permit(t, A)
  BY DEF ModifyPermissions, Diff
<1>. HIDE DEF D, x
<1>2. Forward(D) = (IF A = B THEN {} ELSE ToSet(x.forward)) /\ Backward(D) = (IF A = B THEN {} ELSE ToSet(x.backward))
  BY <1>0 DEF Forward, Backward
<1>3. /\ Proper(x.forward) /\ Proper(x.backward)
      /\ \A s : s \in ToSet(x.forward) <=> \E n \in DOMAIN B : s = permit(n, B[n])
      /\ \A s : s \in ToSet(x.backward) <=> \E n \in DOMAIN A : s = permit(n, A[n])
  BY <1>1, PermitMembers
<1>4. \A n, v : LET s == permit(n, v) IN
                /\ s.do = "permit" /\ s.table = t /\ s.name = n /\ s.def = v
                /\ IsStatement(s)
  BY DEF IsStatement
<1>. HIDE DEF permit
<1>5. \A y \in D : SoundDiff(y)
  BY <1>0, <1>3, <1>4 DEF SoundDiff
<1>6. \A s \in Forward(D) \union Backward(D) : OfPart(s, "permissions", t)
  BY <1>2, <1>3, <1>4 DEF OfPart
<1>7. \A s, m : \A n, v : s = permit(n, v) =>
         (Writes(s, "permissions", t, m) <=> m = n) /\ ~Erases(s, "permissions", t, m) /\ s.def = v
  BY <1>4 DEF Writes, Erases
<1>8. A # B => \A n \in DOMAIN B : \E s \in Forward(D) : s = permit(n, B[n])
  BY <1>2, <1>3
<1>9. A # B => \A n \in DOMAIN A : \E s \in Backward(D) : s = permit(n, A[n])
  BY <1>2, <1>3
<1>10. /\ \A s \in Forward(D) : A # B /\ \E n \in DOMAIN B : s = permit(n, B[n])
       /\ \A s \in Backward(D) : A # B /\ \E n \in DOMAIN A : s = permit(n, A[n])
  BY <1>2, <1>3
<1>11. ItemPlan(Forward(D), "permissions", t, A, B)
  BY ONLY <1>7, <1>8, <1>10 DEF ItemPlan, SomeErases, SomeWrites
<1>12. ItemPlan(Backward(D), "permissions", t, B, A)
  BY ONLY <1>7, <1>9, <1>10 DEF ItemPlan, SomeErases, SomeWrites
<1>. QED
  BY <1>0, <1>5, <1>6, <1>11, <1>12 DEF PartPlanned, D

\* The diffs of any part of a table are a plan for it.
LEMMA PartsPlanned ==
  ASSUME NEW p \in Parts, NEW t, NEW A, NEW B, Named(A), Named(B)
  PROVE  LET D == PartDiffs(p, t, A, B) IN
         Proper(D) /\ PartPlanned(ToSet(D), p, t, A, B)
BY FieldsPlanned, ItemsPlanned, PermissionsPlanned DEF PartDiffs, Parts

-----------------------------------------------------------------------------
(* The plan for one table.                                                 *)

\* The statement is about the table t.
About(s, t) ==
  s.table = t /\ s.do \in {"define table", "remove table", "define", "remove", "permit", "backfill"}

\* The diffs of some parts of a table.
ContentDiffs(Q, t, A, B) == UNION {ToSet(PartDiffs(p, t, A[p], B[p])) : p \in Q}

\* The diffs D plan the parts Q of a table there and back.
ContentPlanned(D, Q, t, A, B) ==
  /\ \A x \in D : SoundDiff(x)
  /\ \A s \in Forward(D) \union Backward(D) : About(s, t) /\ ~Defines(s, t) /\ ~Drops(s, t)
  /\ \A p \in Q : ItemPlan(Forward(D), p, t, A[p], B[p]) /\ ItemPlan(Backward(D), p, t, B[p], A[p])

\* A plan is kept when statements about other things join it.
LEMMA PlanLifts ==
  ASSUME NEW V, NEW W, NEW p, NEW t, NEW A, NEW B, ItemPlan(V, p, t, A, B), \A s \in V : s \in W,
         \A s \in W : \A n : Writes(s, p, t, n) \/ Erases(s, p, t, n) => s \in V
  PROVE  ItemPlan(W, p, t, A, B)
BY DEF ItemPlan, SomeWrites, SomeErases

\* A statement on one part of a table writes and erases nothing of another.
LEMMA OnePart ==
  ASSUME NEW s, NEW p \in Parts, NEW q \in Parts, NEW t, NEW n, OfPart(s, q, t),
         Writes(s, p, t, n) \/ Erases(s, p, t, n)
  PROVE  p = q
BY DEF OfPart, Writes, Erases, Parts

\* The diffs of some parts of a table together are a plan for each of them.
LEMMA ContentsPlanned ==
  ASSUME NEW Q \in SUBSET Parts, NEW t, NEW A, NEW B, \A p \in Q : Named(A[p]) /\ Named(B[p])
  PROVE  ContentPlanned(ContentDiffs(Q, t, A, B), Q, t, A, B)
<1>. DEFINE D(p) == ToSet(PartDiffs(p, t, A[p], B[p]))
            E == ContentDiffs(Q, t, A, B)
<1>1. \A p \in Q : PartPlanned(D(p), p, t, A[p], B[p])
  BY PartsPlanned
<1>2. E = UNION {D(p) : p \in Q}
  BY DEF ContentDiffs
<1>. HIDE DEF D, E
<1>3. /\ \A x \in E : \E p \in Q : x \in D(p)
      /\ \A s : s \in Forward(E) <=> \E p \in Q : s \in Forward(D(p))
      /\ \A s : s \in Backward(E) <=> \E p \in Q : s \in Backward(D(p))
  BY <1>2 DEF Forward, Backward
<1>4. \A x \in E : SoundDiff(x)
  BY <1>1, <1>3 DEF PartPlanned
<1>5. \A p \in Q : \A s \in Forward(D(p)) \union Backward(D(p)) : OfPart(s, p, t)
  BY <1>1 DEF PartPlanned
<1>6. \A s \in Forward(E) \union Backward(E) : About(s, t) /\ ~Defines(s, t) /\ ~Drops(s, t)
  <2>1. \A s \in Forward(E) \union Backward(E) : \E p \in Q : OfPart(s, p, t)
    BY <1>3, <1>5
  <2>. QED
    BY <2>1 DEF OfPart, About, Defines, Drops
<1>7. ASSUME NEW p \in Q
      PROVE  ItemPlan(Forward(E), p, t, A[p], B[p]) /\ ItemPlan(Backward(E), p, t, B[p], A[p])
  <2>1. ItemPlan(Forward(D(p)), p, t, A[p], B[p]) /\ ItemPlan(Backward(D(p)), p, t, B[p], A[p])
    BY <1>1 DEF PartPlanned
  <2>2. \A s \in Forward(E) : \A n : Writes(s, p, t, n) \/ Erases(s, p, t, n) => s \in Forward(D(p))
    BY <1>3, <1>5, OnePart
  <2>3. \A s \in Backward(E) : \A n : Writes(s, p, t, n) \/ Erases(s, p, t, n) => s \in Backward(D(p))
    BY <1>3, <1>5, OnePart
  <2>4. (\A s \in Forward(D(p)) : s \in Forward(E)) /\ (\A s \in Backward(D(p)) : s \in Backward(E))
    BY <1>3
  <2>5. ItemPlan(Forward(E), p, t, A[p], B[p])
    BY ONLY <2>1, <2>2, <2>4, PlanLifts
  <2>6. ItemPlan(Backward(E), p, t, B[p], A[p])
    BY ONLY <2>1, <2>3, <2>4, PlanLifts
  <2>. QED
    BY <2>5, <2>6
<1>. QED
  BY <1>4, <1>6, <1>7 DEF ContentPlanned, E

\* The parts an edge is given when it comes.
Content == Parts \ {"permissions"}

\* The diffs made for a new table and for one that changed are the diffs of its parts.
LEMMA ContentLists ==
  ASSUME NEW t, NEW def, NEW old, \A p \in Parts : Named(def[p]) /\ Named(old[p]),
         NEW m, NEW permitted, permitted = DiffPermissions(t, Nothing, def.permissions)
  PROVE  /\ Proper(Contents(t, def)) /\ ToSet(Contents(t, def)) = ContentDiffs(Content, t, EmptyTable(m), def)
         /\ Proper(permitted)
         /\ ContentDiffs(Parts, t, EmptyTable(m), def) = ToSet(Contents(t, def)) \union ToSet(permitted)
         /\ Proper(ModifyTable(t, old, def)) /\ ToSet(ModifyTable(t, old, def)) = ContentDiffs(Parts, t, old, def)
<1>1. Named(Nothing)
  <2>1. DOMAIN Nothing = {} /\ Nothing = [n \in DOMAIN Nothing |-> Nothing[n]]
    BY DEF Nothing
  <2>. QED
    BY <2>1, FS_EmptySet DEF Named
<1>. DEFINE none == EmptyTable(m)
<1>2. \A p \in Parts : none[p] = Nothing
  BY DEF EmptyTable, Parts
<1>. DEFINE E(A, p) == PartDiffs(p, t, A[p], def[p])
<1>3. \A A : (\A p \in Parts : Named(A[p])) =>
        /\ \A p \in Parts : Proper(E(A, p))
        /\ ContentDiffs(Content, t, A, def)
             = ToSet(E(A, "fields")) \union ToSet(E(A, "indexes")) \union ToSet(E(A, "events"))
        /\ ContentDiffs(Parts, t, A, def)
             = ContentDiffs(Content, t, A, def) \union ToSet(E(A, "permissions"))
  <2>1. \A A : (\A p \in Parts : Named(A[p])) => \A p \in Parts : Proper(E(A, p))
    BY PartsPlanned
  <2>2. \A A : ContentDiffs(Content, t, A, def) = UNION {ToSet(E(A, p)) : p \in Content}
               /\ ContentDiffs(Parts, t, A, def) = UNION {ToSet(E(A, p)) : p \in Parts}
    BY DEF ContentDiffs
  <2>. HIDE DEF E
  <2>3. \A p : (p \in Content <=> p = "fields" \/ p = "indexes" \/ p = "events")
               /\ (p \in Parts <=> p \in Content \/ p = "permissions")
    BY DEF Content, Parts
  <2>. QED
    BY <2>1, <2>2, <2>3
<1>4. /\ \A A : E(A, "fields") = DiffFields(t, A.fields, def.fields)
      /\ \A A : E(A, "indexes") = DiffItems("indexes", t, A.indexes, def.indexes)
      /\ \A A : E(A, "events") = DiffItems("events", t, A.events, def.events)
      /\ \A A : E(A, "permissions") = DiffPermissions(t, A.permissions, def.permissions)
  BY DEF PartDiffs
<1>5. /\ Contents(t, def) = (E(none, "fields") \o E(none, "indexes")) \o E(none, "events")
      /\ permitted = E(none, "permissions")
      /\ ModifyTable(t, old, def) = ((E(old, "fields") \o E(old, "indexes")) \o E(old, "events")) \o E(old, "permissions")
  <2>1. none.fields = Nothing /\ none.indexes = Nothing /\ none.events = Nothing /\ none.permissions = Nothing
    BY DEF EmptyTable
  <2>2. /\ Contents(t, def) = (DiffFields(t, none.fields, def.fields) \o DiffItems("indexes", t, none.indexes, def.indexes))
                                \o DiffItems("events", t, none.events, def.events)
        /\ permitted = DiffPermissions(t, none.permissions, def.permissions)
    BY <2>1 DEF Contents
  <2>3. ModifyTable(t, old, def) =
          ((DiffFields(t, old.fields, def.fields) \o DiffItems("indexes", t, old.indexes, def.indexes))
             \o DiffItems("events", t, old.events, def.events)) \o DiffPermissions(t, old.permissions, def.permissions)
    BY DEF ModifyTable
  <2>. HIDE DEF E, none
  <2>. QED
    BY ONLY <1>4, <2>2, <2>3
<1>6. (\A p \in Parts : Named(none[p])) /\ (\A p \in Parts : Named(old[p]))
  BY <1>1, <1>2
<1>. HIDE DEF E, none
<1>7. ASSUME NEW A, \A p \in Parts : Named(A[p])
      PROVE  LET F == (E(A, "fields") \o E(A, "indexes")) \o E(A, "events") IN
             /\ Proper(F) /\ ToSet(F) = ContentDiffs(Content, t, A, def)
             /\ ContentDiffs(Parts, t, A, def) = ToSet(F) \union ToSet(E(A, "permissions"))
             /\ Proper(E(A, "permissions"))
             /\ Proper(F \o E(A, "permissions")) /\ ToSet(F \o E(A, "permissions")) = ContentDiffs(Parts, t, A, def)
  <2>. DEFINE f == E(A, "fields")  i == E(A, "indexes")  e == E(A, "events")  r == E(A, "permissions")
  <2>1. Proper(f) /\ Proper(i) /\ Proper(e) /\ Proper(r)
        /\ ContentDiffs(Content, t, A, def) = ToSet(f) \union ToSet(i) \union ToSet(e)
        /\ ContentDiffs(Parts, t, A, def) = ContentDiffs(Content, t, A, def) \union ToSet(r)
    BY <1>3, <1>7 DEF Parts
  <2>. HIDE DEF f, i, e, r
  <2>2. Proper(f \o i) /\ ToSet(f \o i) = ToSet(f) \union ToSet(i)
    BY ONLY <2>1, ConcatMembers
  <2>3. Proper((f \o i) \o e) /\ ToSet((f \o i) \o e) = ToSet(f \o i) \union ToSet(e)
    BY ONLY <2>1, <2>2, ConcatMembers
  <2>4. Proper(((f \o i) \o e) \o r) /\ ToSet(((f \o i) \o e) \o r) = ToSet((f \o i) \o e) \union ToSet(r)
    BY ONLY <2>1, <2>3, ConcatMembers
  <2>. QED
    BY <2>1, <2>2, <2>3, <2>4 DEF f, i, e, r
<1>8. LET F == (E(none, "fields") \o E(none, "indexes")) \o E(none, "events") IN
      /\ Proper(F) /\ ToSet(F) = ContentDiffs(Content, t, none, def)
      /\ Proper(E(none, "permissions"))
      /\ ContentDiffs(Parts, t, none, def) = ToSet(F) \union ToSet(E(none, "permissions"))
  BY ONLY <1>6, <1>7
<1>9. LET F == (E(old, "fields") \o E(old, "indexes")) \o E(old, "events") IN
      /\ Proper(F \o E(old, "permissions")) /\ ToSet(F \o E(old, "permissions")) = ContentDiffs(Parts, t, old, def)
  BY ONLY <1>6, <1>7
<1>. QED
  BY <1>5, <1>8, <1>9 DEF none

-----------------------------------------------------------------------------
(* The plan for the buckets.                                               *)

\* The statement is about a bucket.
OfBucket(s) == s.do \in {"define bucket", "remove bucket", "alter bucket"}

\* The statements take buckets defined as A to buckets defined as B.
BucketPlan(W, A, B) ==
  /\ \A s \in W : \A b : Stores(s, b) => b \in DOMAIN B /\ b \notin DOMAIN A /\ s.def = B[b]
  /\ \A b \in DOMAIN B : b \notin DOMAIN A => SomeStores(W, b)
  /\ \A b : SomeUnstores(W, b) <=> b \in DOMAIN A /\ b \notin DOMAIN B
  /\ \A s \in W : \A b, a : Alters(s, b, a) => b \in DOMAIN A /\ b \in DOMAIN B /\ s.change[a] = B[b][a]
  /\ \A b \in DOMAIN A, a \in Attributes :
       b \in DOMAIN B /\ A[b][a] # B[b][a] /\ ~(a = "permissions" /\ B[b][a] = NoText) => SomeAlters(W, b, a)

\* The statements made for buckets that come, go and change.
BucketStatements(W, A, B) ==
  \A s : s \in W <=> \/ \E b \in Added(A, B) : s = DefineBucket(b, B[b])
                     \/ \E b \in Added(B, A) : s = RemoveBucket(b)
                     \/ \E b \in Changed(A, B) : s = AlterBucket(b, A[b], B[b])

\* A map of bucket definitions.
Buckets(A) == Named(A) /\ \A b \in DOMAIN A : IsBucket(A[b])

\* Statements for the buckets that come, go and change are a plan for the buckets.
LEMMA BucketsStated ==
  ASSUME NEW W, NEW A, NEW B, Buckets(A), Buckets(B), BucketStatements(W, A, B)
  PROVE  BucketPlan(W, A, B)
<1>1. /\ \A b, v : LET s == DefineBucket(b, v) IN s.do = "define bucket" /\ s.bucket = b /\ s.def = v
      /\ \A b : LET s == RemoveBucket(b) IN s.do = "remove bucket" /\ s.bucket = b
  BY DEF DefineBucket, RemoveBucket
<1>2. ASSUME NEW b, NEW v, NEW w, IsBucket(v), IsBucket(w)
      PROVE  LET s == AlterBucket(b, v, w) IN
             /\ s.do = "alter bucket" /\ s.bucket = b
             /\ \A a \in DOMAIN s.change : s.change[a] = w[a]
             /\ \A a \in Attributes : v[a] # w[a] /\ ~(a = "permissions" /\ w[a] = NoText) => a \in DOMAIN s.change
  <2>1. DOMAIN v = Attributes /\ DOMAIN w = Attributes
    BY <1>2 DEF IsBucket, Attributes
  <2>. QED
    BY <2>1 DEF AlterBucket
<1>3. /\ \A b \in Added(A, B) : DefineBucket(b, B[b]) \in W
      /\ \A b \in Added(B, A) : RemoveBucket(b) \in W
      /\ \A b \in Changed(A, B) : AlterBucket(b, A[b], B[b]) \in W
      /\ \A s \in W : \/ \E b \in Added(A, B) : s = DefineBucket(b, B[b])
                      \/ \E b \in Added(B, A) : s = RemoveBucket(b)
                      \/ \E b \in Changed(A, B) : s = AlterBucket(b, A[b], B[b])
  BY DEF BucketStatements
<1>4. \A b : /\ b \in Added(A, B) <=> b \in DOMAIN B /\ b \notin DOMAIN A
             /\ b \in Added(B, A) <=> b \in DOMAIN A /\ b \notin DOMAIN B
             /\ b \in Changed(A, B) <=> b \in DOMAIN A /\ b \in DOMAIN B /\ A[b] # B[b]
  BY DEF Added, Changed
<1>5. \A b \in Changed(A, B) :
        LET s == AlterBucket(b, A[b], B[b]) IN
             /\ s.do = "alter bucket" /\ s.bucket = b
             /\ \A a \in DOMAIN s.change : s.change[a] = B[b][a]
             /\ \A a \in Attributes : A[b][a] # B[b][a] /\ ~(a = "permissions" /\ B[b][a] = NoText) => a \in DOMAIN s.change
  BY <1>2, <1>4 DEF Buckets
<1>6. \A s \in W :
        /\ \A b : Stores(s, b) => b \in Added(A, B) /\ s.def = B[b]
        /\ \A b : Unstores(s, b) => b \in Added(B, A)
        /\ \A b, a : Alters(s, b, a) => b \in Changed(A, B) /\ s.change[a] = B[b][a]
  <2>. TAKE s \in W
  <2>1. CASE \E b \in Added(A, B) : s = DefineBucket(b, B[b])
    <3>1. PICK b \in Added(A, B) : s = DefineBucket(b, B[b])
      BY <2>1
    <3>2. b \in Added(A, B) /\ s.do = "define bucket" /\ s.bucket = b /\ s.def = B[b]
      BY ONLY <3>1 DEF DefineBucket
    <3>. QED
      BY ONLY <3>2 DEF Stores, Unstores, Alters
  <2>2. CASE \E b \in Added(B, A) : s = RemoveBucket(b)
    <3>1. PICK b \in Added(B, A) : s = RemoveBucket(b)
      BY <2>2
    <3>2. b \in Added(B, A) /\ s.do = "remove bucket" /\ s.bucket = b
      BY ONLY <3>1 DEF RemoveBucket
    <3>. QED
      BY ONLY <3>2 DEF Stores, Unstores, Alters
  <2>3. CASE \E b \in Changed(A, B) : s = AlterBucket(b, A[b], B[b])
    <3>1. PICK b \in Changed(A, B) : s = AlterBucket(b, A[b], B[b])
      BY <2>3
    <3>2. b \in Changed(A, B) /\ s.do = "alter bucket" /\ s.bucket = b
          /\ \A a \in DOMAIN s.change : s.change[a] = B[b][a]
      BY <3>1, <1>5
    <3>. QED
      BY ONLY <3>2 DEF Stores, Unstores, Alters
  <2>. QED
    BY <1>3, <2>1, <2>2, <2>3
<1>7. /\ \A b \in Added(A, B) : SomeStores(W, b)
      /\ \A b \in Added(B, A) : SomeUnstores(W, b)
  <2>1. \A b \in Added(A, B) : DefineBucket(b, B[b]) \in W /\ Stores(DefineBucket(b, B[b]), b)
    <3>. TAKE b \in Added(A, B)
    <3>1. DefineBucket(b, B[b]) \in W
      BY <1>3
    <3>2. DefineBucket(b, B[b]).do = "define bucket" /\ DefineBucket(b, B[b]).bucket = b
      BY ONLY DEF DefineBucket
    <3>. QED
      BY ONLY <3>1, <3>2 DEF Stores
  <2>2. \A b \in Added(B, A) : RemoveBucket(b) \in W /\ Unstores(RemoveBucket(b), b)
    <3>. TAKE b \in Added(B, A)
    <3>1. RemoveBucket(b) \in W
      BY <1>3
    <3>2. RemoveBucket(b).do = "remove bucket" /\ RemoveBucket(b).bucket = b
      BY ONLY DEF RemoveBucket
    <3>. QED
      BY ONLY <3>1, <3>2 DEF Unstores
  <2>. QED
    BY ONLY <2>1, <2>2 DEF SomeStores, SomeUnstores
<1>8. \A b \in Changed(A, B), a \in Attributes :
        A[b][a] # B[b][a] /\ ~(a = "permissions" /\ B[b][a] = NoText) => SomeAlters(W, b, a)
  BY <1>3, <1>5 DEF SomeAlters, Alters
<1>9. \A b \in DOMAIN A, a \in Attributes : b \in DOMAIN B /\ A[b][a] # B[b][a] => b \in Changed(A, B)
  BY <1>4
<1>. QED
  BY ONLY <1>4, <1>6, <1>7, <1>8, <1>9 DEF BucketPlan, SomeUnstores

\* The statements of a diff with one there and one back.
LEMMA OneEach ==
  ASSUME NEW there, NEW back
  PROVE  LET x == Diff(<<there>>, <<back>>, TRUE) IN
         /\ Proper(x.forward) /\ Proper(x.backward)
         /\ ToSet(x.forward) = {there} /\ ToSet(x.backward) = {back}
BY OneMember DEF Diff

\* The diffs of the buckets are a plan for them, there and back (diffBucketSets).
LEMMA BucketsPlanned ==
  ASSUME NEW A, NEW B, Buckets(A), Buckets(B)
  PROVE  LET L == DiffBuckets(A, B)  D == ToSet(L) IN
         /\ Proper(L)
         /\ \A x \in D : SoundDiff(x)
         /\ \A s \in Forward(D) \union Backward(D) : OfBucket(s)
         /\ BucketStatements(Forward(D), A, B) /\ BucketStatements(Backward(D), B, A)
         /\ BucketPlan(Forward(D), A, B) /\ BucketPlan(Backward(D), B, A)
<1>. DEFINE f == [b \in Added(A, B) |-> AddBucket(b, B[b])]
            g == [b \in Added(B, A) |-> DropBucket(b, A[b])]
            h == [b \in Changed(A, B) |-> ModifyBucket(b, A[b], B[b])]
            D == ToSet(DiffBuckets(A, B))
<1>1. /\ DOMAIN f = Added(A, B) /\ \A b \in DOMAIN f : f[b] = AddBucket(b, B[b])
      /\ DOMAIN g = Added(B, A) /\ \A b \in DOMAIN g : g[b] = DropBucket(b, A[b])
      /\ DOMAIN h = Changed(A, B) /\ \A b \in DOMAIN h : h[b] = ModifyBucket(b, A[b], B[b])
  OBVIOUS
<1>2. DiffBuckets(A, B) = (Each(f) \o Each(g)) \o Each(h)
  BY DEF DiffBuckets
<1>. HIDE DEF f, g, h
<1>3. /\ Proper(Each(f)) /\ ToSet(Each(f)) = {f[n] : n \in DOMAIN f}
      /\ Proper(Each(g)) /\ ToSet(Each(g)) = {g[n] : n \in DOMAIN g}
      /\ Proper(Each(h)) /\ ToSet(Each(h)) = {h[n] : n \in DOMAIN h}
  BY <1>1, NamesThatDiffer, EachMembers DEF Buckets
<1>4. Proper(Each(f) \o Each(g)) /\ ToSet(Each(f) \o Each(g)) = ToSet(Each(f)) \union ToSet(Each(g))
  BY <1>3, ConcatMembers
<1>5. /\ Proper((Each(f) \o Each(g)) \o Each(h))
      /\ ToSet((Each(f) \o Each(g)) \o Each(h)) = ToSet(Each(f) \o Each(g)) \union ToSet(Each(h))
  BY <1>3, <1>4, ConcatMembers
<1>6. \A x : x \in D <=> \/ \E b \in Added(A, B) : x = AddBucket(b, B[b])
                         \/ \E b \in Added(B, A) : x = DropBucket(b, A[b])
                         \/ \E b \in Changed(A, B) : x = ModifyBucket(b, A[b], B[b])
  BY <1>1, <1>2, <1>3, <1>4, <1>5
<1>. DEFINE Two(x, there, back) ==
              /\ Proper(x.forward) /\ Proper(x.backward)
              /\ ToSet(x.forward) = {there} /\ ToSet(x.backward) = {back}
<1>7. /\ \A b : Two(AddBucket(b, B[b]), DefineBucket(b, B[b]), RemoveBucket(b))
      /\ \A b : Two(DropBucket(b, A[b]), RemoveBucket(b), DefineBucket(b, A[b]))
      /\ \A b : Two(ModifyBucket(b, A[b], B[b]), AlterBucket(b, A[b], B[b]), AlterBucket(b, B[b], A[b]))
  BY OneEach DEF AddBucket, DropBucket, ModifyBucket
<1>. HIDE DEF D
<1>8. Changed(A, B) = Changed(B, A)
  BY DEF Changed
<1>9. BucketStatements(Forward(D), A, B) /\ BucketStatements(Backward(D), B, A)
  <2>1. \A s : s \in Forward(D) <=> \E x \in D : s \in ToSet(x.forward)
    BY DEF Forward
  <2>2. \A s : s \in Backward(D) <=> \E x \in D : s \in ToSet(x.backward)
    BY DEF Backward
  <2>3. BucketStatements(Forward(D), A, B)
    <3>1. /\ \A b : ToSet(AddBucket(b, B[b]).forward) = {DefineBucket(b, B[b])}
          /\ \A b : ToSet(DropBucket(b, A[b]).forward) = {RemoveBucket(b)}
          /\ \A b : ToSet(ModifyBucket(b, A[b], B[b]).forward) = {AlterBucket(b, A[b], B[b])}
      BY <1>7
    <3>2. \A s \in Forward(D) : \/ \E b \in Added(A, B) : s = DefineBucket(b, B[b])
                                \/ \E b \in Added(B, A) : s = RemoveBucket(b)
                                \/ \E b \in Changed(A, B) : s = AlterBucket(b, A[b], B[b])
      <4>. TAKE s \in Forward(D)
      <4>1. PICK x \in D : s \in ToSet(x.forward)
        BY <2>1
      <4>2. CASE \E b \in Added(A, B) : x = AddBucket(b, B[b])
        BY ONLY <3>1, <4>1, <4>2
      <4>3. CASE \E b \in Added(B, A) : x = DropBucket(b, A[b])
        BY ONLY <3>1, <4>1, <4>3
      <4>4. CASE \E b \in Changed(A, B) : x = ModifyBucket(b, A[b], B[b])
        BY ONLY <3>1, <4>1, <4>4
      <4>. QED
        BY ONLY <1>6, <4>1, <4>2, <4>3, <4>4
    <3>3. /\ \A b \in Added(A, B) : DefineBucket(b, B[b]) \in Forward(D)
          /\ \A b \in Added(B, A) : RemoveBucket(b) \in Forward(D)
          /\ \A b \in Changed(A, B) : AlterBucket(b, A[b], B[b]) \in Forward(D)
      BY ONLY <1>6, <2>1, <3>1
    <3>. QED
      BY ONLY <3>2, <3>3 DEF BucketStatements
  <2>4. BucketStatements(Backward(D), B, A)
    <3>1. /\ \A b : ToSet(AddBucket(b, B[b]).backward) = {RemoveBucket(b)}
          /\ \A b : ToSet(DropBucket(b, A[b]).backward) = {DefineBucket(b, A[b])}
          /\ \A b : ToSet(ModifyBucket(b, A[b], B[b]).backward) = {AlterBucket(b, B[b], A[b])}
      BY <1>7
    <3>2. \A s \in Backward(D) : \/ \E b \in Added(B, A) : s = DefineBucket(b, A[b])
                                 \/ \E b \in Added(A, B) : s = RemoveBucket(b)
                                 \/ \E b \in Changed(B, A) : s = AlterBucket(b, B[b], A[b])
      <4>. TAKE s \in Backward(D)
      <4>1. PICK x \in D : s \in ToSet(x.backward)
        BY <2>2
      <4>2. CASE \E b \in Added(A, B) : x = AddBucket(b, B[b])
        BY ONLY <3>1, <4>1, <4>2
      <4>3. CASE \E b \in Added(B, A) : x = DropBucket(b, A[b])
        BY ONLY <3>1, <4>1, <4>3
      <4>4. CASE \E b \in Changed(A, B) : x = ModifyBucket(b, A[b], B[b])
        <5>1. PICK b \in Changed(A, B) : x = ModifyBucket(b, A[b], B[b])
          BY ONLY <4>4
        <5>2. s = AlterBucket(b, B[b], A[b]) /\ b \in Changed(B, A)
          BY ONLY <1>8, <3>1, <4>1, <5>1
        <5>. QED
          BY ONLY <5>2
      <4>. QED
        BY ONLY <1>6, <4>1, <4>2, <4>3, <4>4
    <3>3. /\ \A b \in Added(B, A) : DefineBucket(b, A[b]) \in Backward(D)
          /\ \A b \in Added(A, B) : RemoveBucket(b) \in Backward(D)
          /\ \A b \in Changed(B, A) : AlterBucket(b, B[b], A[b]) \in Backward(D)
      BY ONLY <1>6, <1>8, <2>2, <3>1
    <3>. QED
      BY ONLY <3>2, <3>3 DEF BucketStatements
  <2>. QED
    BY <2>3, <2>4
<1>10. BucketPlan(Forward(D), A, B) /\ BucketPlan(Backward(D), B, A)
  BY <1>9, BucketsStated
<1>11. /\ \A b \in Added(A, B) : IsStatement(DefineBucket(b, B[b])) /\ OfBucket(DefineBucket(b, B[b]))
       /\ \A b \in Added(B, A) : IsStatement(DefineBucket(b, A[b])) /\ OfBucket(DefineBucket(b, A[b]))
       /\ \A b : IsStatement(RemoveBucket(b)) /\ OfBucket(RemoveBucket(b))
       /\ \A b, v, w : IsStatement(AlterBucket(b, v, w)) /\ OfBucket(AlterBucket(b, v, w))
  <2>1. /\ \A b \in Added(A, B) : IsBucket(B[b])
        /\ \A b \in Added(B, A) : IsBucket(A[b])
    BY DEF Added, Buckets
  <2>. QED
    BY <2>1 DEF DefineBucket, RemoveBucket, AlterBucket, IsStatement, OfBucket
<1>12. \A s : OfBucket(s) => s.do # "define"
  BY DEF OfBucket
<1>. HIDE DEF Two
<1>13. \A x \in D : \E there, back : Two(x, there, back) /\ IsStatement(there) /\ IsStatement(back)
                                     /\ OfBucket(there) /\ OfBucket(back)
  BY <1>6, <1>7, <1>11
<1>14. \A x \in D : SoundDiff(x) /\ \A s \in ToSet(x.forward) \union ToSet(x.backward) : OfBucket(s)
  BY ONLY <1>12, <1>13 DEF SoundDiff, Two
<1>15. \A s \in Forward(D) \union Backward(D) : OfBucket(s)
  BY <1>14 DEF Forward, Backward
<1>. QED
  BY <1>2, <1>5, <1>9, <1>10, <1>14, <1>15 DEF D

-----------------------------------------------------------------------------
(* The diffs of two schemas, table by table.                               *)

\* A schema whose parts are finite maps.
IsSchema(C) ==
  /\ Named(C.tables) /\ Named(C.edges) /\ Buckets(C.buckets)
  /\ \A t \in Names(C) : \A p \in Parts : Named(Of(C, t)[p])

\* No table of the one is an edge of the other.
Alike(C, D) ==
  /\ IsSchema(C) /\ IsSchema(D)
  /\ \A t : t \in DOMAIN C.tables \/ t \in DOMAIN D.tables => t \notin DOMAIN C.edges /\ t \notin DOMAIN D.edges

\* The parts of a new table that are written.
Fresh(D, t) == IF t \in DOMAIN D.tables THEN Parts ELSE Content

\* The diffs of one table or edge between two schemas.
TableDiffs(C, D, t) ==
  IF t \in Names(C)
  THEN IF t \in Names(D) THEN ContentDiffs(Parts, t, Of(C, t), Of(D, t))
       ELSE IF t \in DOMAIN C.tables THEN {DropTable(t, C.tables[t])} ELSE {DropEdge(t)}
  ELSE {AddTable(t, Of(D, t))} \union ContentDiffs(Fresh(D, t), t, EmptyTable(NoText), Of(D, t))

\* The statements take what is of one name in the schema C to what D has of it.
TablePlan(W, C, D, t) ==
  /\ t \in Names(C) /\ t \notin Names(D) => SomeDrops(W, t)
  /\ t \notin Names(D) => ~SomeDefines(W, t)
  /\ t \in Names(C) /\ t \in Names(D) =>
       /\ ~SomeDefines(W, t) /\ ~SomeDrops(W, t)
       /\ \A p \in Parts : ItemPlan(W, p, t, Of(C, t)[p], Of(D, t)[p])
NewTablePlan(W, C, D, t) ==
  t \notin Names(C) /\ t \in Names(D) =>
    /\ SomeDefines(W, t) /\ ~SomeDrops(W, t)
    /\ \A p \in Fresh(D, t) : ItemPlan(W, p, t, Nothing, Of(D, t)[p])

\* A table just defined has nothing in its parts.
LEMMA EmptyParts ==
  ASSUME NEW m
  PROVE  Named(Nothing) /\ \A p \in Parts : EmptyTable(m)[p] = Nothing
<1>1. DOMAIN Nothing = {} /\ Nothing = [n \in DOMAIN Nothing |-> Nothing[n]]
  BY DEF Nothing
<1>. QED
  BY <1>1, FS_EmptySet DEF Named, EmptyTable, Parts

\* What RemoveTable and DefineTable say.
LEMMA TableStatements ==
  ASSUME NEW t, NEW m
  PROVE  /\ LET s == RemoveTable(t) IN
            /\ s.do = "remove table" /\ IsStatement(s) /\ About(s, t) /\ Drops(s, t) /\ ~Defines(s, t)
         /\ LET s == DefineTable(t, m) IN
            /\ s.do = "define table" /\ IsStatement(s) /\ About(s, t) /\ Defines(s, t) /\ ~Drops(s, t)
            /\ \A p, n : ~Writes(s, p, t, n) /\ ~Erases(s, p, t, n)
BY DEF RemoveTable, DefineTable, IsStatement, About, Drops, Defines, Writes, Erases

\* The diffs of a table that comes, goes or changes are a plan for it, there and back.
LEMMA TablesPlanned ==
  ASSUME NEW C, NEW D, Alike(C, D), NEW t, t \in Names(C) \/ t \in Names(D)
  PROVE  LET E == TableDiffs(C, D, t) IN
         /\ \A x \in E : SoundDiff(x)
         /\ \A s \in Forward(E) \union Backward(E) : About(s, t)
         /\ TablePlan(Forward(E), C, D, t) /\ NewTablePlan(Forward(E), C, D, t)
         /\ TablePlan(Backward(E), D, C, t)
<1>. DEFINE E == TableDiffs(C, D, t)  old == Of(C, t)  new == Of(D, t)
            Goal == /\ \A x \in E : SoundDiff(x)
                    /\ \A s \in Forward(E) \union Backward(E) : About(s, t)
                    /\ TablePlan(Forward(E), C, D, t) /\ NewTablePlan(Forward(E), C, D, t)
                    /\ TablePlan(Backward(E), D, C, t)
<1>1. /\ t \in Names(C) => \A p \in Parts : Named(old[p])
      /\ t \in Names(D) => \A p \in Parts : Named(new[p])
  BY DEF Alike, IsSchema
<1>2. CASE t \in Names(C) /\ t \in Names(D)
  <2>1. E = ContentDiffs(Parts, t, old, new)
    BY <1>2 DEF TableDiffs
  <2>. HIDE DEF E, old, new
  <2>2. ContentPlanned(E, Parts, t, old, new)
    BY <1>1, <1>2, <2>1, ContentsPlanned
  <2>3. /\ \A x \in E : SoundDiff(x)
        /\ \A s \in Forward(E) \union Backward(E) : About(s, t)
        /\ \A s \in Forward(E) \union Backward(E) : ~Defines(s, t) /\ ~Drops(s, t)
        /\ \A p \in Parts : ItemPlan(Forward(E), p, t, old[p], new[p])
        /\ \A p \in Parts : ItemPlan(Backward(E), p, t, new[p], old[p])
    BY ONLY <2>2 DEF ContentPlanned
  <2>4. /\ ~SomeDefines(Forward(E), t) /\ ~SomeDrops(Forward(E), t)
        /\ ~SomeDefines(Backward(E), t) /\ ~SomeDrops(Backward(E), t)
    BY ONLY <2>3 DEF SomeDefines, SomeDrops
  <2>5. Goal
    BY ONLY <1>2, <2>3, <2>4 DEF TablePlan, NewTablePlan, old, new
  <2>. QED
    BY <2>5 DEF E
<1>3. CASE t \in Names(C) /\ t \notin Names(D)
  <2>. DEFINE x == IF t \in DOMAIN C.tables THEN DropTable(t, C.tables[t]) ELSE DropEdge(t)
              m == C.tables[t].mode
  <2>1. E = {x}
    BY <1>3 DEF TableDiffs
  <2>2. /\ x.forward = <<RemoveTable(t)>>
        /\ x.backward = <<DefineTable(t, m)>> \/ x.backward = <<>>
    BY DEF DropTable, DropEdge, Diff
  <2>. HIDE DEF x, m, E
  <2>3. /\ Proper(x.forward) /\ ToSet(x.forward) = {RemoveTable(t)}
        /\ Proper(x.backward) /\ ToSet(x.backward) \subseteq {DefineTable(t, m)}
    BY <2>2, OneMember, NoMember
  <2>4. Forward(E) = ToSet(x.forward) /\ Backward(E) = ToSet(x.backward)
    BY <2>1 DEF Forward, Backward
  <2>5. LET s == RemoveTable(t) IN
        s.do = "remove table" /\ IsStatement(s) /\ About(s, t) /\ Drops(s, t) /\ ~Defines(s, t)
    BY TableStatements
  <2>6. LET s == DefineTable(t, m) IN
        s.do = "define table" /\ IsStatement(s) /\ About(s, t) /\ Defines(s, t) /\ ~Drops(s, t)
    BY TableStatements
  <2>7. \A y \in E : SoundDiff(y)
    <3>1. \A s \in ToSet(x.forward) \union ToSet(x.backward) : IsStatement(s) /\ s.do # "define"
      BY <2>3, <2>5, <2>6
    <3>2. SoundDiff(x)
      BY ONLY <2>3, <3>1 DEF SoundDiff
    <3>. QED
      BY <2>1, <3>2
  <2>8. \A s \in Forward(E) \union Backward(E) : About(s, t)
    <3>1. (\A s \in Forward(E) : s = RemoveTable(t)) /\ (\A s \in Backward(E) : s = DefineTable(t, m))
      BY <2>3, <2>4
    <3>2. About(RemoveTable(t), t) /\ About(DefineTable(t, m), t)
      BY <2>5, <2>6
    <3>. QED
      BY ONLY <3>1, <3>2
  <2>9. SomeDrops(Forward(E), t) /\ ~SomeDefines(Forward(E), t)
    BY <2>3, <2>4, <2>5 DEF SomeDrops, SomeDefines
  <2>10. Goal
    BY ONLY <1>3, <2>7, <2>8, <2>9 DEF TablePlan, NewTablePlan
  <2>. QED
    BY <2>10 DEF E
<1>4. CASE t \notin Names(C) /\ t \in Names(D)
  <2>. DEFINE none == EmptyTable(NoText)  F == ContentDiffs(Fresh(D, t), t, none, new)  x == AddTable(t, new)
  <2>1. E = {x} \union F
    BY <1>4 DEF TableDiffs
  <2>2. x.forward = <<DefineTable(t, new.mode)>> /\ x.backward = <<RemoveTable(t)>>
    BY DEF AddTable, Diff
  <2>3. Fresh(D, t) \in SUBSET Parts
    BY DEF Fresh, Content
  <2>. HIDE DEF none, F, x, new, E
  <2>4. \A p \in Parts : none[p] = Nothing /\ Named(none[p]) /\ Named(new[p])
    BY <1>1, <1>4, EmptyParts DEF none
  <2>5. ContentPlanned(F, Fresh(D, t), t, none, new)
    BY <2>3, <2>4, ContentsPlanned DEF F
  <2>6. /\ \A y \in F : SoundDiff(y)
        /\ \A s \in Forward(F) \union Backward(F) : About(s, t) /\ ~Defines(s, t) /\ ~Drops(s, t)
        /\ \A p \in Fresh(D, t) : ItemPlan(Forward(F), p, t, Nothing, new[p])
    BY <2>3, <2>4, <2>5 DEF ContentPlanned
  <2>7. /\ Proper(x.forward) /\ ToSet(x.forward) = {DefineTable(t, new.mode)}
        /\ Proper(x.backward) /\ ToSet(x.backward) = {RemoveTable(t)}
    BY <2>2, OneMember
  <2>8. /\ \A s : s \in Forward(E) <=> s \in Forward(F) \/ s = DefineTable(t, new.mode)
        /\ \A s : s \in Backward(E) <=> s \in Backward(F) \/ s = RemoveTable(t)
    BY <2>1, <2>7 DEF Forward, Backward
  <2>9. LET s == RemoveTable(t) IN
        s.do = "remove table" /\ IsStatement(s) /\ About(s, t) /\ Drops(s, t) /\ ~Defines(s, t)
    BY TableStatements
  <2>10. LET s == DefineTable(t, new.mode) IN
         /\ s.do = "define table" /\ IsStatement(s) /\ About(s, t) /\ Defines(s, t) /\ ~Drops(s, t)
         /\ \A p, n : ~Writes(s, p, t, n) /\ ~Erases(s, p, t, n)
    BY TableStatements
  <2>11. \A y \in E : SoundDiff(y)
    <3>1. SoundDiff(x)
      BY <2>7, <2>9, <2>10 DEF SoundDiff
    <3>. QED
      BY <2>1, <2>6, <3>1
  <2>12. \A s \in Forward(E) \union Backward(E) : About(s, t)
    BY <2>6, <2>8, <2>9, <2>10
  <2>13. /\ SomeDefines(Forward(E), t) /\ ~SomeDrops(Forward(E), t)
         /\ SomeDrops(Backward(E), t) /\ ~SomeDefines(Backward(E), t)
    BY <2>6, <2>8, <2>9, <2>10 DEF SomeDrops, SomeDefines
  <2>14. \A p \in Fresh(D, t) : ItemPlan(Forward(E), p, t, Nothing, new[p])
    <3>1. \A s \in Forward(F) : s \in Forward(E)
      BY <2>8
    <3>2. \A p : \A s \in Forward(E) : \A n : Writes(s, p, t, n) \/ Erases(s, p, t, n) => s \in Forward(F)
      BY <2>8, <2>10
    <3>. QED
      BY ONLY <2>6, <3>1, <3>2, PlanLifts
  <2>15. Goal
    BY ONLY <1>4, <2>11, <2>12, <2>13, <2>14 DEF TablePlan, NewTablePlan, new
  <2>. QED
    BY <2>15 DEF E
<1>. QED
  BY <1>2, <1>3, <1>4

\* The diffs of a table or an edge that comes: the table, then its parts.
LEMMA NewTableList ==
  ASSUME NEW t, NEW def, \A p \in Parts : Named(def[p])
  PROVE  /\ Proper(AddTableDiffs(t, def))
         /\ ToSet(AddTableDiffs(t, def)) = {AddTable(t, def)} \union ContentDiffs(Parts, t, EmptyTable(NoText), def)
         /\ Proper(AddEdgeDiffs(t, def))
         /\ ToSet(AddEdgeDiffs(t, def)) = {AddTable(t, def)} \union ContentDiffs(Content, t, EmptyTable(NoText), def)
<1>. DEFINE a == <<AddTable(t, def)>>  c == Contents(t, def)  r == DiffPermissions(t, Nothing, def.permissions)
<1>1. Proper(a) /\ ToSet(a) = {AddTable(t, def)}
  BY OneMember
<1>2. /\ Proper(c) /\ ToSet(c) = ContentDiffs(Content, t, EmptyTable(NoText), def) /\ Proper(r)
      /\ ContentDiffs(Parts, t, EmptyTable(NoText), def) = ToSet(c) \union ToSet(r)
  BY ContentLists
<1>3. AddEdgeDiffs(t, def) = a \o c /\ AddTableDiffs(t, def) = (a \o c) \o r
  BY DEF AddEdgeDiffs, AddTableDiffs
<1>. HIDE DEF a, c, r
<1>4. Proper(a \o c) /\ ToSet(a \o c) = ToSet(a) \union ToSet(c)
  BY ONLY <1>1, <1>2, ConcatMembers
<1>5. Proper((a \o c) \o r) /\ ToSet((a \o c) \o r) = ToSet(a \o c) \union ToSet(r)
  BY ONLY <1>2, <1>4, ConcatMembers
<1>. QED
  BY <1>1, <1>2, <1>3, <1>4, <1>5

\* The lists of each map, one after the other and strung together.
LEMMA EachFlattened ==
  ASSUME NEW f1, NEW f2, NEW f3, NEW f4, NEW f5, NEW f6, NEW last, Proper(last),
         \A f \in {f1, f2, f3, f4, f5, f6} :
            DOMAIN f \in SUBSET Nat /\ IsFiniteSet(DOMAIN f) /\ \A t \in DOMAIN f : Proper(f[t])
  PROVE  LET L == FlattenSeq(Each(f1) \o Each(f2) \o Each(f3) \o Each(f4) \o Each(f5) \o Each(f6) \o <<last>>) IN
         /\ Proper(L)
         /\ \A x : x \in ToSet(L) <=> x \in ToSet(last) \/ \E f \in {f1, f2, f3, f4, f5, f6} : \E t \in DOMAIN f : x \in ToSet(f[t])
<1>. DEFINE e1 == Each(f1)  e2 == Each(f2)  e3 == Each(f3)  e4 == Each(f4)  e5 == Each(f5)  e6 == Each(f6)
            e7 == <<last>>  F == {f1, f2, f3, f4, f5, f6}
<1>1. \A f \in F : Proper(Each(f)) /\ ToSet(Each(f)) = {f[n] : n \in DOMAIN f}
  BY EachMembers
<1>2. /\ Proper(e1) /\ Proper(e2) /\ Proper(e3) /\ Proper(e4) /\ Proper(e5) /\ Proper(e6)
      /\ Proper(e7) /\ ToSet(e7) = {last}
  BY <1>1, OneMember
<1>3. \A s : (s \in ToSet(e1) \/ s \in ToSet(e2) \/ s \in ToSet(e3) \/ s \in ToSet(e4) \/ s \in ToSet(e5) \/ s \in ToSet(e6))
             <=> \E f \in F : \E t \in DOMAIN f : s = f[t]
  <2>1. \A s : \A f \in F : s \in ToSet(Each(f)) <=> \E t \in DOMAIN f : s = f[t]
    BY <1>1
  <2>. QED
    BY <2>1
<1>. HIDE DEF e1, e2, e3, e4, e5, e6, e7
<1>4. Proper(e1 \o e2) /\ ToSet(e1 \o e2) = ToSet(e1) \union ToSet(e2)
  BY ONLY <1>2, ConcatMembers
<1>5. Proper(e1 \o e2 \o e3) /\ ToSet(e1 \o e2 \o e3) = ToSet(e1 \o e2) \union ToSet(e3)
  BY ONLY <1>2, <1>4, ConcatMembers
<1>6. Proper(e1 \o e2 \o e3 \o e4) /\ ToSet(e1 \o e2 \o e3 \o e4) = ToSet(e1 \o e2 \o e3) \union ToSet(e4)
  BY ONLY <1>2, <1>5, ConcatMembers
<1>7. Proper(e1 \o e2 \o e3 \o e4 \o e5) /\ ToSet(e1 \o e2 \o e3 \o e4 \o e5) = ToSet(e1 \o e2 \o e3 \o e4) \union ToSet(e5)
  BY ONLY <1>2, <1>6, ConcatMembers
<1>8. /\ Proper(e1 \o e2 \o e3 \o e4 \o e5 \o e6)
      /\ ToSet(e1 \o e2 \o e3 \o e4 \o e5 \o e6) = ToSet(e1 \o e2 \o e3 \o e4 \o e5) \union ToSet(e6)
  BY ONLY <1>2, <1>7, ConcatMembers
<1>. DEFINE ss == e1 \o e2 \o e3 \o e4 \o e5 \o e6 \o e7
<1>9. Proper(ss) /\ ToSet(ss) = ToSet(e1 \o e2 \o e3 \o e4 \o e5 \o e6) \union ToSet(e7)
  BY ONLY <1>2, <1>8, ConcatMembers
<1>10. \A s : s \in ToSet(ss) <=> s = last \/ \E f \in F : \E t \in DOMAIN f : s = f[t]
  <2>1. \A s : s \in ToSet(ss) <=> (s \in ToSet(e1) \/ s \in ToSet(e2) \/ s \in ToSet(e3) \/ s \in ToSet(e4)
                                    \/ s \in ToSet(e5) \/ s \in ToSet(e6)) \/ s = last
    BY ONLY <1>2, <1>4, <1>5, <1>6, <1>7, <1>8, <1>9
  <2>. QED
    BY ONLY <1>3, <2>1
<1>. HIDE DEF ss, F
<1>11. \A s \in ToSet(ss) : Proper(s)
  <2>1. \A f \in F : \A t \in DOMAIN f : Proper(f[t])
    BY DEF F
  <2>. QED
    BY <1>10, <2>1
<1>12. Proper(FlattenSeq(ss)) /\ ToSet(FlattenSeq(ss)) = UNION {ToSet(s) : s \in ToSet(ss)}
  BY ONLY <1>9, <1>11, FlattenMembers
<1>13. \A x : x \in ToSet(FlattenSeq(ss)) <=> x \in ToSet(last) \/ \E f \in F : \E t \in DOMAIN f : x \in ToSet(f[t])
  <2>1. \A x : x \in ToSet(FlattenSeq(ss)) <=> \E s \in ToSet(ss) : x \in ToSet(s)
    BY <1>12
  <2>. QED
    BY ONLY <1>10, <2>1
<1>. QED
  BY <1>12, <1>13 DEF ss, F, e1, e2, e3, e4, e5, e6, e7

\* The diffs of two schemas are those of their tables, edges and buckets (DiffSchemas).
LEMMA SchemasDiffed ==
  ASSUME NEW C, NEW D, Alike(C, D)
  PROVE  LET L == DiffSchemas(D, C) IN
         /\ Proper(L)
         /\ \A x : x \in ToSet(L) <=> \/ \E t : (t \in Names(C) \/ t \in Names(D)) /\ x \in TableDiffs(C, D, t)
                                      \/ x \in ToSet(DiffBuckets(C.buckets, D.buckets))
<1>. DEFINE f1 == [t \in Added(C.tables, D.tables) |-> AddTableDiffs(t, D.tables[t])]
            f2 == [t \in Added(D.tables, C.tables) |-> <<DropTable(t, C.tables[t])>>]
            f3 == [t \in DOMAIN C.tables \intersect DOMAIN D.tables |-> ModifyTable(t, C.tables[t], D.tables[t])]
            f4 == [t \in Added(C.edges, D.edges) |-> AddEdgeDiffs(t, D.edges[t])]
            f5 == [t \in Added(D.edges, C.edges) |-> <<DropEdge(t)>>]
            f6 == [t \in DOMAIN C.edges \intersect DOMAIN D.edges |-> ModifyTable(t, C.edges[t], D.edges[t])]
            last == DiffBuckets(C.buckets, D.buckets)
            F == {f1, f2, f3, f4, f5, f6}
            Is(l, t) == Proper(l) /\ ToSet(l) = TableDiffs(C, D, t)
<1>1. DiffSchemas(D, C) = FlattenSeq(Each(f1) \o Each(f2) \o Each(f3) \o Each(f4) \o Each(f5) \o Each(f6) \o <<last>>)
  BY DEF DiffSchemas
<1>2. Proper(last)
  BY BucketsPlanned DEF Alike, IsSchema
<1>3. /\ DOMAIN f1 = Added(C.tables, D.tables) /\ \A t \in DOMAIN f1 : f1[t] = AddTableDiffs(t, D.tables[t])
      /\ DOMAIN f2 = Added(D.tables, C.tables) /\ \A t \in DOMAIN f2 : f2[t] = <<DropTable(t, C.tables[t])>>
      /\ DOMAIN f3 = DOMAIN C.tables \intersect DOMAIN D.tables
      /\ \A t \in DOMAIN f3 : f3[t] = ModifyTable(t, C.tables[t], D.tables[t])
      /\ DOMAIN f4 = Added(C.edges, D.edges) /\ \A t \in DOMAIN f4 : f4[t] = AddEdgeDiffs(t, D.edges[t])
      /\ DOMAIN f5 = Added(D.edges, C.edges) /\ \A t \in DOMAIN f5 : f5[t] = <<DropEdge(t)>>
      /\ DOMAIN f6 = DOMAIN C.edges \intersect DOMAIN D.edges
      /\ \A t \in DOMAIN f6 : f6[t] = ModifyTable(t, C.edges[t], D.edges[t])
  OBVIOUS
<1>. HIDE DEF f1, f2, f3, f4, f5, f6, last
<1>4. \A f \in F : DOMAIN f \in SUBSET Nat /\ IsFiniteSet(DOMAIN f)
  <2>1. /\ Named(C.tables) /\ Named(D.tables) /\ Named(C.edges) /\ Named(D.edges)
    BY DEF Alike, IsSchema
  <2>2. \A S, R : S \in SUBSET Nat /\ IsFiniteSet(S) => S \intersect R \in SUBSET Nat /\ IsFiniteSet(S \intersect R)
    BY FS_Subset
  <2>3. /\ DOMAIN f3 \in SUBSET Nat /\ IsFiniteSet(DOMAIN f3)
        /\ DOMAIN f6 \in SUBSET Nat /\ IsFiniteSet(DOMAIN f6)
    BY <1>3, <2>1, <2>2 DEF Named
  <2>. QED
    BY <1>3, <2>1, <2>3, NamesThatDiffer
<1>5. /\ \A t \in DOMAIN C.tables : t \in Names(C) /\ Of(C, t) = C.tables[t] /\ t \notin DOMAIN C.edges /\ t \notin DOMAIN D.edges
      /\ \A t \in DOMAIN D.tables : t \in Names(D) /\ Of(D, t) = D.tables[t] /\ t \notin DOMAIN C.edges /\ t \notin DOMAIN D.edges
      /\ \A t \in DOMAIN C.edges : t \in Names(C) /\ Of(C, t) = C.edges[t] /\ t \notin DOMAIN C.tables /\ t \notin DOMAIN D.tables
      /\ \A t \in DOMAIN D.edges : t \in Names(D) /\ Of(D, t) = D.edges[t] /\ t \notin DOMAIN C.tables /\ t \notin DOMAIN D.tables
  BY DEF Names, Of, Alike
<1>6. /\ \A t \in Names(C) : \A p \in Parts : Named(Of(C, t)[p])
      /\ \A t \in Names(D) : \A p \in Parts : Named(Of(D, t)[p])
  BY DEF Alike, IsSchema
<1>7. /\ \A t : t \in Names(C) <=> t \in DOMAIN C.tables \/ t \in DOMAIN C.edges
      /\ \A t : t \in Names(D) <=> t \in DOMAIN D.tables \/ t \in DOMAIN D.edges
  BY DEF Names
<1>8. \A t \in DOMAIN f1 : Is(f1[t], t)
  <2>. TAKE t \in DOMAIN f1
  <2>1. /\ t \notin Names(C) /\ t \in DOMAIN D.tables /\ Of(D, t) = D.tables[t]
        /\ \A p \in Parts : Named(Of(D, t)[p])
    BY <1>3, <1>5, <1>6, <1>7 DEF Added
  <2>2. Fresh(D, t) = Parts /\ f1[t] = AddTableDiffs(t, Of(D, t))
    BY <1>3, <2>1 DEF Fresh
  <2>3. TableDiffs(C, D, t) = {AddTable(t, Of(D, t))} \union ContentDiffs(Parts, t, EmptyTable(NoText), Of(D, t))
    BY <2>1, <2>2 DEF TableDiffs
  <2>. QED
    BY <2>1, <2>2, <2>3, NewTableList
<1>9. \A t \in DOMAIN f4 : Is(f4[t], t)
  <2>. TAKE t \in DOMAIN f4
  <2>1. /\ t \notin Names(C) /\ t \notin DOMAIN D.tables /\ Of(D, t) = D.edges[t]
        /\ \A p \in Parts : Named(Of(D, t)[p])
    BY <1>3, <1>5, <1>6, <1>7 DEF Added
  <2>2. Fresh(D, t) = Content /\ f4[t] = AddEdgeDiffs(t, Of(D, t))
    BY <1>3, <2>1 DEF Fresh
  <2>3. TableDiffs(C, D, t) = {AddTable(t, Of(D, t))} \union ContentDiffs(Content, t, EmptyTable(NoText), Of(D, t))
    BY <2>1, <2>2 DEF TableDiffs
  <2>. QED
    BY <2>1, <2>2, <2>3, NewTableList
<1>10. \A t \in DOMAIN f2 : Is(f2[t], t)
  <2>. TAKE t \in DOMAIN f2
  <2>1. t \in DOMAIN C.tables /\ t \in Names(C) /\ t \notin Names(D)
    BY <1>3, <1>5, <1>7 DEF Added
  <2>2. TableDiffs(C, D, t) = {DropTable(t, C.tables[t])}
    BY <2>1 DEF TableDiffs
  <2>. QED
    BY <1>3, <2>2, OneMember
<1>11. \A t \in DOMAIN f5 : Is(f5[t], t)
  <2>. TAKE t \in DOMAIN f5
  <2>1. t \notin DOMAIN C.tables /\ t \in Names(C) /\ t \notin Names(D)
    BY <1>3, <1>5, <1>7 DEF Added
  <2>2. TableDiffs(C, D, t) = {DropEdge(t)}
    BY <2>1 DEF TableDiffs
  <2>. QED
    BY <1>3, <2>2, OneMember
<1>12. /\ \A t \in DOMAIN f3 : Is(f3[t], t)
       /\ \A t \in DOMAIN f6 : Is(f6[t], t)
  <2>1. /\ \A t \in DOMAIN f3 : t \in Names(C) /\ t \in Names(D) /\ f3[t] = ModifyTable(t, Of(C, t), Of(D, t))
        /\ \A t \in DOMAIN f6 : t \in Names(C) /\ t \in Names(D) /\ f6[t] = ModifyTable(t, Of(C, t), Of(D, t))
    BY <1>3, <1>5
  <2>2. \A t : t \in Names(C) /\ t \in Names(D) => Is(ModifyTable(t, Of(C, t), Of(D, t)), t)
    BY <1>6, ContentLists DEF TableDiffs
  <2>. HIDE DEF Is
  <2>. QED
    BY <2>1, <2>2
<1>13. \A f \in F : \A t \in DOMAIN f : (t \in Names(C) \/ t \in Names(D)) /\ Is(f[t], t)
  <2>. HIDE DEF Is
  <2>1. \A f \in F : \A t \in DOMAIN f : Is(f[t], t)
    BY <1>8, <1>9, <1>10, <1>11, <1>12
  <2>2. \A f \in F : \A t \in DOMAIN f : t \in Names(C) \/ t \in Names(D)
    BY <1>3, <1>7 DEF Added
  <2>. QED
    BY <2>1, <2>2
<1>14. \A t : t \in Names(C) \/ t \in Names(D) => \E f \in F : t \in DOMAIN f
  BY <1>3, <1>7 DEF Added
<1>15. /\ Proper(DiffSchemas(D, C))
       /\ \A x : x \in ToSet(DiffSchemas(D, C)) <=>
             x \in ToSet(last) \/ \E f \in F : \E t \in DOMAIN f : x \in ToSet(f[t])
  <2>1. \A f \in F : DOMAIN f \in SUBSET Nat /\ IsFiniteSet(DOMAIN f) /\ \A t \in DOMAIN f : Proper(f[t])
    BY <1>4, <1>13
  <2>. QED
    BY ONLY <1>1, <1>2, <2>1, EachFlattened
<1>. HIDE DEF F
<1>16. \A x : (\E f \in F : \E t \in DOMAIN f : x \in ToSet(f[t]))
              <=> \E t : (t \in Names(C) \/ t \in Names(D)) /\ x \in TableDiffs(C, D, t)
  BY ONLY <1>13, <1>14
<1>. QED
  BY <1>15, <1>16 DEF last

\* The statements take a schema C to a schema D.
SchemaPlan(W, C, D) ==
  /\ \A s \in W : IsStatement(s)
  /\ \A t : TablePlan(W, C, D, t)
  /\ BucketPlan(W, C.buckets, D.buckets)

\* A statement is about one table or about a bucket.
LEMMA WhatIsAbout ==
  ASSUME NEW s
  PROVE  /\ \A t : Defines(s, t) \/ Drops(s, t) => About(s, t)
         /\ \A p, t, n : Writes(s, p, t, n) \/ Erases(s, p, t, n) => About(s, t)
         /\ \A b, a : Stores(s, b) \/ Unstores(s, b) \/ Alters(s, b, a) => OfBucket(s)
         /\ \A t : About(s, t) => ~OfBucket(s)
         /\ \A t, u : About(s, t) /\ About(s, u) => t = u
BY DEF Defines, Drops, Writes, Erases, Stores, Unstores, Alters, About, OfBucket

\* The plan for a table stays one among statements that are not about it.
LEMMA TablePlanLifts ==
  ASSUME NEW V, NEW W, NEW C, NEW D, NEW t, \A s \in V : s \in W, \A s \in W : About(s, t) => s \in V
  PROVE  /\ TablePlan(V, C, D, t) => TablePlan(W, C, D, t)
         /\ NewTablePlan(V, C, D, t) => NewTablePlan(W, C, D, t)
<1>1. \A s \in W : (\A p, n : Writes(s, p, t, n) \/ Erases(s, p, t, n) => s \in V)
                   /\ (Defines(s, t) \/ Drops(s, t) => s \in V)
  BY WhatIsAbout
<1>2. (SomeDefines(W, t) <=> SomeDefines(V, t)) /\ (SomeDrops(W, t) <=> SomeDrops(V, t))
  BY <1>1 DEF SomeDefines, SomeDrops
<1>3. \A p, A, B : ItemPlan(V, p, t, A, B) => ItemPlan(W, p, t, A, B)
  BY <1>1, PlanLifts
<1>. QED
  BY ONLY <1>2, <1>3 DEF TablePlan, NewTablePlan

\* The plan for the buckets stays one among statements that are not about buckets.
LEMMA BucketPlanLifts ==
  ASSUME NEW V, NEW W, NEW A, NEW B, \A s \in V : s \in W, \A s \in W : OfBucket(s) => s \in V,
         BucketPlan(V, A, B)
  PROVE  BucketPlan(W, A, B)
<1>1. \A s \in W : \A b, a : Stores(s, b) \/ Unstores(s, b) \/ Alters(s, b, a) => s \in V
  BY WhatIsAbout
<1>2. /\ \A b : SomeStores(W, b) <=> SomeStores(V, b)
      /\ \A b : SomeUnstores(W, b) <=> SomeUnstores(V, b)
      /\ \A b, a : SomeAlters(W, b, a) <=> SomeAlters(V, b, a)
  BY <1>1 DEF SomeStores, SomeUnstores, SomeAlters
<1>. QED
  BY <1>1, <1>2 DEF BucketPlan

\* The diffs of two schemas are a plan from one to the other and back.
LEMMA SchemasPlanned ==
  ASSUME NEW C, NEW D, Alike(C, D)
  PROVE  LET X == ToSet(DiffSchemas(D, C)) IN
         /\ Proper(DiffSchemas(D, C))
         /\ \A x \in X : SoundDiff(x)
         /\ SchemaPlan(Forward(X), C, D)
         /\ \A t : NewTablePlan(Forward(X), C, D, t)
         /\ SchemaPlan(Backward(X), D, C)
<1>. DEFINE X == ToSet(DiffSchemas(D, C))  E(t) == TableDiffs(C, D, t)
            K == ToSet(DiffBuckets(C.buckets, D.buckets))
            T == Names(C) \union Names(D)
<1>1. /\ Proper(DiffSchemas(D, C))
      /\ \A x : x \in X <=> (\E t \in T : x \in E(t)) \/ x \in K
  BY SchemasDiffed
<1>2. \A t \in T :
        /\ \A x \in E(t) : SoundDiff(x)
        /\ \A s \in Forward(E(t)) \union Backward(E(t)) : About(s, t)
        /\ TablePlan(Forward(E(t)), C, D, t) /\ NewTablePlan(Forward(E(t)), C, D, t)
        /\ TablePlan(Backward(E(t)), D, C, t)
  BY TablesPlanned
<1>3. /\ \A x \in K : SoundDiff(x)
      /\ \A s \in Forward(K) \union Backward(K) : OfBucket(s)
      /\ BucketPlan(Forward(K), C.buckets, D.buckets) /\ BucketPlan(Backward(K), D.buckets, C.buckets)
  BY BucketsPlanned DEF Alike, IsSchema
<1>4. \A t : t \notin T => t \notin Names(C) /\ t \notin Names(D)
  OBVIOUS
<1>. HIDE DEF X, E, K, T
<1>5. /\ \A s : s \in Forward(X) <=> (\E t \in T : s \in Forward(E(t))) \/ s \in Forward(K)
      /\ \A s : s \in Backward(X) <=> (\E t \in T : s \in Backward(E(t))) \/ s \in Backward(K)
  BY <1>1 DEF Forward, Backward
<1>6. \A x \in X : SoundDiff(x)
  BY <1>1, <1>2, <1>3
<1>7. /\ \A s \in Forward(X) : IsStatement(s)
      /\ \A s \in Backward(X) : IsStatement(s)
  BY <1>6 DEF Forward, Backward, SoundDiff
<1>8. /\ \A s \in Forward(X) : \A t : About(s, t) => t \in T /\ s \in Forward(E(t))
      /\ \A s \in Backward(X) : \A t : About(s, t) => t \in T /\ s \in Backward(E(t))
  <2>1. \A s \in Forward(X) : \A t : About(s, t) => t \in T /\ s \in Forward(E(t))
    BY <1>2, <1>3, <1>5, WhatIsAbout
  <2>2. \A s \in Backward(X) : \A t : About(s, t) => t \in T /\ s \in Backward(E(t))
    BY <1>2, <1>3, <1>5, WhatIsAbout
  <2>. QED
    BY <2>1, <2>2
<1>9. /\ \A s \in Forward(X) : OfBucket(s) => s \in Forward(K)
      /\ \A s \in Backward(X) : OfBucket(s) => s \in Backward(K)
  <2>1. \A s \in Forward(X) : OfBucket(s) => s \in Forward(K)
    BY <1>2, <1>5, WhatIsAbout
  <2>2. \A s \in Backward(X) : OfBucket(s) => s \in Backward(K)
    BY <1>2, <1>5, WhatIsAbout
  <2>. QED
    BY <2>1, <2>2
<1>10. BucketPlan(Forward(X), C.buckets, D.buckets) /\ BucketPlan(Backward(X), D.buckets, C.buckets)
  <2>1. (\A s \in Forward(K) : s \in Forward(X)) /\ (\A s \in Backward(K) : s \in Backward(X))
    BY <1>5
  <2>2. BucketPlan(Forward(X), C.buckets, D.buckets)
    BY ONLY <1>3, <1>9, <2>1, BucketPlanLifts
  <2>3. BucketPlan(Backward(X), D.buckets, C.buckets)
    BY ONLY <1>3, <1>9, <2>1, BucketPlanLifts
  <2>. QED
    BY <2>2, <2>3
<1>11. ASSUME NEW t
       PROVE  TablePlan(Forward(X), C, D, t) /\ NewTablePlan(Forward(X), C, D, t) /\ TablePlan(Backward(X), D, C, t)
  <2>1. CASE t \in T
    <3>1. (\A s \in Forward(E(t)) : s \in Forward(X)) /\ (\A s \in Backward(E(t)) : s \in Backward(X))
      BY <1>5, <2>1
    <3>2. TablePlan(Forward(X), C, D, t) /\ NewTablePlan(Forward(X), C, D, t)
      BY ONLY <1>2, <1>8, <2>1, <3>1, TablePlanLifts
    <3>3. TablePlan(Backward(X), D, C, t)
      BY ONLY <1>2, <1>8, <2>1, <3>1, TablePlanLifts
    <3>. QED
      BY <3>2, <3>3
  <2>2. CASE t \notin T
    <3>1. ~SomeDefines(Forward(X), t) /\ ~SomeDefines(Backward(X), t)
      BY <1>8, <2>2, WhatIsAbout DEF SomeDefines
    <3>. QED
      BY <1>4, <2>2, <3>1 DEF TablePlan, NewTablePlan
  <2>. QED
    BY <2>1, <2>2
<1>. QED
  BY <1>1, <1>6, <1>7, <1>10, <1>11 DEF SchemaPlan, X

-----------------------------------------------------------------------------
(* The scripts.                                                            *)

\* What a semicolon leaves of a statement.
Fragment == [do |-> "fragment"]

\* A statement as it is in the file.
Whole(s) == "def" \notin DOMAIN s \/ s.def \notin Semicolon
Pieces(s) == IF Whole(s) THEN <<s>> ELSE <<Fragment, Fragment>>

\* A split script without fragments has the statements it had (splitScriptStatements).
LEMMA Splitting ==
  ASSUME NEW stmts, Proper(stmts)
  PROVE  LET split == SplitScriptStatements(stmts) IN
         Proper(split) /\ (Fragment \notin ToSet(split) => ToSet(split) = ToSet(stmts))
<1>. DEFINE ss == [i \in DOMAIN stmts |-> Pieces(stmts[i])]
            split == SplitScriptStatements(stmts)
<1>1. split = FlattenSeq(ss)
  BY DEF SplitScriptStatements, Fragment, Pieces, Whole
<1>2. Proper(<<Fragment, Fragment>>) /\ ToSet(<<Fragment, Fragment>>) = {Fragment}
  BY DEF Proper, ToSet
<1>3. \A s : Proper(Pieces(s)) /\ ToSet(Pieces(s)) = IF Whole(s) THEN {s} ELSE {Fragment}
  BY <1>2, OneMember DEF Pieces
<1>4. Len(stmts) \in Nat /\ DOMAIN stmts = 1..Len(stmts) /\ \A s : s \in ToSet(stmts) <=> \E i \in 1..Len(stmts) : stmts[i] = s
  BY Properness
<1>5. ss = [i \in 1..Len(stmts) |-> ss[i]] /\ \A i \in 1..Len(stmts) : ss[i] = Pieces(stmts[i])
  BY <1>4
<1>. HIDE DEF ss, split
<1>6. Proper(ss) /\ ToSet(ss) = {ss[i] : i \in 1..Len(stmts)}
  BY <1>4, <1>5, ListMembers
<1>7. \A l : l \in ToSet(ss) <=> \E s \in ToSet(stmts) : l = Pieces(s)
  <2>1. \A l : l \in ToSet(ss) <=> \E i \in 1..Len(stmts) : l = Pieces(stmts[i])
    BY <1>5, <1>6
  <2>. QED
    BY ONLY <1>4, <2>1
<1>8. Proper(split) /\ ToSet(split) = UNION {ToSet(l) : l \in ToSet(ss)}
  <2>1. \A l \in ToSet(ss) : Proper(l)
    BY <1>3, <1>7
  <2>. QED
    BY ONLY <1>1, <1>6, <2>1, FlattenMembers
<1>9. \A x : x \in ToSet(split) <=> \E s \in ToSet(stmts) : x \in ToSet(Pieces(s))
  BY <1>7, <1>8
<1>10. ASSUME Fragment \notin ToSet(split) PROVE ToSet(split) = ToSet(stmts)
  <2>1. \A s : ~Whole(s) => Fragment \in ToSet(Pieces(s))
    BY <1>3
  <2>2. \A s \in ToSet(stmts) : Whole(s)
    BY <1>9, <1>10, <2>1
  <2>3. \A s \in ToSet(stmts) : \A x : x \in ToSet(Pieces(s)) <=> x = s
    BY <1>3, <2>2
  <2>. QED
    BY ONLY <1>9, <2>3
<1>. QED
  BY <1>8, <1>10 DEF split

\* The forward and the backward script have the statements of the diffs, unless one was broken.
LEMMA Scripts ==
  ASSUME NEW diffs, Proper(diffs), \A x \in ToSet(diffs) : SoundDiff(x)
  PROVE  /\ Proper(Up(diffs)) /\ (Fragment \notin ToSet(Up(diffs)) => ToSet(Up(diffs)) = Forward(ToSet(diffs)))
         /\ Proper(Down(diffs)) /\ (Fragment \notin ToSet(Down(diffs)) => ToSet(Down(diffs)) = Backward(ToSet(diffs)))
<1>. DEFINE N == Len(diffs)
            up == [i \in DOMAIN diffs |-> diffs[i].forward]
            down == [i \in DOMAIN diffs |-> diffs[N - i + 1].backward]
<1>1. N \in Nat /\ DOMAIN diffs = 1..N /\ \A x : x \in ToSet(diffs) <=> \E i \in 1..N : diffs[i] = x
  BY Properness
<1>2. /\ up = [i \in 1..N |-> up[i]] /\ \A i \in 1..N : up[i] = diffs[i].forward
      /\ down = [i \in 1..N |-> down[i]] /\ \A i \in 1..N : down[i] = diffs[N - i + 1].backward
  BY <1>1
<1>3. Up(diffs) = SplitScriptStatements(FlattenSeq(up)) /\ Down(diffs) = SplitScriptStatements(FlattenSeq(down))
  BY DEF Up, Down
<1>. HIDE DEF up, down, N
<1>4. \A i \in 1..N : N - i + 1 \in 1..N /\ N - (N - i + 1) + 1 = i
  BY <1>1
<1>5. /\ Proper(up) /\ \A l : l \in ToSet(up) <=> \E x \in ToSet(diffs) : l = x.forward
      /\ Proper(down) /\ \A l : l \in ToSet(down) <=> \E x \in ToSet(diffs) : l = x.backward
  <2>1. /\ Proper(up) /\ ToSet(up) = {up[i] : i \in 1..N}
        /\ Proper(down) /\ ToSet(down) = {down[i] : i \in 1..N}
    BY <1>1, <1>2, ListMembers
  <2>2. \A l : l \in ToSet(up) <=> \E x \in ToSet(diffs) : l = x.forward
    <3>1. \A l : l \in ToSet(up) <=> \E i \in 1..N : l = up[i]
      BY ONLY <2>1
    <3>2. \A l : l \in ToSet(up) <=> \E i \in 1..N : l = diffs[i].forward
      BY ONLY <1>2, <3>1
    <3>3. \A x : x \in ToSet(diffs) <=> \E i \in 1..N : diffs[i] = x
      BY <1>1
    <3>. QED
      BY ONLY <3>2, <3>3
  <2>3. \A l : l \in ToSet(down) <=> \E x \in ToSet(diffs) : l = x.backward
    <3>1. \A l : l \in ToSet(down) <=> \E i \in 1..N : l = down[i]
      BY <2>1
    <3>2. ASSUME NEW i \in 1..N
          PROVE  /\ down[i] = diffs[N - i + 1].backward /\ diffs[N - i + 1] \in ToSet(diffs)
                 /\ diffs[i].backward = down[N - i + 1] /\ N - i + 1 \in 1..N
      <4>. DEFINE j == N - i + 1
      <4>1. j \in 1..N /\ N - j + 1 = i
        BY <1>4
      <4>. HIDE DEF j
      <4>2. down[j] = diffs[N - j + 1].backward
        BY <1>2, <4>1
      <4>3. down[i] = diffs[N - i + 1].backward
        BY <1>2
      <4>. QED
        BY <1>1, <4>1, <4>2, <4>3 DEF j
    <3>3. \A i \in 1..N : down[i] = diffs[N - i + 1].backward /\ diffs[N - i + 1] \in ToSet(diffs)
      BY <3>2
    <3>4. \A i \in 1..N : \E k \in 1..N : diffs[i].backward = down[k]
      BY <3>2
    <3>5. ASSUME NEW x \in ToSet(diffs) PROVE \E k \in 1..N : x.backward = down[k]
      <4>1. PICK i \in 1..N : diffs[i] = x
        BY <1>1
      <4>. QED
        BY <3>4, <4>1
    <3>. QED
      BY ONLY <3>1, <3>3, <3>5
  <2>. QED
    BY <2>1, <2>2, <2>3
<1>6. \A x \in ToSet(diffs) : Proper(x.forward) /\ Proper(x.backward)
  BY DEF SoundDiff
<1>7. Proper(FlattenSeq(up)) /\ ToSet(FlattenSeq(up)) = Forward(ToSet(diffs))
  <2>1. Proper(FlattenSeq(up)) /\ ToSet(FlattenSeq(up)) = UNION {ToSet(l) : l \in ToSet(up)}
    BY <1>5, <1>6, FlattenMembers
  <2>. QED
    BY <1>5, <2>1 DEF Forward
<1>8. Proper(FlattenSeq(down)) /\ ToSet(FlattenSeq(down)) = Backward(ToSet(diffs))
  <2>1. Proper(FlattenSeq(down)) /\ ToSet(FlattenSeq(down)) = UNION {ToSet(l) : l \in ToSet(down)}
    BY <1>5, <1>6, FlattenMembers
  <2>. QED
    BY <1>5, <2>1 DEF Backward
<1>. QED
  BY <1>3, <1>7, <1>8, Splitting

\* A script that ran had no broken statement in it.
LEMMA RanWhole ==
  ASSUME NEW stmts, NEW d, Proper(stmts), RunAll(stmts, d) # Failed
  PROVE  Fragment \notin ToSet(stmts)
<1>1. \A e : ~Accepts(Fragment, e)
  BY DEF Accepts, Fragment
<1>2. CameThrough(Course(stmts, d), stmts, d, RunAll(stmts, d))
  BY RunCameThrough
<1>3. \A n \in 1..Len(stmts) : stmts[n] # Fragment
  BY <1>1, <1>2 DEF CameThrough
<1>. QED
  BY <1>3, Properness

-----------------------------------------------------------------------------
(* What a migration leaves behind.                                         *)

\* What a database has of one part of a table is what diffs promise.
PartFollows(d, p, t, A) ==
  /\ p # "permissions" => \A n : Has(d, p, t, n) <=> n \in DOMAIN A
  /\ \A n \in DOMAIN A : Has(d, p, t, n)
  /\ \A n \in DOMAIN A : p \in {"fields", "permissions"} => d.tables[t][p][n] = A[n]

\* The tables of a database are those of C, with the parts diffs promise, but for those in H; the
\* buckets likewise; and nothing the generators refuse is defined.
SchemaFollowed(d, C, H) ==
  /\ \A t : t \notin H => (t \in DOMAIN d.tables <=> t \in Names(C))
  /\ \A t \in Names(C) : t \notin H => \A p \in Fresh(C, t) : PartFollows(d, p, t, Of(C, t)[p])
BucketsFollowed(d, A) ==
  /\ \A b : b \in DOMAIN d.buckets <=> b \in DOMAIN A
  /\ \A b \in DOMAIN A, a \in Attributes :
       d.buckets[b][a] = A[b][a] \/ (a = "permissions" /\ A[b][a] = NoText)
Sanctioned(d) == \A p \in Content : \A t, n : Has(d, p, t, n) => d.tables[t][p][n] \notin Refused

\* A plan from A to B takes a part that follows A to one that follows B.
LEMMA PartLands ==
  ASSUME NEW g, NEW stmts, NEW d, NEW e, Followed(g, stmts, d, e), NEW t, NEW p \in Parts, NEW A, NEW B,
         ItemPlan(ToSet(stmts), p, t, A, B), ~SomeDrops(ToSet(stmts), t), PartFollows(d, p, t, A)
  PROVE  PartFollows(e, p, t, B)
<1>. DEFINE W == ToSet(stmts)
<1>1. ASSUME NEW n
      PROVE  /\ Has(e, p, t, n) => Written(W, e, p, t, n)
                                   \/ (Has(d, p, t, n) /\ e.tables[t][p][n] = d.tables[t][p][n])
             /\ SomeWrites(W, p, t, n) /\ ~SomeErases(W, p, t, n) => Has(e, p, t, n) /\ Written(W, e, p, t, n)
             /\ Has(d, p, t, n) /\ ~SomeErases(W, p, t, n) => Has(e, p, t, n)
             /\ ~SomeWrites(W, p, t, n) /\ (~Has(d, p, t, n) \/ SomeErases(W, p, t, n)) => ~Has(e, p, t, n)
  BY ItemsLand
<1>2. \A n : Written(W, e, p, t, n) => n \in DOMAIN B /\ e.tables[t][p][n] = B[n]
  BY DEF ItemPlan, Written
<1>3. /\ \A n : SomeWrites(W, p, t, n) => n \in DOMAIN B
      /\ \A n : SomeErases(W, p, t, n) => n \notin DOMAIN B
      /\ \A n \in DOMAIN B : n \notin DOMAIN A \/ (p \in {"fields", "permissions"} /\ A[n] # B[n]) => SomeWrites(W, p, t, n)
      /\ \A n \in DOMAIN A : n \notin DOMAIN B /\ p # "permissions" => SomeErases(W, p, t, n)
  BY DEF ItemPlan, SomeWrites
<1>. HIDE DEF W
<1>4. \A n \in DOMAIN B : Has(e, p, t, n)
  <2>. TAKE n \in DOMAIN B
  <2>1. CASE n \in DOMAIN A
    BY <1>1, <1>3, <2>1 DEF PartFollows
  <2>2. CASE n \notin DOMAIN A
    BY <1>1, <1>3, <2>2
  <2>. QED
    BY <2>1, <2>2
<1>5. ASSUME p # "permissions", NEW n, n \notin DOMAIN B PROVE ~Has(e, p, t, n)
  <2>1. ~SomeWrites(W, p, t, n)
    BY <1>3, <1>5
  <2>2. CASE n \in DOMAIN A
    BY <1>1, <1>3, <1>5, <2>1, <2>2
  <2>3. CASE n \notin DOMAIN A
    <3>1. ~Has(d, p, t, n)
      BY <1>5, <2>3 DEF PartFollows
    <3>. QED
      BY <1>1, <2>1, <3>1
  <2>. QED
    BY <2>2, <2>3
<1>6. ASSUME p \in {"fields", "permissions"}, NEW n \in DOMAIN B PROVE e.tables[t][p][n] = B[n]
  <2>1. CASE SomeWrites(W, p, t, n)
    BY <1>1, <1>2, <1>3, <2>1
  <2>2. CASE ~SomeWrites(W, p, t, n)
    <3>1. n \in DOMAIN A /\ A[n] = B[n]
      BY <1>3, <1>6, <2>2
    <3>2. d.tables[t][p][n] = A[n]
      BY <1>6, <3>1 DEF PartFollows
    <3>3. Written(W, e, p, t, n) \/ e.tables[t][p][n] = d.tables[t][p][n]
      BY <1>1, <1>4
    <3>. QED
      BY <1>2, <3>1, <3>2, <3>3
  <2>. QED
    BY <2>1, <2>2
<1>. QED
  BY <1>4, <1>5, <1>6 DEF PartFollows

\* A plan from A to B takes buckets that follow A to buckets that follow B.
LEMMA BucketsFollow ==
  ASSUME NEW g, NEW stmts, NEW d, NEW e, Followed(g, stmts, d, e), NEW A, NEW B,
         BucketPlan(ToSet(stmts), A, B), BucketsFollowed(d, A)
  PROVE  BucketsFollowed(e, B)
<1>. DEFINE W == ToSet(stmts)
<1>0. "permissions" \in Attributes
  BY DEF Attributes
<1>1. ASSUME NEW b, NEW a \in Attributes
      PROVE  /\ (b \in DOMAIN d.buckets \/ SomeStores(W, b)) /\ ~SomeUnstores(W, b) => b \in DOMAIN e.buckets
             /\ (b \notin DOMAIN d.buckets \/ SomeUnstores(W, b)) /\ ~SomeStores(W, b) => b \notin DOMAIN e.buckets
             /\ b \in DOMAIN e.buckets =>
                  \/ StoredBy(W, e, b, a) \/ AlteredBy(W, e, b, a)
                  \/ b \in DOMAIN d.buckets /\ e.buckets[b][a] = d.buckets[b][a]
             /\ SomeAlters(W, b, a) /\ b \in DOMAIN d.buckets /\ ~SomeStores(W, b) /\ ~SomeUnstores(W, b) =>
                  AlteredBy(W, e, b, a)
             /\ SomeStores(W, b) /\ ~SomeAlters(W, b, a) /\ ~SomeUnstores(W, b) => StoredBy(W, e, b, a)
  BY BucketsLand
<1>2. /\ \A b, a : StoredBy(W, e, b, a) => b \in DOMAIN B /\ e.buckets[b][a] = B[b][a]
      /\ \A b, a : AlteredBy(W, e, b, a) => b \in DOMAIN B /\ e.buckets[b][a] = B[b][a]
      /\ \A b : SomeStores(W, b) <=> b \in DOMAIN B /\ b \notin DOMAIN A
      /\ \A b : SomeUnstores(W, b) <=> b \in DOMAIN A /\ b \notin DOMAIN B
      /\ \A b, a : SomeAlters(W, b, a) => b \in DOMAIN A /\ b \in DOMAIN B
      /\ \A b \in DOMAIN A, a \in Attributes :
           b \in DOMAIN B /\ A[b][a] # B[b][a] /\ ~(a = "permissions" /\ B[b][a] = NoText) => SomeAlters(W, b, a)
  BY DEF BucketPlan, StoredBy, AlteredBy, SomeStores, SomeAlters
<1>3. \A b : b \in DOMAIN d.buckets <=> b \in DOMAIN A
  BY DEF BucketsFollowed
<1>. HIDE DEF W
<1>4. \A b : b \in DOMAIN e.buckets <=> b \in DOMAIN B
  BY <1>0, <1>1, <1>2, <1>3
<1>5. ASSUME NEW b \in DOMAIN B, NEW a \in Attributes
      PROVE  e.buckets[b][a] = B[b][a] \/ (a = "permissions" /\ B[b][a] = NoText)
  <2>1. CASE b \notin DOMAIN A
    BY <1>1, <1>2, <2>1
  <2>2. CASE b \in DOMAIN A /\ SomeAlters(W, b, a)
    BY <1>1, <1>2, <1>3, <2>2
  <2>3. CASE b \in DOMAIN A /\ ~SomeAlters(W, b, a)
    <3>1. A[b][a] = B[b][a] \/ (a = "permissions" /\ B[b][a] = NoText)
      BY <1>2, <2>3
    <3>2. e.buckets[b][a] = B[b][a] \/ e.buckets[b][a] = d.buckets[b][a]
      BY <1>1, <1>2, <1>4
    <3>3. d.buckets[b][a] = A[b][a] \/ (a = "permissions" /\ A[b][a] = NoText)
      BY <2>3 DEF BucketsFollowed
    <3>. QED
      BY <3>1, <3>2, <3>3
  <2>. QED
    BY <2>1, <2>2, <2>3
<1>. QED
  BY <1>4, <1>5 DEF BucketsFollowed

\* A script with a plan from C to D takes a database that follows C to one that follows D.
LEMMA PlanLands ==
  ASSUME NEW stmts, NEW d, NEW C, NEW D, NEW H, NEW K, Alike(C, D),
         Proper(stmts), IsDatabase(d), RunAll(stmts, d) # Failed, SchemaPlan(ToSet(stmts), C, D),
         SchemaFollowed(d, C, H), BucketsFollowed(d, C.buckets), Sanctioned(d),
         \A s \in ToSet(stmts) : s.do = "define" => s.def \notin Refused,
         \A t \in H : t \in Names(C),
         \A t \in Names(D) : t \in K \/ (t \notin H /\ (t \in Names(C) \/ NewTablePlan(ToSet(stmts), C, D, t)))
  PROVE  LET e == RunAll(stmts, d) IN
         /\ IsDatabase(e) /\ SchemaFollowed(e, D, K) /\ BucketsFollowed(e, D.buckets) /\ Sanctioned(e)
<1>. DEFINE e == RunAll(stmts, d)  W == ToSet(stmts)  g == Course(stmts, d)
<1>1. Followed(g, stmts, d, e)
  BY RunFollowed DEF SchemaPlan
<1>. HIDE DEF e, g
<1>2. IsDatabase(e)
  <2>1. Len(stmts) \in Nat /\ Len(stmts) \in 0..Len(stmts) /\ g[Len(stmts)] = e
    BY <1>1 DEF Followed
  <2>. QED
    BY <1>1, <2>1 DEF Followed
<1>3. BucketsFollowed(e, D.buckets)
  BY <1>1, BucketsFollow DEF SchemaPlan
<1>4. Sanctioned(e)
  <2>. SUFFICES ASSUME NEW p \in Content, NEW t, NEW n, Has(e, p, t, n) PROVE e.tables[t][p][n] \notin Refused
    BY DEF Sanctioned
  <2>1. p \in Parts /\ p # "permissions"
    BY DEF Content
  <2>2. Written(W, e, p, t, n) \/ (Has(d, p, t, n) /\ e.tables[t][p][n] = d.tables[t][p][n])
    BY <1>1, <2>1, ItemsLand
  <2>3. Written(W, e, p, t, n) => e.tables[t][p][n] \notin Refused
    BY <2>1 DEF Written, Writes
  <2>. QED
    BY <2>2, <2>3 DEF Sanctioned
<1>5. ASSUME NEW t
      PROVE  /\ (t \in DOMAIN d.tables \/ SomeDefines(W, t)) /\ ~SomeDrops(W, t) => t \in DOMAIN e.tables
             /\ (t \notin DOMAIN d.tables \/ SomeDrops(W, t)) /\ ~SomeDefines(W, t) => t \notin DOMAIN e.tables
  BY <1>1, TablesLand
<1>6. \A t : TablePlan(W, C, D, t)
  BY DEF SchemaPlan
<1>. HIDE DEF W
<1>7. ASSUME NEW t, t \notin K
      PROVE  /\ t \in DOMAIN e.tables <=> t \in Names(D)
             /\ t \in Names(D) => \A p \in Fresh(D, t) : PartFollows(e, p, t, Of(D, t)[p])
  <2>1. CASE t \notin Names(D)
    <3>1. ~SomeDefines(W, t) /\ (t \in Names(C) => SomeDrops(W, t))
      BY <1>6, <2>1 DEF TablePlan
    <3>2. t \notin Names(C) => t \notin DOMAIN d.tables
      BY DEF SchemaFollowed
    <3>. QED
      BY <1>5, <2>1, <3>1, <3>2
  <2>2. CASE t \in Names(D) /\ t \in Names(C)
    <3>1. /\ ~SomeDefines(W, t) /\ ~SomeDrops(W, t)
          /\ \A p \in Parts : ItemPlan(W, p, t, Of(C, t)[p], Of(D, t)[p])
      BY <1>6, <2>2 DEF TablePlan
    <3>2. t \notin H
      BY <1>7, <2>2
    <3>3. t \in DOMAIN d.tables /\ \A p \in Fresh(C, t) : PartFollows(d, p, t, Of(C, t)[p])
      BY <2>2, <3>2 DEF SchemaFollowed
    <3>4. Fresh(D, t) = Fresh(C, t) /\ Fresh(D, t) \in SUBSET Parts
      BY <2>2 DEF Fresh, Alike, Names, Content
    <3>5. \A p \in Fresh(D, t) : PartFollows(e, p, t, Of(D, t)[p])
      BY <1>1, <3>1, <3>3, <3>4, PartLands DEF W
    <3>. QED
      BY <1>5, <2>2, <3>1, <3>3, <3>5
  <2>3. CASE t \in Names(D) /\ t \notin Names(C)
    <3>1. t \notin H /\ NewTablePlan(W, C, D, t)
      BY <1>7, <2>3 DEF W
    <3>2. /\ SomeDefines(W, t) /\ ~SomeDrops(W, t)
          /\ \A p \in Fresh(D, t) : ItemPlan(W, p, t, Nothing, Of(D, t)[p])
      BY <2>3, <3>1 DEF NewTablePlan
    <3>3. t \notin DOMAIN d.tables
      BY <2>3, <3>1 DEF SchemaFollowed
    <3>4. DOMAIN Nothing = {} /\ Fresh(D, t) \in SUBSET Parts
      BY DEF Nothing, Fresh, Content
    <3>5. \A p : PartFollows(d, p, t, Nothing)
      BY <3>3, <3>4 DEF PartFollows, Has
    <3>6. \A p \in Fresh(D, t) : PartFollows(e, p, t, Of(D, t)[p])
      BY <1>1, <3>2, <3>4, <3>5, PartLands DEF W
    <3>. QED
      BY <1>5, <2>3, <3>2, <3>6
  <2>. QED
    BY <2>1, <2>2, <2>3
<1>8. SchemaFollowed(e, D, K)
  BY <1>7 DEF SchemaFollowed
<1>. QED
  BY <1>2, <1>3, <1>4, <1>8 DEF e

-----------------------------------------------------------------------------
(* The database follows the snapshot.                                      *)

\* What may be in the registry.
Schemas == Snapshot \union {EmptySnapshot}

\* What is in the file, and where the run of it began.
FileStands ==
  LET diffs == DiffSchemas(file.to, file.from) IN
  /\ file.from \in Schemas /\ file.to \in Schemas
  /\ file.up = Up(diffs) /\ file.down = Down(diffs) /\ Valid(diffs)

\* The migration that ran is the one in the file, and took before to db.
Ran ==
  /\ file.to = at /\ \A t \in hollow : t \in Names(file.from)
  /\ IsDatabase(before) /\ RunAll(file.up, before) # Failed /\ db = RunAll(file.up, before)

\* The inductive invariant: what holds of the database and of the file between the steps.
Evolved ==
  /\ code \in Schemas /\ at \in Schemas /\ phase \in {"edit", "generated", "migrated"}
  /\ IsDatabase(db) /\ SchemaFollowed(db, at, hollow) /\ BucketsFollowed(db, at.buckets) /\ Sanctioned(db)
  /\ \A t \in hollow : t \in Names(at)
  /\ phase # "edit" => FileStands
  /\ phase = "generated" => file.from = at
  /\ phase = "migrated" => Ran

\* The empty registry is a schema.
LEMMA EmptySchema ==
  /\ IsSchema(EmptySnapshot) /\ Names(EmptySnapshot) = {}
  /\ DOMAIN EmptySnapshot.tables = {} /\ DOMAIN EmptySnapshot.edges = {} /\ DOMAIN EmptySnapshot.buckets = {}
<1>1. DOMAIN Nothing = {} /\ Named(Nothing)
  BY EmptyParts DEF Nothing
<1>. QED
  BY <1>1 DEF IsSchema, EmptySnapshot, Names, Buckets

\* Any two schemas of the registry name tables and edges apart.
LEMMA SchemasAlike ==
  ASSUME NEW C \in Schemas, NEW D \in Schemas
  PROVE  Alike(C, D)
<1>1. ASSUME NEW s \in Snapshot PROVE IsSchema(s)
  <2>1. Named(s.tables) /\ Named(s.edges) /\ Named(s.buckets) /\ \A b \in DOMAIN s.buckets : IsBucket(s.buckets[b])
    BY SnapshotAssumption
  <2>2. \A t \in Names(s) : IsTable(Of(s, t))
    BY SnapshotAssumption
  <2>3. \A t \in Names(s) : \A p \in Parts : Named(Of(s, t)[p])
    BY <2>2 DEF IsTable, Parts
  <2>. QED
    BY <2>1, <2>3 DEF IsSchema, Buckets
<1>2. IsSchema(C) /\ IsSchema(D)
  BY <1>1, EmptySchema DEF Schemas
<1>3. \A s, r \in Schemas : \A t : t \in DOMAIN s.tables => t \notin DOMAIN r.edges
  BY SnapshotAssumption, EmptySchema DEF Schemas
<1>. QED
  BY <1>2, <1>3 DEF Alike

\* The empty database is what the empty registry says.
LEMMA EmptyDatabaseFollows ==
  /\ IsDatabase(EmptyDatabase) /\ SchemaFollowed(EmptyDatabase, EmptySnapshot, {})
  /\ BucketsFollowed(EmptyDatabase, EmptySnapshot.buckets) /\ Sanctioned(EmptyDatabase)
<1>1. DOMAIN Nothing = {} /\ IsMap(Nothing)
  BY DEF Nothing, IsMap
<1>2. EmptyDatabase.tables = Nothing /\ EmptyDatabase.buckets = Nothing
      /\ EmptyDatabase = [tables |-> EmptyDatabase.tables, buckets |-> EmptyDatabase.buckets]
  BY DEF EmptyDatabase
<1>3. IsDatabase(EmptyDatabase)
  BY <1>1, <1>2 DEF IsDatabase
<1>. QED
  BY <1>1, <1>2, <1>3, EmptySchema DEF SchemaFollowed, BucketsFollowed, Sanctioned, Has

\* What the two scripts of a valid diff do, once they ran.
LEMMA UpLands ==
  ASSUME NEW C \in Schemas, NEW D \in Schemas, NEW d, NEW H,
         IsDatabase(d), SchemaFollowed(d, C, H), BucketsFollowed(d, C.buckets), Sanctioned(d),
         \A t \in H : t \in Names(C),
         Valid(DiffSchemas(D, C)), RunAll(Up(DiffSchemas(D, C)), d) # Failed
  PROVE  LET e == RunAll(Up(DiffSchemas(D, C)), d) IN
         /\ IsDatabase(e) /\ SchemaFollowed(e, D, H \intersect Names(D)) /\ BucketsFollowed(e, D.buckets) /\ Sanctioned(e)
<1>. DEFINE L == DiffSchemas(D, C)  X == ToSet(L)  stmts == Up(L)
<1>1. Alike(C, D)
  BY SchemasAlike
<1>2. /\ Proper(L) /\ \A x \in X : SoundDiff(x)
      /\ SchemaPlan(Forward(X), C, D) /\ \A t : NewTablePlan(Forward(X), C, D, t)
  BY <1>1, SchemasPlanned
<1>3. Proper(stmts) /\ (Fragment \notin ToSet(stmts) => ToSet(stmts) = Forward(X))
  BY <1>2, Scripts
<1>4. ToSet(stmts) = Forward(X)
  BY <1>3, RanWhole
<1>5. \A x \in X : x.valid
  BY <1>2, Properness DEF Valid
<1>. HIDE DEF X, L
<1>6. \A s \in Forward(X) : s.do = "define" => s.def \notin Refused
  BY <1>2, <1>5 DEF Forward, SoundDiff
<1>7. \A t \in Names(D) : t \in H \intersect Names(D) \/ (t \notin H /\ (t \in Names(C) \/ NewTablePlan(ToSet(stmts), C, D, t)))
  BY <1>2, <1>4
<1>8. RunAll(stmts, d) # Failed
  BY DEF L
<1>. HIDE DEF stmts
<1>9. LET e == RunAll(stmts, d) IN
      /\ IsDatabase(e) /\ SchemaFollowed(e, D, H \intersect Names(D)) /\ BucketsFollowed(e, D.buckets) /\ Sanctioned(e)
  BY <1>1, <1>2, <1>3, <1>4, <1>6, <1>7, <1>8, PlanLands
<1>. QED
  BY <1>9 DEF stmts, L

\* A file run down takes a database that follows the registry to one that follows the
\* snapshot before, but for tables it has to bring back.
LEMMA DownLands ==
  ASSUME NEW C \in Schemas, NEW D \in Schemas, NEW d, NEW H,
         IsDatabase(d), SchemaFollowed(d, D, H), BucketsFollowed(d, D.buckets), Sanctioned(d),
         \A t \in H : t \in Names(D),
         Valid(DiffSchemas(D, C)), RunAll(Down(DiffSchemas(D, C)), d) # Failed
  PROVE  LET e == RunAll(Down(DiffSchemas(D, C)), d) IN
         /\ IsDatabase(e) /\ SchemaFollowed(e, C, H \union (Names(C) \ Names(D)))
         /\ BucketsFollowed(e, C.buckets) /\ Sanctioned(e)
<1>. DEFINE L == DiffSchemas(D, C)  X == ToSet(L)  stmts == Down(L)  K == H \union (Names(C) \ Names(D))
<1>1. Alike(C, D) /\ Alike(D, C)
  BY SchemasAlike
<1>2. /\ Proper(L) /\ \A x \in X : SoundDiff(x)
      /\ SchemaPlan(Backward(X), D, C)
  BY <1>1, SchemasPlanned
<1>3. Proper(stmts) /\ (Fragment \notin ToSet(stmts) => ToSet(stmts) = Backward(X))
  BY <1>2, Scripts
<1>4. ToSet(stmts) = Backward(X)
  BY <1>3, RanWhole
<1>5. \A x \in X : x.valid
  BY <1>2, Properness DEF Valid
<1>. HIDE DEF X, L
<1>6. \A s \in Backward(X) : s.do = "define" => s.def \notin Refused
  BY <1>2, <1>5 DEF Backward, SoundDiff
<1>7. \A t \in Names(C) : t \in K \/ (t \notin H /\ (t \in Names(D) \/ NewTablePlan(ToSet(stmts), D, C, t)))
  OBVIOUS
<1>8. RunAll(stmts, d) # Failed
  BY DEF L
<1>. HIDE DEF stmts, K
<1>9. LET e == RunAll(stmts, d) IN
      /\ IsDatabase(e) /\ SchemaFollowed(e, C, K) /\ BucketsFollowed(e, C.buckets) /\ Sanctioned(e)
  BY <1>1, <1>2, <1>3, <1>4, <1>6, <1>7, <1>8, PlanLands
<1>. QED
  BY <1>9 DEF stmts, L, K

\* At the start nothing is defined anywhere.
LEMMA EvolvedInit == EvolutionInit => Evolved
BY EmptyDatabaseFollows DEF EvolutionInit, Evolved, Schemas

\* Every step keeps the database in step: a file that runs takes it where it was made for.
LEMMA EvolvedStep == Evolved /\ [EvolutionNext]_evolutionVars => Evolved'
<1>. SUFFICES ASSUME Evolved, [EvolutionNext]_evolutionVars PROVE Evolved'
  OBVIOUS
<1>1. ASSUME NEW s \in Snapshot, Edit(s) PROVE Evolved'
  BY <1>1 DEF Evolved, Edit, Schemas, FileStands, Ran
<1>2. ASSUME Generate PROVE Evolved'
  <2>1. /\ phase' = "generated" /\ UNCHANGED <<code, at, db, before, hollow>>
        /\ file'.from = at /\ file'.to = code
        /\ file'.up = Up(DiffSchemas(code, at)) /\ file'.down = Down(DiffSchemas(code, at))
        /\ Valid(DiffSchemas(code, at))
    BY <1>2 DEF Generate
  <2>. QED
    BY <2>1 DEF Evolved, FileStands
<1>3. ASSUME MigrateUp PROVE Evolved'
  <2>. DEFINE C == file.from  D == file.to  e == RunAll(Up(DiffSchemas(D, C)), db)
  <2>1. /\ C \in Schemas /\ D \in Schemas /\ C = at /\ file.up = Up(DiffSchemas(D, C)) /\ Valid(DiffSchemas(D, C))
        /\ e # Failed /\ db' = e /\ at' = D /\ before' = db /\ hollow' = hollow \intersect Names(D)
        /\ phase' = "migrated" /\ UNCHANGED <<code, file>>
    BY <1>3 DEF MigrateUp, Evolved, FileStands
  <2>2. /\ IsDatabase(db) /\ SchemaFollowed(db, C, hollow) /\ BucketsFollowed(db, C.buckets) /\ Sanctioned(db)
        /\ \A t \in hollow : t \in Names(C)
    BY <2>1 DEF Evolved
  <2>. HIDE DEF C, D
  <2>3. IsDatabase(e) /\ SchemaFollowed(e, D, hollow \intersect Names(D)) /\ BucketsFollowed(e, D.buckets) /\ Sanctioned(e)
    BY ONLY <2>1, <2>2, UpLands
  <2>. HIDE DEF e
  <2>4. IsDatabase(db') /\ SchemaFollowed(db', at', hollow') /\ BucketsFollowed(db', at'.buckets) /\ Sanctioned(db')
        /\ \A t \in hollow' : t \in Names(at')
    BY <2>1, <2>3
  <2>5. FileStands'
    BY <1>3, <2>1 DEF Evolved, FileStands, MigrateUp
  <2>6. Ran'
    <3>1. file'.to = at' /\ \A t \in hollow' : t \in Names(file'.from)
      BY <2>1, <2>2 DEF C, D
    <3>2. IsDatabase(before') /\ RunAll(file'.up, before') # Failed /\ db' = RunAll(file'.up, before')
      BY <2>1, <2>2 DEF e
    <3>. QED
      BY <3>1, <3>2 DEF Ran
  <2>. QED
    BY <2>1, <2>4, <2>5, <2>6 DEF Evolved
<1>4. ASSUME Discard PROVE Evolved'
  BY <1>4 DEF Evolved, Discard, FileStands, Ran
<1>5. ASSUME RollBack PROVE Evolved'
  <2>. DEFINE C == file.from  D == file.to  e == RunAll(Down(DiffSchemas(D, C)), db)
  <2>1. /\ C \in Schemas /\ D \in Schemas /\ D = at /\ file.down = Down(DiffSchemas(D, C)) /\ Valid(DiffSchemas(D, C))
        /\ e # Failed /\ db' = e /\ at' = C /\ hollow' = hollow \union (Names(C) \ Names(D))
        /\ phase' = "edit" /\ UNCHANGED code
        /\ \A t \in hollow : t \in Names(C)
    BY <1>5 DEF RollBack, Evolved, FileStands, Ran
  <2>2. /\ IsDatabase(db) /\ SchemaFollowed(db, D, hollow) /\ BucketsFollowed(db, D.buckets) /\ Sanctioned(db)
        /\ \A t \in hollow : t \in Names(D)
    BY <2>1 DEF Evolved
  <2>. HIDE DEF C, D
  <2>3. IsDatabase(e) /\ SchemaFollowed(e, C, hollow \union (Names(C) \ Names(D)))
        /\ BucketsFollowed(e, C.buckets) /\ Sanctioned(e)
    BY ONLY <2>1, <2>2, DownLands
  <2>. HIDE DEF e
  <2>4. IsDatabase(db') /\ SchemaFollowed(db', at', hollow') /\ BucketsFollowed(db', at'.buckets) /\ Sanctioned(db')
        /\ \A t \in hollow' : t \in Names(at')
    BY <2>1, <2>3
  <2>. QED
    BY <2>1, <2>4 DEF Evolved
<1>6. ASSUME Proceed PROVE Evolved'
  BY <1>6 DEF Evolved, Proceed
<1>7. ASSUME UNCHANGED evolutionVars PROVE Evolved'
  BY <1>7 DEF evolutionVars, Evolved, FileStands, Ran
<1>. QED
  BY <1>1, <1>2, <1>3, <1>4, <1>5, <1>6, <1>7 DEF EvolutionNext

\* The invariant says what DatabaseFollows does.
LEMMA EvolvedFollows == Evolved => DatabaseFollows
<1>. SUFFICES ASSUME Evolved PROVE DatabaseFollows
  OBVIOUS
<1>1. at \in Schemas /\ IsDatabase(db) /\ SchemaFollowed(db, at, hollow) /\ BucketsFollowed(db, at.buckets) /\ Sanctioned(db)
  BY DEF Evolved
<1>2. IsSchema(at)
  BY <1>1, SchemasAlike DEF Alike
<1>3. DOMAIN db.tables \ hollow = Names(at) \ hollow
  BY <1>1 DEF SchemaFollowed
<1>4. ASSUME NEW t \in Names(at) \ hollow PROVE Follows(t)
  <2>. DEFINE is == db.tables[t]  want == Of(at, t)
  <2>1. t \in DOMAIN db.tables /\ \A p \in Fresh(at, t) : PartFollows(db, p, t, want[p])
    BY <1>1, <1>4 DEF SchemaFollowed
  <2>2. "fields" \in Fresh(at, t) /\ "indexes" \in Fresh(at, t) /\ "events" \in Fresh(at, t)
        /\ (t \in DOMAIN at.tables => "permissions" \in Fresh(at, t))
    BY DEF Fresh, Content, Parts
  <2>3. IsMap(is.fields) /\ IsMap(want.fields)
    <3>1. IsMap(is["fields"])
      BY <1>1, <2>1 DEF IsDatabase, IsStored, Parts
    <3>2. Named(want["fields"])
      BY <1>2 DEF IsSchema, Parts
    <3>. QED
      BY <3>1, <3>2 DEF Named, IsMap
  <2>. HIDE DEF want
  <2>4. DOMAIN is.fields = DOMAIN want.fields /\ \A n \in DOMAIN want.fields : is.fields[n] = want.fields[n]
    <3>1. PartFollows(db, "fields", t, want.fields)
      BY <2>1, <2>2
    <3>. QED
      BY ONLY <2>1, <3>1 DEF PartFollows, Has
  <2>5. DOMAIN is.indexes = DOMAIN want.indexes
    <3>1. PartFollows(db, "indexes", t, want.indexes)
      BY <2>1, <2>2
    <3>. QED
      BY ONLY <2>1, <3>1 DEF PartFollows, Has
  <2>6. DOMAIN is.events = DOMAIN want.events
    <3>1. PartFollows(db, "events", t, want.events)
      BY <2>1, <2>2
    <3>. QED
      BY ONLY <2>1, <3>1 DEF PartFollows, Has
  <2>7. ASSUME t \in DOMAIN at.tables, NEW o \in DOMAIN want.permissions
        PROVE  o \in DOMAIN is.permissions /\ is.permissions[o] = want.permissions[o]
    <3>1. PartFollows(db, "permissions", t, want.permissions)
      BY <2>1, <2>2, <2>7
    <3>. QED
      BY <3>1 DEF PartFollows, Has
  <2>. HIDE DEF is
  <2>8. is.fields = want.fields
    BY ONLY <2>3, <2>4 DEF IsMap
  <2>. QED
    BY <2>5, <2>6, <2>7, <2>8 DEF Follows, is, want
<1>5. DOMAIN db.buckets = DOMAIN at.buckets
  BY <1>1 DEF BucketsFollowed
<1>6. ASSUME NEW b \in DOMAIN at.buckets, NEW a \in DOMAIN at.buckets[b]
      PROVE  db.buckets[b][a] = at.buckets[b][a] \/ (a = "permissions" /\ at.buckets[b][a] = NoText)
  <2>1. IsBucket(at.buckets[b])
    BY <1>2 DEF IsSchema, Buckets
  <2>2. a \in Attributes
    BY <2>1 DEF IsBucket, Attributes
  <2>. QED
    BY <1>1, <2>2 DEF BucketsFollowed
<1>7. ASSUME NEW t \in DOMAIN db.tables, NEW part \in {"fields", "indexes", "events"},
             NEW n \in DOMAIN db.tables[t][part]
      PROVE  db.tables[t][part][n] \notin Refused
  <2>1. part \in Content
    BY DEF Content, Parts
  <2>. QED
    BY <1>1, <2>1 DEF Sanctioned, Has
<1>. QED
  BY <1>3, <1>4, <1>5, <1>6, <1>7 DEF DatabaseFollows

\* However the schema is edited and whatever is generated, migrated and rolled
\* back, the database has what the diffs promise of the snapshot it was migrated
\* to, and nothing the generators refuse (DiffSchemas, GenerateMigrationFromDiffs,
\* executeMigrationPlan).
THEOREM DatabaseKeepsUp == EvolutionSpec => []DatabaseFollows
BY EvolvedInit, EvolvedStep, EvolvedFollows, PTL DEF EvolutionSpec

-----------------------------------------------------------------------------
(* There and back.                                                         *)

\* A part of a table that was as the schema says is so again after the way there and back.
LEMMA PartBack ==
  ASSUME NEW g, NEW up, NEW h, NEW down, NEW d, NEW e, NEW f, Followed(g, up, d, e), Followed(h, down, e, f),
         NEW t, NEW p \in Parts, NEW A, NEW B, t \in DOMAIN d.tables, d.tables[t][p] = A,
         ItemPlan(ToSet(up), p, t, A, B), ItemPlan(ToSet(down), p, t, B, A),
         ~SomeDrops(ToSet(up), t), ~SomeDrops(ToSet(down), t),
         p = "permissions" => DOMAIN B \subseteq DOMAIN A
  PROVE  /\ \A n : Has(f, p, t, n) <=> n \in DOMAIN A
         /\ \A n \in DOMAIN A : f.tables[t][p][n] = A[n]
<1>. DEFINE W == ToSet(up)  V == ToSet(down)
<1>1. PartFollows(d, p, t, A)
  BY DEF PartFollows, Has
<1>2. PartFollows(e, p, t, B)
  BY <1>1, PartLands
<1>3. PartFollows(f, p, t, A)
  BY <1>2, PartLands
<1>4. ASSUME NEW n
      PROVE  /\ Has(e, p, t, n) => Written(W, e, p, t, n)
                                   \/ (Has(d, p, t, n) /\ e.tables[t][p][n] = d.tables[t][p][n])
             /\ Has(f, p, t, n) => Written(V, f, p, t, n)
                                   \/ (Has(e, p, t, n) /\ f.tables[t][p][n] = e.tables[t][p][n])
  BY ItemsLand
<1>5. /\ \A n : Written(W, e, p, t, n) => n \in DOMAIN B /\ e.tables[t][p][n] = B[n]
      /\ \A n : Written(V, f, p, t, n) => n \in DOMAIN A /\ f.tables[t][p][n] = A[n]
  BY DEF ItemPlan, Written
<1>6. ASSUME NEW n \in DOMAIN A, p \in {"indexes", "events"} PROVE ~Written(W, e, p, t, n)
  BY <1>6 DEF ItemPlan, Written, SomeWrites
<1>7. \A n : Has(d, p, t, n) <=> n \in DOMAIN A
  BY DEF Has
<1>. HIDE DEF W, V
<1>8. ASSUME NEW n PROVE Has(f, p, t, n) <=> n \in DOMAIN A
  <2>1. CASE p = "permissions"
    BY <1>3, <1>4, <1>5, <1>7, <2>1 DEF PartFollows
  <2>2. CASE p # "permissions"
    BY <1>3, <2>2 DEF PartFollows
  <2>. QED
    BY <2>1, <2>2
<1>9. ASSUME NEW n \in DOMAIN A PROVE f.tables[t][p][n] = A[n]
  <2>1. CASE p \in {"fields", "permissions"}
    BY <1>3, <2>1 DEF PartFollows
  <2>2. CASE p \in {"indexes", "events"}
    <3>1. ~Written(W, e, p, t, n) /\ Has(f, p, t, n)
      BY <1>6, <1>8, <2>2
    <3>. QED
      BY <1>4, <1>5, <3>1
  <2>. QED
    BY <2>1, <2>2 DEF Parts
<1>. QED
  BY <1>8, <1>9

\* The buckets likewise, unless permissions were added where there were none.
LEMMA BucketBack ==
  ASSUME NEW g, NEW up, NEW h, NEW down, NEW d, NEW e, NEW f, Followed(g, up, d, e), Followed(h, down, e, f),
         NEW A, NEW B, d.buckets = A, BucketPlan(ToSet(up), A, B), BucketPlan(ToSet(down), B, A),
         \A b \in DOMAIN A \intersect DOMAIN B : A[b].permissions = NoText => B[b].permissions = NoText,
         NEW a \in Attributes
  PROVE  /\ \A b : b \in DOMAIN f.buckets <=> b \in DOMAIN A
         /\ \A b \in DOMAIN A : f.buckets[b][a] = A[b][a]
<1>. DEFINE W == ToSet(up)  V == ToSet(down)
<1>1. BucketsFollowed(d, A)
  BY DEF BucketsFollowed
<1>2. BucketsFollowed(e, B)
  BY <1>1, BucketsFollow
<1>3. BucketsFollowed(f, A)
  BY <1>2, BucketsFollow
<1>4. ASSUME NEW b
      PROVE  /\ b \in DOMAIN e.buckets =>
                  \/ StoredBy(W, e, b, a) \/ AlteredBy(W, e, b, a)
                  \/ b \in DOMAIN d.buckets /\ e.buckets[b][a] = d.buckets[b][a]
             /\ b \in DOMAIN f.buckets =>
                  \/ StoredBy(V, f, b, a) \/ AlteredBy(V, f, b, a)
                  \/ b \in DOMAIN e.buckets /\ f.buckets[b][a] = e.buckets[b][a]
  BY BucketsLand
<1>5. /\ \A b : StoredBy(W, e, b, a) \/ AlteredBy(W, e, b, a) => b \in DOMAIN B /\ e.buckets[b][a] = B[b][a]
      /\ \A b : StoredBy(V, f, b, a) \/ AlteredBy(V, f, b, a) => b \in DOMAIN A /\ f.buckets[b][a] = A[b][a]
  BY DEF BucketPlan, StoredBy, AlteredBy
<1>6. /\ \A b : b \in DOMAIN e.buckets <=> b \in DOMAIN B
      /\ \A b : b \in DOMAIN f.buckets <=> b \in DOMAIN A
  BY <1>2, <1>3 DEF BucketsFollowed
<1>. HIDE DEF W, V
<1>7. ASSUME NEW b \in DOMAIN A PROVE f.buckets[b][a] = A[b][a]
  <2>1. CASE f.buckets[b][a] = A[b][a]
    BY <2>1
  <2>2. CASE f.buckets[b][a] # A[b][a]
    <3>1. a = "permissions" /\ A[b].permissions = NoText
      BY <1>3, <2>2 DEF BucketsFollowed
    <3>2. b \in DOMAIN e.buckets /\ f.buckets[b][a] = e.buckets[b][a]
      BY <1>4, <1>5, <1>6, <2>2
    <3>3. b \in DOMAIN B /\ B[b][a] = A[b][a]
      BY <1>6, <3>1, <3>2
    <3>4. e.buckets[b][a] = B[b][a] \/ e.buckets[b][a] = A[b][a]
      BY <1>4, <1>5, <3>2
    <3>. QED
      BY <3>2, <3>3, <3>4
  <2>. QED
    BY <2>1, <2>2
<1>. QED
  BY <1>6, <1>7

\* Where the migration can be undone, the way back ends where the way there began.
LEMMA ThereAndBack ==
  ASSUME NEW g, NEW up, NEW h, NEW down, NEW d, NEW e, NEW f, Followed(g, up, d, e), Followed(h, down, e, f),
         NEW C, NEW D, Alike(C, D), SchemaPlan(ToSet(up), C, D), SchemaPlan(ToSet(down), D, C),
         IsDatabase(d), IsDatabase(f), Exactly(C, d), Undoable(C, D)
  PROVE  f = d
<1>. DEFINE W == ToSet(up)  V == ToSet(down)
<1>1. /\ d.tables = [t \in Names(C) |-> Of(C, t)] /\ d.buckets = C.buckets
      /\ \A t \in Names(C) : t \in Names(D)
      /\ \A t \in Names(C) : DOMAIN Of(D, t).permissions \subseteq DOMAIN Of(C, t).permissions
      /\ \A b \in DOMAIN C.buckets \intersect DOMAIN D.buckets :
           C.buckets[b].permissions = NoText => D.buckets[b].permissions = NoText
  BY DEF Exactly, Undoable
<1>2. /\ \A t : TablePlan(W, C, D, t) /\ TablePlan(V, D, C, t)
      /\ BucketPlan(W, C.buckets, D.buckets) /\ BucketPlan(V, D.buckets, C.buckets)
  BY DEF SchemaPlan
<1>3. ASSUME NEW t
      PROVE  /\ (t \in DOMAIN d.tables \/ SomeDefines(W, t)) /\ ~SomeDrops(W, t) => t \in DOMAIN e.tables
             /\ (t \notin DOMAIN d.tables \/ SomeDrops(W, t)) /\ ~SomeDefines(W, t) => t \notin DOMAIN e.tables
             /\ ~SomeDefines(W, t) /\ t \in DOMAIN e.tables => e.tables[t].mode = d.tables[t].mode
             /\ (t \in DOMAIN e.tables \/ SomeDefines(V, t)) /\ ~SomeDrops(V, t) => t \in DOMAIN f.tables
             /\ (t \notin DOMAIN e.tables \/ SomeDrops(V, t)) /\ ~SomeDefines(V, t) => t \notin DOMAIN f.tables
             /\ ~SomeDefines(V, t) /\ t \in DOMAIN f.tables => f.tables[t].mode = e.tables[t].mode
  BY TablesLand
<1>4. ASSUME NEW t \in Names(C)
      PROVE  /\ ~SomeDefines(W, t) /\ ~SomeDrops(W, t) /\ ~SomeDefines(V, t) /\ ~SomeDrops(V, t)
             /\ \A p \in Parts : /\ ItemPlan(W, p, t, Of(C, t)[p], Of(D, t)[p])
                                 /\ ItemPlan(V, p, t, Of(D, t)[p], Of(C, t)[p])
  BY <1>1, <1>2 DEF TablePlan
<1>5. ASSUME NEW t \in Names(C)
      PROVE  t \in DOMAIN f.tables /\ f.tables[t] = d.tables[t]
  <2>. DEFINE A == Of(C, t)  x == f.tables[t]
  <2>1. t \in DOMAIN d.tables /\ d.tables[t] = A
    BY <1>1
  <2>2. t \in DOMAIN f.tables /\ x.mode = A.mode
    BY <1>3, <1>4, <2>1
  <2>3. ASSUME NEW p \in Parts
        PROVE  (\A n : Has(f, p, t, n) <=> n \in DOMAIN A[p]) /\ (\A n \in DOMAIN A[p] : f.tables[t][p][n] = A[p][n])
    <3>. DEFINE Q == A[p]  R == Of(D, t)[p]
    <3>1. d.tables[t][p] = Q /\ (p = "permissions" => DOMAIN R \subseteq DOMAIN Q)
      BY <1>1, <2>1
    <3>2. ItemPlan(W, p, t, Q, R) /\ ItemPlan(V, p, t, R, Q) /\ ~SomeDrops(W, t) /\ ~SomeDrops(V, t)
      BY <1>4
    <3>. HIDE DEF Q, R
    <3>3. (\A n : Has(f, p, t, n) <=> n \in DOMAIN Q) /\ (\A n \in DOMAIN Q : f.tables[t][p][n] = Q[n])
      BY <2>1, <3>1, <3>2, PartBack
    <3>. QED
      BY <3>3 DEF Q
  <2>4. \A p \in Parts : DOMAIN x[p] = DOMAIN A[p] /\ \A n \in DOMAIN A[p] : x[p][n] = A[p][n]
    BY <2>2, <2>3 DEF Has
  <2>5. IsStored(x) /\ IsStored(A)
    BY <2>1, <2>2 DEF IsDatabase
  <2>. HIDE DEF x, A
  <2>6. \A p \in Parts : x[p] = A[p]
    <3>1. \A p \in Parts : IsMap(x[p]) /\ IsMap(A[p])
      BY <2>5 DEF IsStored
    <3>2. ASSUME NEW p \in Parts PROVE x[p] = A[p]
      <4>1. /\ DOMAIN x[p] = DOMAIN A[p]
            /\ \A n \in DOMAIN A[p] : x[p][n] = A[p][n]
        BY ONLY <2>4, <3>2
      <4>2. x[p] = [n \in DOMAIN x[p] |-> x[p][n]] /\ A[p] = [n \in DOMAIN A[p] |-> A[p][n]]
        BY ONLY <3>1, <3>2 DEF IsMap
      <4>. QED
        BY ONLY <4>1, <4>2
    <3>. QED
      BY ONLY <3>2
  <2>7. x.fields = A.fields /\ x.indexes = A.indexes /\ x.events = A.events /\ x.permissions = A.permissions
    BY <2>6 DEF Parts
  <2>8. x = A
    BY ONLY <2>2, <2>5, <2>7 DEF IsStored
  <2>. QED
    BY <2>1, <2>2, <2>8 DEF x
<1>6. ASSUME NEW t, t \notin Names(C) PROVE t \notin DOMAIN f.tables
  <2>1. ~SomeDefines(V, t)
    BY <1>2, <1>6 DEF TablePlan
  <2>2. CASE t \in Names(D)
    <3>1. SomeDrops(V, t)
      BY <1>2, <1>6, <2>2 DEF TablePlan
    <3>. QED
      BY <1>3, <2>1, <3>1
  <2>3. CASE t \notin Names(D)
    <3>1. ~SomeDefines(W, t) /\ t \notin DOMAIN d.tables
      BY <1>1, <1>2, <1>6, <2>3 DEF TablePlan
    <3>. QED
      BY <1>3, <2>1, <3>1
  <2>. QED
    BY <2>2, <2>3
<1>. HIDE DEF W, V
<1>7. f.tables = d.tables
  <2>1. DOMAIN f.tables = Names(C) /\ DOMAIN d.tables = Names(C)
    BY <1>1, <1>5, <1>6
  <2>2. IsMap(f.tables) /\ IsMap(d.tables)
    BY DEF IsDatabase
  <2>. QED
    BY ONLY <1>5, <2>1, <2>2 DEF IsMap
<1>8. f.buckets = d.buckets
  <2>. DEFINE A == C.buckets  B == D.buckets
  <2>1. ASSUME NEW a \in Attributes
        PROVE  (\A b : b \in DOMAIN f.buckets <=> b \in DOMAIN A) /\ (\A b \in DOMAIN A : f.buckets[b][a] = A[b][a])
    <3>1. /\ d.buckets = A /\ BucketPlan(ToSet(up), A, B) /\ BucketPlan(ToSet(down), B, A)
          /\ \A b \in DOMAIN A \intersect DOMAIN B : A[b].permissions = NoText => B[b].permissions = NoText
      BY <1>1, <1>2 DEF W, V
    <3>. HIDE DEF A, B
    <3>. QED
      BY <3>1, BucketBack
  <2>2. d.buckets = A
    BY <1>1
  <2>. HIDE DEF A, B
  <2>3. DOMAIN f.buckets = DOMAIN A
    <3>1. "backend" \in Attributes
      BY DEF Attributes
    <3>. QED
      BY <2>1, <3>1
  <2>4. ASSUME NEW b \in DOMAIN A PROVE f.buckets[b] = d.buckets[b]
    <3>1. IsBucket(f.buckets[b]) /\ IsBucket(d.buckets[b])
      BY <2>2, <2>3 DEF IsDatabase
    <3>2. \A a \in Attributes : f.buckets[b][a] = d.buckets[b][a]
      BY <2>1, <2>2
    <3>. QED
      BY ONLY <3>1, <3>2 DEF IsBucket, Attributes
  <2>5. IsMap(f.buckets) /\ IsMap(d.buckets)
    BY DEF IsDatabase
  <2>. QED
    BY ONLY <2>2, <2>3, <2>4, <2>5 DEF IsMap
<1>. QED
  BY <1>7, <1>8 DEF IsDatabase

\* A script in which no statement is broken is a plan.
LEMMA WholeScripts ==
  ASSUME NEW C \in Schemas, NEW D \in Schemas
  PROVE  LET L == DiffSchemas(D, C) IN
         /\ Proper(Up(L)) /\ Proper(Down(L))
         /\ Fragment \notin ToSet(Up(L)) => SchemaPlan(ToSet(Up(L)), C, D)
         /\ Fragment \notin ToSet(Down(L)) => SchemaPlan(ToSet(Down(L)), D, C)
<1>. DEFINE L == DiffSchemas(D, C)
<1>1. Alike(C, D)
  BY SchemasAlike
<1>2. /\ Proper(L) /\ \A x \in ToSet(L) : SoundDiff(x)
      /\ SchemaPlan(Forward(ToSet(L)), C, D) /\ SchemaPlan(Backward(ToSet(L)), D, C)
  BY <1>1, SchemasPlanned
<1>. HIDE DEF L
<1>. QED
  BY <1>2, Scripts DEF L

\* The way there and back ends where it began.
LEMMA RunBack ==
  ASSUME NEW C \in Schemas, NEW D \in Schemas, NEW d, IsDatabase(d), Exactly(C, d), Undoable(C, D),
         NEW e, e = RunAll(Up(DiffSchemas(D, C)), d), e # Failed, IsDatabase(e),
         NEW f, f = RunAll(Down(DiffSchemas(D, C)), e), f # Failed, IsDatabase(f)
  PROVE  f = d
<1>. DEFINE up == Up(DiffSchemas(D, C))  down == Down(DiffSchemas(D, C))
<1>1. Proper(up) /\ Proper(down)
  BY WholeScripts
<1>2. e = RunAll(up, d) /\ f = RunAll(down, e)
  OBVIOUS
<1>3. Fragment \notin ToSet(up) /\ Fragment \notin ToSet(down)
  BY <1>1, <1>2, RanWhole
<1>4. SchemaPlan(ToSet(up), C, D) /\ SchemaPlan(ToSet(down), D, C)
  BY <1>3, WholeScripts
<1>. HIDE DEF up, down
<1>5. (\A s \in ToSet(up) : IsStatement(s)) /\ (\A s \in ToSet(down) : IsStatement(s))
  BY <1>4 DEF SchemaPlan
<1>6. Followed(Course(up, d), up, d, e)
  BY <1>1, <1>2, <1>5, RunFollowed
<1>7. Followed(Course(down, e), down, e, f)
  BY <1>1, <1>2, <1>5, RunFollowed
<1>8. Alike(C, D)
  BY SchemasAlike
<1>. QED
  BY <1>4, <1>6, <1>7, <1>8, ThereAndBack

\* In a state that was reached the file belongs to the database, and its way back ends at before.
LEMMA DownUndoes ==
  ASSUME Evolved, Evolved', phase = "migrated", RunAll(file.down, db) = db',
         Exactly(file.from, before), Undoable(file.from, file.to)
  PROVE  db' = before
<1>1. /\ file.from \in Schemas /\ file.to \in Schemas
      /\ file.up = Up(DiffSchemas(file.to, file.from)) /\ file.down = Down(DiffSchemas(file.to, file.from))
      /\ IsDatabase(before) /\ RunAll(file.up, before) # Failed /\ db = RunAll(file.up, before)
      /\ IsDatabase(db) /\ IsDatabase(db')
  BY DEF Evolved, FileStands, Ran
<1>2. db' # Failed
  BY <1>1 DEF IsDatabase, Failed
<1>. QED
  BY <1>1, <1>2, RunBack

\* Rolling back a migration that can be undone restores, to the last definition,
\* a database that was as its snapshot says (the backward statements of each
\* diff, in reverse: GenerateMigrationFromDiffs, RollbackMigration).
THEOREM WayBackIsExact == EvolutionSpec => DownIsInverse
<1>1. Evolved /\ Evolved' =>
        (phase = "migrated" /\ RunAll(file.down, db) = db' /\ phase' = "edit" /\ at' = file.from
           /\ Exactly(file.from, before) /\ Undoable(file.from, file.to)
         => db' = before)
  BY DownUndoes
<1>. QED
  BY <1>1, EvolvedInit, EvolvedStep, PTL DEF EvolutionSpec, DownIsInverse

-----------------------------------------------------------------------------
(* Sequences by what stands before what in them.                           *)

Precedes(s, x, y) == \E i, j \in 1..Len(s) : i < j /\ s[i] = x /\ s[j] = y

\* What stands before something, and what after, is in the sequence.
LEMMA PrecedesMembers ==
  ASSUME NEW s, Proper(s), NEW x, NEW y, Precedes(s, x, y)
  PROVE  x \in ToSet(s) /\ y \in ToSet(s)
BY Properness DEF Precedes

\* In a sequence of one or none nothing stands before anything.
LEMMA AloneInOrder ==
  ASSUME NEW z, NEW x, NEW y
  PROVE  ~Precedes(<<z>>, x, y) /\ ~Precedes(<<>>, x, y)
BY DEF Precedes

\* In one sequence after another, what is in the one stands before what is in the other.
LEMMA ConcatOrder ==
  ASSUME NEW s, NEW t, Proper(s), Proper(t), NEW x, NEW y, Precedes(s \o t, x, y)
  PROVE  \/ Precedes(s, x, y) \/ Precedes(t, x, y)
         \/ x \in ToSet(s) /\ y \in ToSet(t)
<1>. DEFINE A == ToSet(s) \union ToSet(t)
<1>1. s \in Seq(A) /\ t \in Seq(A)
  BY DEF Proper, ToSet
<1>. HIDE DEF A
<1>2. /\ Len(s \o t) = Len(s) + Len(t)
      /\ \A i \in 1..Len(s) + Len(t) : (s \o t)[i] = IF i <= Len(s) THEN s[i] ELSE t[i - Len(s)]
  BY <1>1, ConcatProperties
<1>3. Len(s) \in Nat /\ Len(t) \in Nat
  BY <1>1
<1>4. PICK i, j \in 1..Len(s) + Len(t) : i < j /\ (s \o t)[i] = x /\ (s \o t)[j] = y
  BY <1>2 DEF Precedes
<1>5. CASE j <= Len(s)
  <2>1. i \in 1..Len(s) /\ j \in 1..Len(s) /\ i <= Len(s)
    BY <1>3, <1>4, <1>5
  <2>2. s[i] = x /\ s[j] = y
    BY <1>2, <1>4, <1>5, <2>1
  <2>. QED
    BY <1>4, <2>1, <2>2 DEF Precedes
<1>6. CASE ~(i <= Len(s))
  <2>. DEFINE k == i - Len(s)  l == j - Len(s)
  <2>1. k \in 1..Len(t) /\ l \in 1..Len(t) /\ k < l /\ ~(j <= Len(s))
    BY <1>3, <1>4, <1>6
  <2>2. t[k] = x /\ t[l] = y
    BY <1>2, <1>4, <1>6, <2>1
  <2>. HIDE DEF k, l
  <2>. QED
    BY <2>1, <2>2 DEF Precedes
<1>7. CASE i <= Len(s) /\ ~(j <= Len(s))
  <2>1. i \in 1..Len(s) /\ j - Len(s) \in 1..Len(t)
    BY <1>3, <1>4, <1>7
  <2>2. s[i] = x /\ t[j - Len(s)] = y
    BY <1>2, <1>4, <1>7
  <2>. QED
    BY <2>1, <2>2, Properness
<1>. QED
  BY <1>5, <1>6, <1>7

\* In lists strung together, what is in one list stands as it does there, and before
\* what is in a later one.
LEMMA FlattenOrder ==
  ASSUME NEW ss, Proper(ss), \A s \in ToSet(ss) : Proper(s), NEW x, NEW y, Precedes(FlattenSeq(ss), x, y)
  PROVE  \/ \E s \in ToSet(ss) : Precedes(s, x, y)
         \/ \E s, t : Precedes(ss, s, t) /\ x \in ToSet(s) /\ y \in ToSet(t)
<1>1. Len(ss) \in Nat /\ DOMAIN ss = 1..Len(ss) /\ \A i \in 1..Len(ss) : ss[i] \in ToSet(ss)
  BY Properness
<1>2. CASE Len(ss) = 0
  <2>1. FlattenSeq(ss) = ss
    BY <1>2 DEF FlattenSeq
  <2>. QED
    BY <1>1, <1>2, <2>1 DEF Precedes
<1>3. CASE Len(ss) # 0
  <2>. DEFINE N == Len(ss)
              Sum(n) == UNION {ToSet(ss[i]) : i \in 1..n}
              Good(n) == Precedes(Strung(ss)[n], x, y) =>
                           \/ \E s \in ToSet(ss) : Precedes(s, x, y)
                           \/ \E s, t : Precedes(ss, s, t) /\ x \in ToSet(s) /\ y \in ToSet(t)
              S == {n \in Nat : Proper(Strung(ss)[n]) /\ ToSet(Strung(ss)[n]) = Sum(n) /\ Good(n)}
  <2>1. 1 \in S
    <3>1. Sum(1) = ToSet(ss[1])
      <4>1. \A i : i \in 1..1 <=> i = 1
        OBVIOUS
      <4>. QED
        BY <4>1
    <3>2. 1 \in 1..N
      BY <1>1, <1>3
    <3>. QED
      BY <1>1, <1>3, <3>1, <3>2, StrungStepByStep
  <2>2. ASSUME NEW n \in 1..(N - 1), n \in S PROVE n + 1 \in S
    <3>1. n + 1 \in 2..N /\ (n + 1) - 1 = n /\ n + 1 \in 1..N /\ n + 1 \in Nat /\ \A i \in 1..n : i \in 1..N /\ i < n + 1
      BY <1>1
    <3>. DEFINE a == Strung(ss)[n]  b == ss[n + 1]
    <3>2. Strung(ss)[n + 1] = a \o b
      BY <1>3, <3>1, StrungStepByStep
    <3>3. Proper(b) /\ Proper(a) /\ ToSet(a) = Sum(n) /\ Good(n)
      BY <1>1, <2>2, <3>1
    <3>4. Proper(Strung(ss)[n + 1]) /\ ToSet(Strung(ss)[n + 1]) = Sum(n) \union ToSet(b)
      <4>. HIDE DEF Sum, a, b, Good
      <4>. QED
        BY <3>2, <3>3, ConcatMembers
    <3>5. Sum(n + 1) = Sum(n) \union ToSet(ss[n + 1])
      <4>1. \A i : i \in 1..(n + 1) <=> i \in 1..n \/ i = n + 1
        BY <3>1
      <4>. QED
        BY <4>1
    <3>6. ASSUME Precedes(Strung(ss)[n + 1], x, y)
          PROVE  \/ \E s \in ToSet(ss) : Precedes(s, x, y)
                 \/ \E s, t : Precedes(ss, s, t) /\ x \in ToSet(s) /\ y \in ToSet(t)
      <4>1. Precedes(a, x, y) \/ Precedes(b, x, y) \/ (x \in ToSet(a) /\ y \in ToSet(b))
        <5>. HIDE DEF a, b, Sum, Good
        <5>. QED
          BY <3>2, <3>3, <3>6, ConcatOrder
      <4>2. CASE Precedes(a, x, y)
        BY <3>3, <4>2
      <4>3. CASE Precedes(b, x, y)
        BY <1>1, <3>1, <4>3
      <4>4. CASE x \in ToSet(a) /\ y \in ToSet(b)
        <5>1. x \in Sum(n)
          BY <3>3, <4>4
        <5>2. PICK i \in 1..n : x \in ToSet(ss[i])
          BY <5>1
        <5>3. Precedes(ss, ss[i], b)
          BY <3>1 DEF Precedes
        <5>. QED
          BY <4>4, <5>2, <5>3
      <4>. QED
        BY <4>1, <4>2, <4>3, <4>4
    <3>. QED
      BY <3>1, <3>4, <3>5, <3>6
  <2>3. N \in S
    <3>1. N \in Nat /\ 1 \in 0..N
      BY <1>1, <1>3
    <3>. HIDE DEF S, N
    <3>. QED
      BY <2>1, <2>2, <3>1, Onward
  <2>. QED
    BY <1>3, <2>3, StrungStepByStep
<1>. QED
  BY <1>2, <1>3

\* The list G has what h makes of the names T, each once.
Listed(G, T, h) ==
  /\ Proper(G) /\ \A g \in ToSet(G) : \E t \in T : g = h[t]
  /\ \A a, b : Precedes(G, a, b) => \E t, u \in T : t # u /\ a = h[t] /\ b = h[u]

\* The values of a map with the names in order: each once.
LEMMA EachListed ==
  ASSUME NEW f, DOMAIN f \in SUBSET Nat, IsFiniteSet(DOMAIN f)
  PROVE  Listed(Each(f), DOMAIN f, f)
<1>. DEFINE S == DOMAIN f  C == Cardinality(S)
            rank(n) == Cardinality({m \in S : m <= n})
<1>1. C \in Nat
  BY FS_CardinalityType
<1>2. \A i \in 1..C : \E n \in S : rank(n) = i
  BY PlacesCount
<1>3. Ordered(S) = [i \in 1..C |-> CHOOSE n \in S : rank(n) = i]
  BY DEF Ordered
<1>4. Each(f) = [i \in 1..C |-> f[Ordered(S)[i]]]
  BY DEF Each, C
<1>. HIDE DEF rank, C
<1>5. \A i \in 1..C : Ordered(S)[i] \in S /\ rank(Ordered(S)[i]) = i
  BY <1>2, <1>3
<1>6. \A i \in 1..C : Each(f)[i] = f[Ordered(S)[i]]
  BY <1>4
<1>7. Len(Each(f)) = C
  BY <1>1, <1>4
<1>8. Proper(Each(f)) /\ ToSet(Each(f)) = {f[n] : n \in DOMAIN f}
  BY EachMembers
<1>9. ASSUME NEW a, NEW b, Precedes(Each(f), a, b)
      PROVE  \E t, u \in S : t # u /\ a = f[t] /\ b = f[u]
  <2>1. PICK i, j \in 1..C : i < j /\ Each(f)[i] = a /\ Each(f)[j] = b
    BY <1>7, <1>9 DEF Precedes
  <2>2. i # j
    BY <1>1, <2>1
  <2>3. Ordered(S)[i] # Ordered(S)[j]
    BY <1>5, <2>2
  <2>. QED
    BY <1>5, <1>6, <2>1, <2>3
<1>. QED
  BY <1>8, <1>9 DEF Listed

\* A list is one of what another map makes of the names, if it makes the same of them.
LEMMA ListedAs ==
  ASSUME NEW G, NEW T, NEW f, NEW h, Listed(G, T, f), \A t \in T : f[t] = h[t]
  PROVE  Listed(G, T, h)
BY DEF Listed

\* Two lists for different names, one after the other.
LEMMA ListedConcat ==
  ASSUME NEW G, NEW K, NEW T, NEW U, NEW h, Listed(G, T, h), Listed(K, U, h), \A t \in T : t \notin U
  PROVE  Listed(G \o K, T \union U, h)
<1>1. /\ Proper(G) /\ \A g \in ToSet(G) : \E t \in T : g = h[t]
      /\ Proper(K) /\ \A g \in ToSet(K) : \E t \in U : g = h[t]
  BY DEF Listed
<1>2. Proper(G \o K) /\ ToSet(G \o K) = ToSet(G) \union ToSet(K)
  BY <1>1, ConcatMembers
<1>3. ASSUME NEW a, NEW b, Precedes(G \o K, a, b)
      PROVE  \E t, u \in T \union U : t # u /\ a = h[t] /\ b = h[u]
  <2>1. Precedes(G, a, b) \/ Precedes(K, a, b) \/ (a \in ToSet(G) /\ b \in ToSet(K))
    BY <1>1, <1>3, ConcatOrder
  <2>2. CASE Precedes(G, a, b)
    BY <2>2 DEF Listed
  <2>3. CASE Precedes(K, a, b)
    BY <2>3 DEF Listed
  <2>4. CASE a \in ToSet(G) /\ b \in ToSet(K)
    BY <1>1, <2>4
  <2>. QED
    BY <2>1, <2>2, <2>3, <2>4
<1>. QED
  BY <1>1, <1>2, <1>3 DEF Listed

-----------------------------------------------------------------------------
(* Runs that come through.                                                 *)

\* The statement gives records that lack the field n its default.
Fills(s, t, n) == s.do = "backfill" /\ s.table = t /\ s.name = n

\* After the statement u the statement v comes too late, or u came too early.
TooLate(u, v) ==
  \/ \E t : Drops(u, t) /\ About(v, t)
  \/ \E t : About(u, t) /\ Defines(v, t)
  \/ \E p, t, n : Erases(u, p, t, n) /\ Erases(v, p, t, n)
  \/ \E t, n : Fills(u, t, n) /\ Writes(v, "fields", t, n)
  \/ \E b : Unstores(u, b) /\ OfBucket(v) /\ v.bucket = b

\* What the statement s works on is in the database d, or a statement of V brings it.
Grounded(s, V, d) ==
  /\ \A t : About(s, t) /\ ~Defines(s, t) => t \in DOMAIN d.tables \/ SomeDefines(V, t)
  /\ \A p, t, n : Erases(s, p, t, n) => Has(d, p, t, n)
  /\ \A t, n : Fills(s, t, n) => SomeWrites(V, "fields", t, n) /\ ~SomeErases(V, "fields", t, n)
  /\ OfBucket(s) /\ s.do # "define bucket" => s.bucket \in DOMAIN d.buckets

\* A statement that is grounded and not too late is accepted.
LEMMA NextAccepted ==
  ASSUME NEW g, NEW stmts, NEW d, NEW e, Followed(g, stmts, d, e), NEW s, IsStatement(s),
         Grounded(s, ToSet(stmts), d), \A u \in ToSet(stmts) : ~TooLate(u, s)
  PROVE  Accepts(s, e)
<1>. DEFINE V == ToSet(stmts)
<1>1. ASSUME NEW t, About(s, t) PROVE ~SomeDrops(V, t)
  BY <1>1 DEF SomeDrops, TooLate
<1>2. ASSUME NEW t, About(s, t), ~Defines(s, t) PROVE t \in DOMAIN e.tables
  <2>1. t \in DOMAIN d.tables \/ SomeDefines(V, t)
    BY <1>2 DEF Grounded
  <2>2. (t \in DOMAIN d.tables \/ SomeDefines(V, t)) /\ ~SomeDrops(V, t) => t \in DOMAIN e.tables
    BY TablesLand
  <2>. QED
    BY <1>1, <1>2, <2>1, <2>2
<1>3. CASE s.do \in {"define table", "define bucket"}
  BY <1>3 DEF Accepts
<1>4. CASE s.do \in {"define", "permit", "remove table"}
  <2>1. About(s, s.table) /\ ~Defines(s, s.table)
    BY <1>4 DEF About, Defines
  <2>2. s.table \in DOMAIN e.tables
    BY <1>2, <2>1
  <2>. QED
    BY <1>4, <2>2 DEF Accepts
<1>5. CASE s.do = "remove"
  <2>. DEFINE p == s.part  t == s.table  n == s.name
  <2>1. About(s, t) /\ ~Defines(s, t) /\ Erases(s, p, t, n) /\ p \in Parts
    BY <1>5 DEF About, Defines, Erases, IsStatement, Parts
  <2>2. t \in DOMAIN e.tables /\ ~SomeDrops(V, t)
    BY <1>1, <1>2, <2>1
  <2>3. ~SomeErases(V, p, t, n)
    BY <2>1 DEF SomeErases, TooLate
  <2>4. Has(d, p, t, n)
    BY <2>1 DEF Grounded
  <2>. HIDE DEF p, t, n
  <2>5. Has(d, p, t, n) /\ ~(SomeErases(V, p, t, n) \/ SomeDrops(V, t)) => Has(e, p, t, n)
    BY <2>1, ItemsLand
  <2>6. Has(e, p, t, n)
    BY <2>2, <2>3, <2>4, <2>5
  <2>. QED
    BY <1>5, <2>6 DEF Accepts, Has, p, t, n
<1>6. CASE s.do = "backfill"
  <2>. DEFINE t == s.table  n == s.name
  <2>1. About(s, t) /\ ~Defines(s, t) /\ Fills(s, t, n)
    BY <1>6 DEF About, Defines, Fills
  <2>2. t \in DOMAIN e.tables /\ ~SomeDrops(V, t)
    BY <1>1, <1>2, <2>1
  <2>3. SomeWrites(V, "fields", t, n) /\ ~SomeErases(V, "fields", t, n)
    BY <2>1 DEF Grounded
  <2>. HIDE DEF t, n
  <2>4. "fields" \in Parts
    BY DEF Parts
  <2>5. SomeWrites(V, "fields", t, n) /\ ~(SomeErases(V, "fields", t, n) \/ SomeDrops(V, t)) => Has(e, "fields", t, n)
    BY <2>4, ItemsLand
  <2>6. Has(e, "fields", t, n)
    BY <2>2, <2>3, <2>5
  <2>. QED
    BY <1>6, <2>6 DEF Accepts, Has, t, n
<1>7. CASE s.do \in {"remove bucket", "alter bucket"}
  <2>. DEFINE b == s.bucket
  <2>1. OfBucket(s) /\ s.do # "define bucket" /\ b = s.bucket
    BY <1>7 DEF OfBucket
  <2>2. ~SomeUnstores(V, b)
    BY <2>1 DEF SomeUnstores, TooLate
  <2>3. b \in DOMAIN d.buckets
    BY <2>1 DEF Grounded
  <2>. HIDE DEF b
  <2>4. "permissions" \in Attributes
    BY DEF Attributes
  <2>5. (b \in DOMAIN d.buckets \/ SomeStores(V, b)) /\ ~SomeUnstores(V, b) => b \in DOMAIN e.buckets
    BY <2>4, BucketsLand
  <2>. QED
    BY <1>7, <2>2, <2>3, <2>5 DEF Accepts, b
<1>. QED
  BY <1>3, <1>4, <1>5, <1>6, <1>7 DEF IsStatement

\* No statement comes too late.
InOrder(stmts) == \A u, v : Precedes(stmts, u, v) => ~TooLate(u, v)

\* What a grounded statement needs from others stands before it, where they are in order.
LEMMA GroundedBefore ==
  ASSUME NEW stmts, Proper(stmts), InOrder(stmts), NEW n \in 0..(Len(stmts) - 1), NEW pre,
         Proper(pre), \A x : x \in ToSet(pre) <=> \E i \in 1..n : stmts[i] = x,
         NEW d, Grounded(stmts[n + 1], ToSet(stmts), d)
  PROVE  Grounded(stmts[n + 1], ToSet(pre), d) /\ \A u \in ToSet(pre) : ~TooLate(u, stmts[n + 1])
<1>. DEFINE s == stmts[n + 1]  V == ToSet(pre)  W == ToSet(stmts)  N == Len(stmts)
<1>1. /\ N \in Nat /\ n + 1 \in 1..N /\ \A i \in 1..n : i \in 1..N /\ i < n + 1
      /\ \A x : x \in W <=> \E i \in 1..N : stmts[i] = x
  <2>1. N \in Nat /\ \A x : x \in W <=> \E i \in 1..N : stmts[i] = x
    BY Properness
  <2>. QED
    BY <2>1
<1>2. ASSUME NEW u \in V PROVE Precedes(stmts, u, s)
  <2>1. PICK i \in 1..n : stmts[i] = u
    OBVIOUS
  <2>. QED
    BY <1>1, <2>1 DEF Precedes
<1>3. \A u \in V : ~TooLate(u, s)
  BY <1>2 DEF InOrder
<1>4. ASSUME NEW u \in W, u # s, u \notin V PROVE ~TooLate(s, u)
  <2>1. PICK i \in 1..N : stmts[i] = u
    BY <1>1
  <2>2. i \notin 1..n /\ i # n + 1
    BY <1>4, <2>1
  <2>3. n + 1 < i
    BY <1>1, <2>2
  <2>4. Precedes(stmts, s, u)
    BY <1>1, <2>1, <2>3 DEF Precedes
  <2>. QED
    BY <2>4 DEF InOrder
<1>5. V \subseteq W
  BY <1>1
<1>. HIDE DEF s, V, W, N
<1>6. Grounded(s, W, d)
  BY DEF s, W
<1>7. ASSUME NEW t, About(s, t), ~Defines(s, t), SomeDefines(W, t) PROVE SomeDefines(V, t)
  <2>1. PICK u \in W : Defines(u, t)
    BY <1>7 DEF SomeDefines
  <2>2. u # s /\ TooLate(s, u)
    BY <1>7, <2>1 DEF TooLate
  <2>. QED
    BY <1>4, <2>1, <2>2 DEF SomeDefines
<1>8. ASSUME NEW t, NEW m, Fills(s, t, m), SomeWrites(W, "fields", t, m) PROVE SomeWrites(V, "fields", t, m)
  <2>1. PICK u \in W : Writes(u, "fields", t, m)
    BY <1>8 DEF SomeWrites
  <2>2. u # s /\ TooLate(s, u)
    BY <1>8, <2>1 DEF TooLate, Fills, Writes
  <2>. QED
    BY <1>4, <2>1, <2>2 DEF SomeWrites
<1>9. \A t, m : SomeErases(V, "fields", t, m) => SomeErases(W, "fields", t, m)
  BY <1>5 DEF SomeErases
<1>10. Grounded(s, V, d)
  BY <1>6, <1>7, <1>8, <1>9 DEF Grounded
<1>. QED
  BY <1>3, <1>10 DEF s, V

\* Statements in order, each of them grounded, all run.
LEMMA RunsThrough ==
  ASSUME NEW stmts, Proper(stmts), InOrder(stmts), NEW d, IsDatabase(d),
         \A s \in ToSet(stmts) : IsStatement(s) /\ Grounded(s, ToSet(stmts), d)
  PROVE  RunAll(stmts, d) # Failed
<1>. DEFINE g == Course(stmts, d)  N == Len(stmts)
            S == {n \in 0..N : \A m \in 0..n : IsDatabase(g[m])}
<1>0. \A x : IsDatabase(x) => x # Failed
  BY DEF IsDatabase, Failed
<1>1. /\ N \in Nat /\ \A n \in 1..N : stmts[n] \in ToSet(stmts)
  BY Properness
<1>2. /\ RunAll(stmts, d) = g[N] /\ g[0] = d
      /\ \A n \in 1..N : g[n] = IF g[n - 1] = Failed \/ ~Accepts(stmts[n], g[n - 1]) THEN Failed
                                ELSE Effect(stmts[n], g[n - 1])
  BY CourseStepByStep
<1>. HIDE DEF g, N
<1>3. \A n \in 0..(N - 1) : n + 1 \in 0..N /\ n + 1 \in 1..N /\ (n + 1) - 1 = n /\ n \in 0..N
  BY <1>1
<1>4. ASSUME NEW n \in 0..(N - 1), IsDatabase(g[n]), Accepts(stmts[n + 1], g[n])
      PROVE  Follow(stmts[n + 1], g[n], g[n + 1])
  <2>1. IsStatement(stmts[n + 1]) /\ g[n + 1] = Effect(stmts[n + 1], g[n])
    BY <1>0, <1>1, <1>2, <1>3, <1>4
  <2>. QED
    BY <1>4, <2>1, EffectFollows
<1>5. 0 \in S
  BY <1>1, <1>2
<1>6. ASSUME NEW n \in 0..(N - 1), n \in S PROVE n + 1 \in S
  <2>. DEFINE pre == [i \in 1..n |-> stmts[i]]
  <2>1. n \in Nat /\ \A i \in 0..n : i \in 0..N /\ IsDatabase(g[i])
    BY <1>1, <1>6
  <2>2. /\ pre = [i \in 1..n |-> pre[i]] /\ \A i \in 1..n : pre[i] = stmts[i]
    OBVIOUS
  <2>. HIDE DEF pre
  <2>3. Proper(pre) /\ Len(pre) = n /\ ToSet(pre) = {pre[i] : i \in 1..n}
    BY <2>1, <2>2, ListMembers
  <2>4. \A x : x \in ToSet(pre) <=> \E i \in 1..n : stmts[i] = x
    BY <2>2, <2>3
  <2>5. ASSUME NEW i \in 0..(n - 1)
        PROVE  i \in 0..n /\ i + 1 \in 0..n /\ pre[i + 1] \in ToSet(pre) /\ Follow(pre[i + 1], g[i], g[i + 1])
    <3>1. i \in 0..n /\ i + 1 \in 0..n /\ i + 1 \in 1..n /\ i \in 0..(N - 1)
      BY <1>1, <2>1
    <3>2. g[i + 1] # Failed
      BY <1>0, <2>1, <3>1
    <3>3. Accepts(stmts[i + 1], g[i])
      BY <1>2, <1>3, <3>1, <3>2
    <3>4. Follow(stmts[i + 1], g[i], g[i + 1])
      BY <1>4, <2>1, <3>1, <3>3
    <3>. QED
      BY <2>2, <2>4, <3>1, <3>4
  <2>6. ASSUME NEW x \in ToSet(pre) PROVE \E i \in 0..(n - 1) : x = pre[i + 1]
    <3>1. PICK j \in 1..n : stmts[j] = x
      BY <2>4
    <3>2. j - 1 \in 0..(n - 1) /\ (j - 1) + 1 = j
      BY <2>1
    <3>. QED
      BY <2>2, <3>1, <3>2
  <2>7. Followed(g, pre, d, g[n])
    <3>1. Len(pre) \in Nat /\ g[0] = d /\ g[Len(pre)] = g[n] /\ Len(pre) = n
      BY <1>2, <2>1, <2>3
    <3>. QED
      BY ONLY <2>1, <2>5, <2>6, <3>1 DEF Followed
  <2>8. /\ IsStatement(stmts[n + 1]) /\ Grounded(stmts[n + 1], ToSet(stmts), d)
    BY <1>1, <1>3
  <2>9. Grounded(stmts[n + 1], ToSet(pre), d) /\ \A u \in ToSet(pre) : ~TooLate(u, stmts[n + 1])
    BY <2>3, <2>4, <2>8, GroundedBefore DEF N
  <2>10. Accepts(stmts[n + 1], g[n])
    BY ONLY <2>7, <2>8, <2>9, NextAccepted
  <2>11. n \in 0..n
    BY <2>1
  <2>12. Follow(stmts[n + 1], g[n], g[n + 1])
    BY <1>4, <2>1, <2>10, <2>11
  <2>13. IsDatabase(g[n + 1])
    BY <2>12 DEF Follow
  <2>14. \A m \in 0..(n + 1) : m \in 0..n \/ m = n + 1
    BY <2>1
  <2>. QED
    BY <1>3, <2>1, <2>13, <2>14
<1>7. N \in S
  <2>1. 0 \in 0..N
    BY <1>1
  <2>. HIDE DEF S
  <2>. QED
    BY <1>1, <1>5, <1>6, <2>1, Onward
<1>8. N \in 0..N
  BY <1>1
<1>. QED
  BY <1>0, <1>2, <1>7, <1>8

-----------------------------------------------------------------------------
(* Diffs in order, and the scripts made of them.                           *)

\* The statements of a diff are in order, and a default is given to a field it defines.
Neat(x) ==
  /\ InOrder(x.forward) /\ InOrder(x.backward)
  /\ \A s \in ToSet(x.forward) : \A t, n :
       Fills(s, t, n) => \E w \in ToSet(x.forward) : Writes(w, "fields", t, n)
  /\ \A s \in ToSet(x.backward) : s.do # "backfill"

\* The statements of the diff x may come before those of y, and on the way back after them.
Clear(x, y) ==
  /\ \A u \in ToSet(x.forward), v \in ToSet(y.forward) : ~TooLate(u, v)
  /\ \A u \in ToSet(y.backward), v \in ToSet(x.backward) : ~TooLate(u, v)

\* Diffs of which no statement comes too late.
Laid(L) ==
  /\ \A x \in ToSet(L) : SoundDiff(x) /\ Neat(x)
  /\ \A x, y : Precedes(L, x, y) => Clear(x, y)

\* A split script without fragments is in order as it was (splitScriptStatements).
LEMMA SplitInOrder ==
  ASSUME NEW stmts, Proper(stmts), InOrder(stmts), Fragment \notin ToSet(SplitScriptStatements(stmts))
  PROVE  InOrder(SplitScriptStatements(stmts))
<1>. DEFINE ss == [i \in DOMAIN stmts |-> Pieces(stmts[i])]
            split == SplitScriptStatements(stmts)
<1>1. split = FlattenSeq(ss)
  BY DEF SplitScriptStatements, Fragment, Pieces, Whole
<1>2. Proper(<<Fragment, Fragment>>) /\ ToSet(<<Fragment, Fragment>>) = {Fragment}
  BY DEF Proper, ToSet
<1>3. \A s : Proper(Pieces(s)) /\ ToSet(Pieces(s)) = IF Whole(s) THEN {s} ELSE {Fragment}
  BY <1>2, OneMember DEF Pieces
<1>4. Len(stmts) \in Nat /\ DOMAIN stmts = 1..Len(stmts)
  BY Properness
<1>5. ss = [i \in 1..Len(stmts) |-> ss[i]] /\ \A i \in 1..Len(stmts) : ss[i] = Pieces(stmts[i])
  BY <1>4
<1>6. Proper(split) /\ Fragment \notin ToSet(split)
  BY Splitting
<1>. HIDE DEF ss, split
<1>7. Proper(ss) /\ Len(ss) = Len(stmts) /\ ToSet(ss) = {ss[i] : i \in 1..Len(stmts)}
  BY <1>4, <1>5, ListMembers
<1>8. \A l \in ToSet(ss) : \E s : l = Pieces(s)
  BY <1>5, <1>7
<1>9. ASSUME NEW u, NEW v, Precedes(split, u, v) PROVE ~TooLate(u, v)
  <2>1. u # Fragment /\ v # Fragment
    BY <1>6, <1>9, PrecedesMembers
  <2>2. \/ \E l \in ToSet(ss) : Precedes(l, u, v)
        \/ \E k, l : Precedes(ss, k, l) /\ u \in ToSet(k) /\ v \in ToSet(l)
    <3>1. \A l \in ToSet(ss) : Proper(l)
      BY <1>3, <1>8
    <3>. QED
      BY <1>1, <1>7, <1>9, <3>1, FlattenOrder
  <2>3. ASSUME NEW l \in ToSet(ss), Precedes(l, u, v) PROVE FALSE
    <3>1. PICK s : l = Pieces(s)
      BY <1>8
    <3>2. CASE Whole(s)
      BY <2>3, <3>1, <3>2, AloneInOrder DEF Pieces
    <3>3. CASE ~Whole(s)
      <4>1. Proper(l) /\ ToSet(l) = {Fragment}
        BY <1>3, <3>1, <3>3
      <4>. QED
        BY <2>1, <2>3, <4>1, PrecedesMembers
    <3>. QED
      BY <3>2, <3>3
  <2>4. PICK k, l : Precedes(ss, k, l) /\ u \in ToSet(k) /\ v \in ToSet(l)
    BY <2>2, <2>3
  <2>5. PICK i, j \in 1..Len(stmts) : i < j /\ k = Pieces(stmts[i]) /\ l = Pieces(stmts[j])
    BY <1>5, <1>7, <2>4 DEF Precedes
  <2>6. u = stmts[i] /\ v = stmts[j]
    BY <1>3, <2>1, <2>4, <2>5
  <2>7. Precedes(stmts, u, v)
    BY <2>5, <2>6 DEF Precedes
  <2>. QED
    BY <2>7 DEF InOrder
<1>. QED
  BY <1>9 DEF InOrder, split

\* Lists in order, each of which may come before the later ones, are in order strung together.
LEMMA FlattenInOrder ==
  ASSUME NEW ss, Proper(ss), \A s \in ToSet(ss) : Proper(s) /\ InOrder(s),
         \A k, l : Precedes(ss, k, l) => \A u \in ToSet(k), v \in ToSet(l) : ~TooLate(u, v)
  PROVE  InOrder(FlattenSeq(ss))
<1>. SUFFICES ASSUME NEW u, NEW v, Precedes(FlattenSeq(ss), u, v) PROVE ~TooLate(u, v)
  BY DEF InOrder
<1>1. \/ \E s \in ToSet(ss) : Precedes(s, u, v)
      \/ \E s, t : Precedes(ss, s, t) /\ u \in ToSet(s) /\ v \in ToSet(t)
  BY FlattenOrder
<1>. QED
  BY <1>1 DEF InOrder

\* The script there and the script back of diffs laid in order are in order, unless a
\* statement was broken (GenerateMigrationFromDiffs).
LEMMA ScriptsInOrder ==
  ASSUME NEW diffs, Proper(diffs), Laid(diffs)
  PROVE  /\ Fragment \notin ToSet(Up(diffs)) => InOrder(Up(diffs))
         /\ Fragment \notin ToSet(Down(diffs)) => InOrder(Down(diffs))
<1>. DEFINE N == Len(diffs)
            up == [i \in DOMAIN diffs |-> diffs[i].forward]
            down == [i \in DOMAIN diffs |-> diffs[N - i + 1].backward]
<1>1. N \in Nat /\ DOMAIN diffs = 1..N /\ \A i \in 1..N : diffs[i] \in ToSet(diffs)
  BY Properness
<1>2. /\ up = [i \in 1..N |-> up[i]] /\ \A i \in 1..N : up[i] = diffs[i].forward
      /\ down = [i \in 1..N |-> down[i]] /\ \A i \in 1..N : down[i] = diffs[N - i + 1].backward
  BY <1>1
<1>3. Up(diffs) = SplitScriptStatements(FlattenSeq(up)) /\ Down(diffs) = SplitScriptStatements(FlattenSeq(down))
  BY DEF Up, Down
<1>4. /\ \A x \in ToSet(diffs) : Proper(x.forward) /\ Proper(x.backward) /\ InOrder(x.forward) /\ InOrder(x.backward)
      /\ \A i, j \in 1..N : i < j => Clear(diffs[i], diffs[j])
  BY DEF Laid, SoundDiff, Neat, Precedes
<1>. HIDE DEF up, down, N
<1>5. \A i \in 1..N : N - i + 1 \in 1..N
  BY <1>1
<1>6. /\ Proper(up) /\ Len(up) = N /\ ToSet(up) = {up[i] : i \in 1..N}
      /\ Proper(down) /\ Len(down) = N /\ ToSet(down) = {down[i] : i \in 1..N}
  BY <1>1, <1>2, ListMembers
<1>7. /\ \A l \in ToSet(up) : Proper(l) /\ InOrder(l)
      /\ \A l \in ToSet(down) : Proper(l) /\ InOrder(l)
  <2>1. \A i \in 1..N : up[i] = diffs[i].forward /\ diffs[i] \in ToSet(diffs)
    BY <1>1, <1>2
  <2>2. \A i \in 1..N : down[i] = diffs[N - i + 1].backward /\ diffs[N - i + 1] \in ToSet(diffs)
    BY <1>1, <1>2, <1>5
  <2>3. \A i \in 1..N : Proper(up[i]) /\ InOrder(up[i])
    BY ONLY <1>4, <2>1
  <2>4. \A i \in 1..N : Proper(down[i]) /\ InOrder(down[i])
    BY ONLY <1>4, <2>2
  <2>. QED
    BY ONLY <1>6, <2>3, <2>4
<1>8. InOrder(FlattenSeq(up))
  <2>1. ASSUME NEW k, NEW l, Precedes(up, k, l), NEW u \in ToSet(k), NEW v \in ToSet(l) PROVE ~TooLate(u, v)
    <3>1. PICK i, j \in 1..N : i < j /\ up[i] = k /\ up[j] = l
      BY <1>6, <2>1 DEF Precedes
    <3>2. Clear(diffs[i], diffs[j]) /\ k = diffs[i].forward /\ l = diffs[j].forward
      BY <1>2, <1>4, <3>1
    <3>. QED
      BY <3>2 DEF Clear
  <2>. QED
    BY ONLY <1>6, <1>7, <2>1, FlattenInOrder
<1>9. InOrder(FlattenSeq(down))
  <2>1. ASSUME NEW k, NEW l, Precedes(down, k, l), NEW u \in ToSet(k), NEW v \in ToSet(l) PROVE ~TooLate(u, v)
    <3>1. PICK i, j \in 1..N : i < j /\ down[i] = k /\ down[j] = l
      BY <1>6, <2>1 DEF Precedes
    <3>. DEFINE a == N - j + 1  b == N - i + 1
    <3>2. a \in 1..N /\ b \in 1..N /\ a < b
      BY <1>1, <3>1
    <3>3. l = diffs[a].backward /\ k = diffs[b].backward
      BY <1>2, <3>1
    <3>. HIDE DEF a, b
    <3>4. Clear(diffs[a], diffs[b])
      BY <1>4, <3>2
    <3>. QED
      BY <3>3, <3>4 DEF Clear
  <2>. QED
    BY ONLY <1>6, <1>7, <2>1, FlattenInOrder
<1>10. Proper(FlattenSeq(up)) /\ Proper(FlattenSeq(down))
  BY <1>6, <1>7, FlattenMembers
<1>. QED
  BY <1>3, <1>8, <1>9, <1>10, SplitInOrder

-----------------------------------------------------------------------------
(* The diffs of one table in order.                                        *)

\* The statement is about this field, index or event.
OnItem(s, p, t, n) ==
  /\ s.table = t /\ s.name = n
  /\ (s.do \in {"define", "remove"} /\ s.part = p) \/ (s.do = "backfill" /\ p = "fields")

\* The diff is all about one field, index or event; all about permissions; about a bucket.
ItemDiff(x, p, t, n) ==
  /\ SoundDiff(x) /\ Neat(x)
  /\ \A s \in ToSet(x.forward) \union ToSet(x.backward) : OnItem(s, p, t, n)
PermitDiff(x, t) ==
  /\ SoundDiff(x) /\ Neat(x)
  /\ \A s \in ToSet(x.forward) \union ToSet(x.backward) : s.do = "permit" /\ s.table = t
BucketDiff(x, b) ==
  /\ SoundDiff(x) /\ Neat(x)
  /\ \A s \in ToSet(x.forward) \union ToSet(x.backward) : OfBucket(s) /\ s.bucket = b

\* Statements about different things are in order either way.
LEMMA NeverTooLate ==
  ASSUME NEW u, NEW v
  PROVE  /\ \A p, q, t, r, n, m : OnItem(u, p, t, n) /\ OnItem(v, q, r, m) /\ ~(p = q /\ t = r /\ n = m) => ~TooLate(u, v)
         /\ \A p, t, n : OnItem(u, p, t, n) /\ v.do = "permit" => ~TooLate(u, v)
         /\ \A p, t, n : u.do = "permit" /\ OnItem(v, p, t, n) => ~TooLate(u, v)
         /\ u.do = "permit" /\ v.do = "permit" => ~TooLate(u, v)
         /\ \A t, r : About(u, t) /\ About(v, r) /\ t # r => ~TooLate(u, v)
         /\ \A t : About(u, t) /\ OfBucket(v) => ~TooLate(u, v)
         /\ \A t : OfBucket(u) /\ About(v, t) => ~TooLate(u, v)
         /\ \A b, c : OfBucket(u) /\ u.bucket = b /\ OfBucket(v) /\ v.bucket = c /\ b # c => ~TooLate(u, v)
<1>1. ASSUME NEW p, NEW q, NEW t, NEW r, NEW n, NEW m, OnItem(u, p, t, n), OnItem(v, q, r, m),
             ~(p = q /\ t = r /\ n = m)
      PROVE  ~TooLate(u, v)
  <2>1. \A k : ~Drops(u, k) /\ ~Defines(v, k) /\ ~Unstores(u, k)
    BY <1>1 DEF OnItem, Drops, Defines, Unstores
  <2>2. \A o, k, l : Erases(u, o, k, l) => o = p /\ k = t /\ l = n
    BY <1>1 DEF OnItem, Erases
  <2>3. \A o, k, l : Erases(v, o, k, l) => o = q /\ k = r /\ l = m
    BY <1>1 DEF OnItem, Erases
  <2>4. \A k, l : Fills(u, k, l) => p = "fields" /\ k = t /\ l = n
    BY <1>1 DEF OnItem, Fills
  <2>5. \A k, l : Writes(v, "fields", k, l) => q = "fields" /\ k = r /\ l = m
    BY <1>1 DEF OnItem, Writes
  <2>. QED
    BY ONLY <1>1, <2>1, <2>2, <2>3, <2>4, <2>5 DEF TooLate
<1>2. \A p, t, n : OnItem(u, p, t, n) /\ v.do = "permit" => ~TooLate(u, v)
  BY DEF OnItem, TooLate, Drops, Defines, About, Erases, Fills, Writes, Unstores, OfBucket
<1>3. \A p, t, n : u.do = "permit" /\ OnItem(v, p, t, n) => ~TooLate(u, v)
  BY DEF OnItem, TooLate, Drops, Defines, About, Erases, Fills, Writes, Unstores, OfBucket
<1>4. u.do = "permit" /\ v.do = "permit" => ~TooLate(u, v)
  BY DEF OnItem, TooLate, Drops, Defines, About, Erases, Fills, Writes, Unstores, OfBucket
<1>5. \A t, r : About(u, t) /\ About(v, r) /\ t # r => ~TooLate(u, v)
  BY DEF OnItem, TooLate, Drops, Defines, About, Erases, Fills, Writes, Unstores, OfBucket
<1>6. \A t : About(u, t) /\ OfBucket(v) => ~TooLate(u, v)
  BY DEF OnItem, TooLate, Drops, Defines, About, Erases, Fills, Writes, Unstores, OfBucket
<1>7. \A t : OfBucket(u) /\ About(v, t) => ~TooLate(u, v)
  BY DEF OnItem, TooLate, Drops, Defines, About, Erases, Fills, Writes, Unstores, OfBucket
<1>8. \A b, c : OfBucket(u) /\ u.bucket = b /\ OfBucket(v) /\ v.bucket = c /\ b # c => ~TooLate(u, v)
  BY DEF OnItem, TooLate, Drops, Defines, About, Erases, Fills, Writes, Unstores, OfBucket
<1>. QED
  BY <1>1, <1>2, <1>3, <1>4, <1>5, <1>6, <1>7, <1>8

\* Diffs about different things are clear of each other.
LEMMA DiffsApart ==
  ASSUME NEW x, NEW y
  PROVE  /\ \A p, q, t, n, m : ItemDiff(x, p, t, n) /\ ItemDiff(y, q, t, m) /\ ~(p = q /\ n = m) => Clear(x, y)
         /\ \A p, t, n : ItemDiff(x, p, t, n) /\ PermitDiff(y, t) => Clear(x, y)
         /\ \A b, c : BucketDiff(x, b) /\ BucketDiff(y, c) /\ b # c => Clear(x, y)
<1>1. ASSUME NEW p, NEW q, NEW t, NEW n, NEW m, ItemDiff(x, p, t, n), ItemDiff(y, q, t, m), ~(p = q /\ n = m)
      PROVE  Clear(x, y)
  <2>1. /\ \A u \in ToSet(x.forward) \union ToSet(x.backward) : OnItem(u, p, t, n)
        /\ \A u \in ToSet(y.forward) \union ToSet(y.backward) : OnItem(u, q, t, m)
    BY <1>1 DEF ItemDiff
  <2>2. \A u, v : OnItem(u, p, t, n) /\ OnItem(v, q, t, m) => ~TooLate(u, v) /\ ~TooLate(v, u)
    BY <1>1, NeverTooLate
  <2>. QED
    BY ONLY <2>1, <2>2 DEF Clear
<1>2. ASSUME NEW p, NEW t, NEW n, ItemDiff(x, p, t, n), PermitDiff(y, t) PROVE Clear(x, y)
  <2>1. /\ \A u \in ToSet(x.forward) \union ToSet(x.backward) : OnItem(u, p, t, n)
        /\ \A u \in ToSet(y.forward) \union ToSet(y.backward) : u.do = "permit"
    BY <1>2 DEF ItemDiff, PermitDiff
  <2>2. \A u, v : OnItem(u, p, t, n) /\ v.do = "permit" => ~TooLate(u, v) /\ ~TooLate(v, u)
    BY NeverTooLate
  <2>. QED
    BY ONLY <2>1, <2>2 DEF Clear
<1>3. ASSUME NEW b, NEW c, BucketDiff(x, b), BucketDiff(y, c), b # c PROVE Clear(x, y)
  <2>1. /\ \A u \in ToSet(x.forward) \union ToSet(x.backward) : OfBucket(u) /\ u.bucket = b
        /\ \A u \in ToSet(y.forward) \union ToSet(y.backward) : OfBucket(u) /\ u.bucket = c
    BY <1>3 DEF BucketDiff
  <2>2. \A u, v : OfBucket(u) /\ u.bucket = b /\ OfBucket(v) /\ v.bucket = c => ~TooLate(u, v) /\ ~TooLate(v, u)
    BY <1>3, NeverTooLate
  <2>. QED
    BY ONLY <2>1, <2>2 DEF Clear
<1>. QED
  BY <1>1, <1>2, <1>3

\* A diff of one statement there and one back is neat.
LEMMA TwoNeat ==
  ASSUME NEW x, NEW there, NEW back, x.forward = <<there>>, x.backward = <<back>> \/ x.backward = <<>>,
         there.do # "backfill", back.do # "backfill"
  PROVE  Neat(x)
<1>1. ToSet(x.forward) = {there} /\ ToSet(x.backward) \subseteq {back}
  BY OneMember, NoMember
<1>2. InOrder(x.forward) /\ InOrder(x.backward)
  BY AloneInOrder DEF InOrder
<1>. QED
  BY <1>1, <1>2 DEF Neat, Fills

\* A diff of one statement there and one back about an item is a diff of it.
LEMMA TwoOnItem ==
  ASSUME NEW x, NEW p \in {"fields", "indexes", "events"}, NEW t, NEW n, NEW there, NEW back,
         SoundDiff(x), x.forward = <<there>>, x.backward = <<back>>,
         there.do \in {"define", "remove"}, there.part = p, there.table = t, there.name = n,
         back.do \in {"define", "remove"}, back.part = p, back.table = t, back.name = n
  PROVE  ItemDiff(x, p, t, n)
<1>1. ToSet(x.forward) = {there} /\ ToSet(x.backward) = {back}
  BY OneMember
<1>2. Neat(x)
  BY TwoNeat
<1>. QED
  BY <1>1, <1>2 DEF ItemDiff, OnItem

\* The diffs of a field are all about it.
LEMMA FieldsOnItem ==
  ASSUME NEW t, NEW n, NEW v, NEW w
  PROVE  /\ ItemDiff(AddField(t, n, v), "fields", t, n)
         /\ ItemDiff(DropField(t, n, v), "fields", t, n)
         /\ ItemDiff(ModifyField(t, n, w, v), "fields", t, n)
<1>. DEFINE p == "fields"
<1>1. /\ \A d : LET s == DefineItem(p, t, n, d) IN s.do = "define" /\ s.part = p /\ s.table = t /\ s.name = n
      /\ LET s == RemoveItem(p, t, n) IN s.do = "remove" /\ s.part = p /\ s.table = t /\ s.name = n
  BY DEF DefineItem, RemoveItem
<1>2. SoundDiff(AddField(t, n, v)) /\ SoundDiff(DropField(t, n, v)) /\ SoundDiff(ModifyField(t, n, w, v))
  BY FieldsOneByOne DEF OneItem
<1>3. ItemDiff(DropField(t, n, v), p, t, n)
  <2>1. DropField(t, n, v).forward = <<RemoveItem(p, t, n)>> /\ DropField(t, n, v).backward = <<DefineItem(p, t, n, v)>>
    BY DEF DropField, Diff
  <2>. QED
    BY <1>1, <1>2, <2>1, TwoOnItem
<1>4. ItemDiff(ModifyField(t, n, w, v), p, t, n)
  <2>1. /\ ModifyField(t, n, w, v).forward = <<DefineItem(p, t, n, v)>>
        /\ ModifyField(t, n, w, v).backward = <<DefineItem(p, t, n, w)>>
    BY DEF ModifyField, Diff
  <2>. QED
    BY <1>1, <1>2, <2>1, TwoOnItem
<1>5. ItemDiff(AddField(t, n, v), p, t, n)
  <2>. DEFINE x == AddField(t, n, v)  there == DefineItem(p, t, n, v)  back == RemoveItem(p, t, n)
              fill == [do |-> "backfill", table |-> t, name |-> n, def |-> v]
  <2>1. x.forward = <<there>> \o Backfill(t, n, v) /\ x.backward = <<back>>
    BY DEF AddField, Diff
  <2>2. CASE v \notin Backfilled
    <3>1. x.forward = <<there>>
      BY <2>1, <2>2 DEF Backfill
    <3>. HIDE DEF x, there, back
    <3>. QED
      BY <1>1, <1>2, <2>1, <3>1, TwoOnItem DEF x, there, back
  <2>3. CASE v \in Backfilled
    <3>1. /\ Len(x.forward) = 2 /\ x.forward[1] = there /\ x.forward[2] = fill
          /\ ToSet(x.forward) = {there, fill}
      <4>1. x.forward = <<there>> \o <<fill>>
        BY <2>1, <2>3 DEF Backfill
      <4>. HIDE DEF x, there, fill
      <4>2. /\ Proper(<<there>>) /\ ToSet(<<there>>) = {there}
            /\ Proper(<<fill>>) /\ ToSet(<<fill>>) = {fill}
        BY OneMember
      <4>3. ToSet(<<there>> \o <<fill>>) = {there} \union {fill}
        BY <4>2, ConcatMembers
      <4>4. /\ <<there>> \in Seq({there, fill}) /\ <<fill>> \in Seq({there, fill})
            /\ Len(<<there>>) = 1 /\ Len(<<fill>>) = 1
        OBVIOUS
      <4>5. /\ Len(<<there>> \o <<fill>>) = 1 + 1
            /\ \A i \in 1..1 + 1 : (<<there>> \o <<fill>>)[i] = IF i <= 1 THEN <<there>>[i] ELSE <<fill>>[i - 1]
        BY <4>4, ConcatProperties
      <4>6. /\ 1 \in 1..1 + 1 /\ 2 \in 1..1 + 1 /\ 1 <= 1 /\ ~(2 <= 1) /\ 2 - 1 = 1 /\ 1 + 1 = 2
            /\ <<there>>[1] = there /\ <<fill>>[1] = fill
        OBVIOUS
      <4>7. (<<there>> \o <<fill>>)[1] = there /\ (<<there>> \o <<fill>>)[2] = fill
        BY <4>5, <4>6
      <4>. QED
        BY <4>1, <4>3, <4>5, <4>6, <4>7
    <3>2. fill.do = "backfill" /\ fill.table = t /\ fill.name = n
      OBVIOUS
    <3>. HIDE DEF x, there, back, fill
    <3>3. ToSet(x.backward) = {back} /\ ToSet(x.forward) = {there, fill}
      BY <2>1, <3>1, OneMember
    <3>4. /\ there.do = "define" /\ there.part = p /\ there.table = t /\ there.name = n
          /\ back.do = "remove" /\ back.part = p /\ back.table = t /\ back.name = n
      BY <1>1 DEF there, back
    <3>5. InOrder(x.backward)
      BY <2>1, AloneInOrder DEF InOrder
    <3>6. InOrder(x.forward)
      <4>1. ASSUME NEW u, NEW y, Precedes(x.forward, u, y) PROVE u = there /\ y = fill
        <5>1. PICK i, j \in 1..2 : i < j /\ x.forward[i] = u /\ x.forward[j] = y
          BY <3>1, <4>1 DEF Precedes
        <5>2. i = 1 /\ j = 2
          BY <5>1
        <5>. QED
          BY <3>1, <5>1, <5>2
      <4>2. ~TooLate(there, fill)
        BY <3>2, <3>4 DEF TooLate, Drops, Defines, Erases, Fills, Unstores
      <4>. QED
        BY <4>1, <4>2 DEF InOrder
    <3>7. Writes(there, "fields", t, n)
      BY <3>4 DEF Writes
    <3>8. Neat(x)
      BY <3>2, <3>3, <3>4, <3>5, <3>6, <3>7 DEF Neat, Fills
    <3>9. \A s \in ToSet(x.forward) \union ToSet(x.backward) : OnItem(s, p, t, n)
      BY <3>2, <3>3, <3>4 DEF OnItem
    <3>. QED
      BY <1>2, <3>8, <3>9 DEF ItemDiff, x
  <2>. QED
    BY <2>2, <2>3
<1>. QED
  BY <1>3, <1>4, <1>5

\* The diffs of an index or event are all about it.
LEMMA ItemsOnItem ==
  ASSUME NEW p \in {"indexes", "events"}, NEW t, NEW n, NEW v
  PROVE  ItemDiff(AddItem(p, t, n, v), p, t, n) /\ ItemDiff(DropItem(p, t, n, v), p, t, n)
<1>1. /\ LET s == DefineItem(p, t, n, v) IN s.do = "define" /\ s.part = p /\ s.table = t /\ s.name = n
      /\ LET s == RemoveItem(p, t, n) IN s.do = "remove" /\ s.part = p /\ s.table = t /\ s.name = n
  BY DEF DefineItem, RemoveItem
<1>2. SoundDiff(AddItem(p, t, n, v)) /\ SoundDiff(DropItem(p, t, n, v))
  BY ItemsOneByOne DEF OneItem
<1>3. /\ AddItem(p, t, n, v).forward = <<DefineItem(p, t, n, v)>> /\ AddItem(p, t, n, v).backward = <<RemoveItem(p, t, n)>>
      /\ DropItem(p, t, n, v).forward = <<RemoveItem(p, t, n)>> /\ DropItem(p, t, n, v).backward = <<DefineItem(p, t, n, v)>>
  BY DEF AddItem, DropItem, Diff
<1>4. p \in {"fields", "indexes", "events"}
  OBVIOUS
<1>. QED
  BY <1>1, <1>2, <1>3, <1>4, TwoOnItem

\* The diff of permissions is all about permissions.
LEMMA PermissionsOnly ==
  ASSUME NEW t, NEW A, NEW B, Named(A), Named(B)
  PROVE  PermitDiff(ModifyPermissions(t, A, B), t)
<1>. DEFINE x == ModifyPermissions(t, A, B)
<1>1. x.forward = Permit(t, B) /\ x.backward = Permit(t, A)
  BY DEF ModifyPermissions, Diff
<1>. HIDE DEF x
<1>2. /\ Proper(x.forward) /\ Proper(x.backward)
      /\ \A s \in ToSet(x.forward) \union ToSet(x.backward) : s.do = "permit" /\ s.table = t
  BY <1>1, PermitMembers
<1>3. SoundDiff(x)
  BY <1>2 DEF SoundDiff, IsStatement
<1>4. InOrder(x.forward) /\ InOrder(x.backward)
  BY <1>2, PrecedesMembers, NeverTooLate DEF InOrder
<1>5. Neat(x)
  BY <1>2, <1>4 DEF Neat, Fills
<1>. QED
  BY <1>2, <1>3, <1>5 DEF PermitDiff, x

\* One list of diffs after another, each diff of the first clear of those of the second.
LEMMA LaidConcat ==
  ASSUME NEW L, NEW K, Proper(L), Proper(K), Laid(L), Laid(K),
         \A x \in ToSet(L), y \in ToSet(K) : Clear(x, y)
  PROVE  Laid(L \o K)
<1>1. ToSet(L \o K) = ToSet(L) \union ToSet(K)
  BY ConcatMembers
<1>2. ASSUME NEW x, NEW y, Precedes(L \o K, x, y) PROVE Clear(x, y)
  <2>1. Precedes(L, x, y) \/ Precedes(K, x, y) \/ (x \in ToSet(L) /\ y \in ToSet(K))
    BY <1>2, ConcatOrder
  <2>. QED
    BY <2>1 DEF Laid
<1>. QED
  BY <1>1, <1>2 DEF Laid

\* A list of one diff or none.
LEMMA LaidAlone ==
  /\ Laid(<<>>)
  /\ \A x : SoundDiff(x) /\ Neat(x) => Laid(<<x>>)
BY OneMember, NoMember, AloneInOrder DEF Laid

\* The list is in order, and each diff in it about one item of the parts Q.
PartsLaid(L, Q, t) ==
  /\ Proper(L) /\ Laid(L)
  /\ \A x \in ToSet(L) : \E p \in Q : \E n : ItemDiff(x, p, t, n)

\* Diffs of different items, each once, are in order.
LEMMA ItemsLaid ==
  ASSUME NEW L, NEW T, NEW h, Listed(L, T, h), NEW p, NEW t, \A n \in T : ItemDiff(h[n], p, t, n)
  PROVE  PartsLaid(L, {p}, t)
<1>1. \A x \in ToSet(L) : \E n : ItemDiff(x, p, t, n)
  BY DEF Listed
<1>2. ASSUME NEW x, NEW y, Precedes(L, x, y) PROVE Clear(x, y)
  <2>1. PICK n, m \in T : n # m /\ x = h[n] /\ y = h[m]
    BY <1>2 DEF Listed
  <2>2. ItemDiff(x, p, t, n) /\ ItemDiff(y, p, t, m) /\ ~(p = p /\ n = m)
    BY <2>1
  <2>. QED
    BY ONLY <2>2, DiffsApart
<1>3. \A x \in ToSet(L) : SoundDiff(x) /\ Neat(x)
  BY <1>1 DEF ItemDiff
<1>. QED
  BY <1>1, <1>2, <1>3 DEF PartsLaid, Listed, Laid

\* What comes, goes and changes, one after the other.
LEMMA ThreeListed ==
  ASSUME NEW f, NEW g, NEW k, NEW h,
         \A e \in {f, g, k} : DOMAIN e \in SUBSET Nat /\ IsFiniteSet(DOMAIN e) /\ \A n \in DOMAIN e : e[n] = h[n],
         \A n \in DOMAIN f : n \notin DOMAIN g /\ n \notin DOMAIN k,
         \A n \in DOMAIN g : n \notin DOMAIN k
  PROVE  /\ Listed(Each(f) \o Each(g), DOMAIN f \union DOMAIN g, h)
         /\ Listed((Each(f) \o Each(g)) \o Each(k), (DOMAIN f \union DOMAIN g) \union DOMAIN k, h)
<1>1. Listed(Each(f), DOMAIN f, h) /\ Listed(Each(g), DOMAIN g, h) /\ Listed(Each(k), DOMAIN k, h)
  <2>1. \A e \in {f, g, k} : Listed(Each(e), DOMAIN e, h)
    BY EachListed, ListedAs
  <2>. QED
    BY <2>1
<1>2. Listed(Each(f) \o Each(g), DOMAIN f \union DOMAIN g, h)
  BY <1>1, ListedConcat
<1>. QED
  BY <1>1, <1>2, ListedConcat

\* The diffs of the fields of a table are in order (DiffFields).
LEMMA FieldsLaid ==
  ASSUME NEW t, NEW A, NEW B, Named(A), Named(B)
  PROVE  PartsLaid(DiffFields(t, A, B), {"fields"}, t)
<1>. DEFINE f == [n \in Added(A, B) |-> AddField(t, n, B[n])]
            g == [n \in Added(B, A) |-> DropField(t, n, A[n])]
            k == [n \in Changed(A, B) |-> ModifyField(t, n, A[n], B[n])]
            T == (DOMAIN f \union DOMAIN g) \union DOMAIN k
            h == [n \in T |-> IF n \in Added(A, B) THEN AddField(t, n, B[n])
                              ELSE IF n \in Added(B, A) THEN DropField(t, n, A[n])
                              ELSE ModifyField(t, n, A[n], B[n])]
<1>1. /\ DOMAIN f = Added(A, B) /\ \A n \in DOMAIN f : f[n] = AddField(t, n, B[n])
      /\ DOMAIN g = Added(B, A) /\ \A n \in DOMAIN g : g[n] = DropField(t, n, A[n])
      /\ DOMAIN k = Changed(A, B) /\ \A n \in DOMAIN k : k[n] = ModifyField(t, n, A[n], B[n])
  OBVIOUS
<1>2. DiffFields(t, A, B) = (Each(f) \o Each(g)) \o Each(k)
  BY DEF DiffFields
<1>3. \A n \in Added(A, B) : n \notin Added(B, A) /\ n \notin Changed(A, B)
  BY DEF Added, Changed
<1>4. \A n \in Added(B, A) : n \notin Changed(A, B)
  BY DEF Added, Changed
<1>. HIDE DEF f, g, k
<1>5. \A e \in {f, g, k} : DOMAIN e \in SUBSET Nat /\ IsFiniteSet(DOMAIN e)
  BY <1>1, NamesThatDiffer
<1>6. \A e \in {f, g, k} : \A n \in DOMAIN e : e[n] = h[n]
  BY <1>1, <1>3, <1>4
<1>7. \A n \in T : ItemDiff(h[n], "fields", t, n)
  BY <1>1, FieldsOnItem
<1>. HIDE DEF h
<1>8. Listed((Each(f) \o Each(g)) \o Each(k), T, h)
  BY <1>1, <1>3, <1>4, <1>5, <1>6, ThreeListed
<1>. HIDE DEF T
<1>. QED
  BY <1>2, <1>7, <1>8, ItemsLaid

\* The diffs of its indexes or events are in order (DiffIndexes, DiffEvents).
LEMMA IndexesLaid ==
  ASSUME NEW p \in {"indexes", "events"}, NEW t, NEW A, NEW B, Named(A), Named(B)
  PROVE  PartsLaid(DiffItems(p, t, A, B), {p}, t)
<1>. DEFINE f == [n \in Added(A, B) |-> AddItem(p, t, n, B[n])]
            g == [n \in Added(B, A) |-> DropItem(p, t, n, A[n])]
            T == DOMAIN f \union DOMAIN g
            h == [n \in T |-> IF n \in Added(A, B) THEN AddItem(p, t, n, B[n]) ELSE DropItem(p, t, n, A[n])]
<1>1. /\ DOMAIN f = Added(A, B) /\ \A n \in DOMAIN f : f[n] = AddItem(p, t, n, B[n])
      /\ DOMAIN g = Added(B, A) /\ \A n \in DOMAIN g : g[n] = DropItem(p, t, n, A[n])
  OBVIOUS
<1>2. DiffItems(p, t, A, B) = Each(f) \o Each(g)
  BY DEF DiffItems
<1>3. \A n \in Added(A, B) : n \notin Added(B, A)
  BY DEF Added
<1>. HIDE DEF f, g
<1>4. \A e \in {f, g} : DOMAIN e \in SUBSET Nat /\ IsFiniteSet(DOMAIN e)
  BY <1>1, NamesThatDiffer
<1>5. \A e \in {f, g} : \A n \in DOMAIN e : e[n] = h[n]
  BY <1>1, <1>3
<1>6. \A n \in T : ItemDiff(h[n], p, t, n)
  BY <1>1, ItemsOnItem
<1>. HIDE DEF h
<1>7. Listed(Each(f), DOMAIN f, h) /\ Listed(Each(g), DOMAIN g, h)
  <2>1. \A e \in {f, g} : Listed(Each(e), DOMAIN e, h)
    BY <1>4, <1>5, EachListed, ListedAs
  <2>. QED
    BY <2>1
<1>8. Listed(Each(f) \o Each(g), T, h)
  BY <1>1, <1>3, <1>7, ListedConcat
<1>. HIDE DEF T
<1>. QED
  BY <1>2, <1>6, <1>8, ItemsLaid

\* Lists about different parts of a table, one after the other.
LEMMA PartsConcat ==
  ASSUME NEW L, NEW K, NEW Q, NEW R, NEW t, PartsLaid(L, Q, t), PartsLaid(K, R, t), \A p \in Q : p \notin R
  PROVE  PartsLaid(L \o K, Q \union R, t)
<1>1. Proper(L \o K) /\ ToSet(L \o K) = ToSet(L) \union ToSet(K)
  BY ConcatMembers DEF PartsLaid
<1>2. ASSUME NEW x \in ToSet(L), NEW y \in ToSet(K) PROVE Clear(x, y)
  <2>1. PICK p \in Q : \E n : ItemDiff(x, p, t, n)
    BY DEF PartsLaid
  <2>2. PICK q \in R : \E n : ItemDiff(y, q, t, n)
    BY DEF PartsLaid
  <2>3. p # q
    OBVIOUS
  <2>. QED
    BY <2>1, <2>2, <2>3, DiffsApart
<1>3. Laid(L \o K)
  BY <1>2, LaidConcat DEF PartsLaid
<1>. QED
  BY <1>1, <1>3 DEF PartsLaid

\* The list is in order, and all about the table.
TableLaid(L, t) ==
  /\ Proper(L) /\ Laid(L)
  /\ \A x \in ToSet(L) : \A s \in ToSet(x.forward) \union ToSet(x.backward) : About(s, t)

\* The diff is about something in a table.
WithinTable(x, t) == PermitDiff(x, t) \/ \E p, n : ItemDiff(x, p, t, n)

\* A statement about something in a table is about the table.
LEMMA WithinIsAbout ==
  ASSUME NEW x, NEW t, WithinTable(x, t), NEW s \in ToSet(x.forward) \union ToSet(x.backward)
  PROVE  About(s, t) /\ ~Defines(s, t) /\ ~Drops(s, t)
BY DEF WithinTable, PermitDiff, ItemDiff, OnItem, About, Defines, Drops

\* Diffs in a table, then the diff of its permissions.
LEMMA WithPermissions ==
  ASSUME NEW L, NEW Q, NEW t, PartsLaid(L, Q, t), NEW A, NEW B, Named(A), Named(B)
  PROVE  LET K == L \o DiffPermissions(t, A, B) IN
         Proper(K) /\ Laid(K) /\ \A x \in ToSet(K) : WithinTable(x, t)
<1>. DEFINE R == DiffPermissions(t, A, B)
<1>1. /\ Proper(R) /\ Laid(R) /\ \A x \in ToSet(R) : PermitDiff(x, t)
  <2>1. PermitDiff(ModifyPermissions(t, A, B), t)
    BY PermissionsOnly
  <2>2. CASE A = B
    BY <2>2, LaidAlone, NoMember DEF DiffPermissions
  <2>3. CASE A # B
    BY <2>1, <2>3, LaidAlone, OneMember DEF DiffPermissions, PermitDiff
  <2>. QED
    BY <2>2, <2>3
<1>. HIDE DEF R
<1>2. Proper(L) /\ Laid(L) /\ \A x \in ToSet(L) : \E p, n : ItemDiff(x, p, t, n)
  BY DEF PartsLaid
<1>3. Proper(L \o R) /\ ToSet(L \o R) = ToSet(L) \union ToSet(R)
  BY <1>1, <1>2, ConcatMembers
<1>4. \A x \in ToSet(L), y \in ToSet(R) : Clear(x, y)
  BY <1>1, <1>2, DiffsApart
<1>5. Laid(L \o R)
  BY <1>1, <1>2, <1>4, LaidConcat
<1>. QED
  BY <1>1, <1>2, <1>3, <1>5 DEF R, WithinTable

\* A list in order, all within a table, is all about it.
LEMMA WithinLaid ==
  ASSUME NEW L, NEW t, Proper(L), Laid(L), \A x \in ToSet(L) : WithinTable(x, t)
  PROVE  TableLaid(L, t)
BY WithinIsAbout DEF TableLaid

\* First the table, then what is in it; on the way back the other way round.
LEMMA TableFirst ==
  ASSUME NEW L, NEW t, Proper(L), Laid(L), \A x \in ToSet(L) : WithinTable(x, t), NEW def
  PROVE  TableLaid(<<AddTable(t, def)>> \o L, t)
<1>. DEFINE x == AddTable(t, def)  there == DefineTable(t, def.mode)  back == RemoveTable(t)
<1>1. /\ there.do = "define table" /\ IsStatement(there) /\ About(there, t)
      /\ back.do = "remove table" /\ IsStatement(back) /\ About(back, t)
  BY TableStatements
<1>2. x.forward = <<there>> /\ x.backward = <<back>>
  BY DEF AddTable, Diff
<1>. HIDE DEF x, there, back
<1>3. /\ Proper(x.forward) /\ ToSet(x.forward) = {there}
      /\ Proper(x.backward) /\ ToSet(x.backward) = {back}
  BY <1>2, OneMember
<1>4. Neat(x)
  BY <1>1, <1>2, TwoNeat
<1>5. SoundDiff(x)
  BY <1>1, <1>3 DEF SoundDiff
<1>6. Proper(<<x>>) /\ ToSet(<<x>>) = {x} /\ Laid(<<x>>)
  BY <1>4, <1>5, OneMember, LaidAlone
<1>7. ASSUME NEW y \in ToSet(L) PROVE Clear(x, y)
  <2>1. \A s \in ToSet(y.forward) \union ToSet(y.backward) : About(s, t) /\ ~Defines(s, t) /\ ~Drops(s, t)
    BY WithinIsAbout
  <2>2. \A s : About(s, t) /\ ~Defines(s, t) => ~TooLate(there, s)
    BY <1>1 DEF TooLate, Drops, About, Defines, Erases, Fills, Writes, Unstores, OfBucket
  <2>3. \A s : About(s, t) /\ ~Drops(s, t) => ~TooLate(s, back)
    BY <1>1 DEF TooLate, Drops, About, Defines, Erases, Fills, Writes, Unstores, OfBucket
  <2>. QED
    BY <1>3, <2>1, <2>2, <2>3 DEF Clear
<1>8. Laid(<<x>> \o L)
  BY <1>6, <1>7, LaidConcat
<1>9. Proper(<<x>> \o L) /\ ToSet(<<x>> \o L) = {x} \union ToSet(L)
  BY <1>6, ConcatMembers
<1>10. \A y \in ToSet(L) : \A s \in ToSet(y.forward) \union ToSet(y.backward) : About(s, t)
  BY WithinIsAbout
<1>11. TableLaid(<<x>> \o L, t)
  BY <1>1, <1>3, <1>8, <1>9, <1>10 DEF TableLaid
<1>. QED
  BY <1>11 DEF x

\* The diffs of the fields, then of the indexes, then of the events are in order.
LEMMA ContentsLaid ==
  ASSUME NEW t, NEW A, NEW B,
         \A p \in {"fields", "indexes", "events"} : Named(A[p]) /\ Named(B[p])
  PROVE  LET L == (DiffFields(t, A.fields, B.fields) \o DiffItems("indexes", t, A.indexes, B.indexes))
                    \o DiffItems("events", t, A.events, B.events)
         IN  PartsLaid(L, ({"fields"} \union {"indexes"}) \union {"events"}, t)
<1>. DEFINE f == DiffFields(t, A.fields, B.fields)
            i == DiffItems("indexes", t, A.indexes, B.indexes)
            e == DiffItems("events", t, A.events, B.events)
<1>1. /\ Named(A.fields) /\ Named(B.fields) /\ Named(A.indexes) /\ Named(B.indexes)
      /\ Named(A.events) /\ Named(B.events)
  OBVIOUS
<1>2. PartsLaid(f, {"fields"}, t)
  BY <1>1, FieldsLaid
<1>3. PartsLaid(i, {"indexes"}, t)
  BY <1>1, IndexesLaid
<1>4. PartsLaid(e, {"events"}, t)
  BY <1>1, IndexesLaid
<1>. HIDE DEF f, i, e
<1>5. PartsLaid(f \o i, {"fields"} \union {"indexes"}, t)
  <2>1. \A p \in {"fields"} : p \notin {"indexes"}
    OBVIOUS
  <2>. QED
    BY ONLY <1>2, <1>3, <2>1, PartsConcat
<1>6. PartsLaid((f \o i) \o e, ({"fields"} \union {"indexes"}) \union {"events"}, t)
  <2>1. \A p \in {"fields"} \union {"indexes"} : p \notin {"events"}
    OBVIOUS
  <2>. QED
    BY ONLY <1>4, <1>5, <2>1, PartsConcat
<1>. QED
  BY <1>6 DEF f, i, e

\* The diffs of a table that both schemas have are in order (ModifyTable).
LEMMA ChangedTableLaid ==
  ASSUME NEW t, NEW A, NEW B, \A p \in Parts : Named(A[p]) /\ Named(B[p])
  PROVE  TableLaid(ModifyTable(t, A, B), t)
<1>. DEFINE L == (DiffFields(t, A.fields, B.fields) \o DiffItems("indexes", t, A.indexes, B.indexes))
                   \o DiffItems("events", t, A.events, B.events)
            Q == ({"fields"} \union {"indexes"}) \union {"events"}
            K == L \o DiffPermissions(t, A.permissions, B.permissions)
<1>1. ModifyTable(t, A, B) = K
  BY DEF ModifyTable
<1>2. PartsLaid(L, Q, t)
  BY ContentsLaid DEF Parts
<1>3. Named(A.permissions) /\ Named(B.permissions)
  BY DEF Parts
<1>. HIDE DEF L, Q
<1>4. Proper(K) /\ Laid(K) /\ \A x \in ToSet(K) : WithinTable(x, t)
  BY ONLY <1>2, <1>3, WithPermissions
<1>. HIDE DEF K
<1>. QED
  BY <1>1, <1>4, WithinLaid

\* The diffs of a table or edge that comes are in order: the table, then its parts.
LEMMA NewTableLaid ==
  ASSUME NEW t, NEW def, \A p \in Parts : Named(def[p])
  PROVE  TableLaid(AddTableDiffs(t, def), t) /\ TableLaid(AddEdgeDiffs(t, def), t)
<1>. DEFINE a == <<AddTable(t, def)>>  c == Contents(t, def)  r == DiffPermissions(t, Nothing, def.permissions)
            Q == ({"fields"} \union {"indexes"}) \union {"events"}
<1>1. Named(Nothing) /\ Named(def.permissions)
  BY EmptyParts DEF Parts
<1>2. PartsLaid(c, Q, t)
  <2>. DEFINE A == EmptyTable(NoText)
  <2>1. \A p \in {"fields", "indexes", "events"} : Named(A[p]) /\ Named(def[p])
    BY EmptyParts DEF Parts
  <2>2. A.fields = Nothing /\ A.indexes = Nothing /\ A.events = Nothing
    BY DEF EmptyTable
  <2>3. c = (DiffFields(t, A.fields, def.fields) \o DiffItems("indexes", t, A.indexes, def.indexes))
              \o DiffItems("events", t, A.events, def.events)
    BY <2>2 DEF Contents
  <2>. HIDE DEF A, c, Q
  <2>. QED
    BY <2>1, <2>3, ContentsLaid DEF Q
<1>3. AddEdgeDiffs(t, def) = a \o c /\ AddTableDiffs(t, def) = (a \o c) \o r
  BY DEF AddEdgeDiffs, AddTableDiffs
<1>4. Proper(r) /\ Proper(c)
  BY ContentLists
<1>. HIDE DEF c, Q
<1>5. Proper(c \o r) /\ Laid(c \o r) /\ \A x \in ToSet(c \o r) : WithinTable(x, t)
  BY ONLY <1>1, <1>2, WithPermissions
<1>6. Proper(c) /\ Laid(c) /\ \A x \in ToSet(c) : WithinTable(x, t)
  BY <1>2 DEF PartsLaid, WithinTable
<1>. HIDE DEF r
<1>7. TableLaid(a \o c, t) /\ TableLaid(a \o (c \o r), t)
  BY ONLY <1>5, <1>6, TableFirst
<1>8. (a \o c) \o r = a \o (c \o r)
  <2>. DEFINE S == (ToSet(a) \union ToSet(c)) \union ToSet(r)
  <2>1. a \in Seq(S) /\ c \in Seq(S) /\ r \in Seq(S)
    BY <1>4, OneMember DEF Proper, ToSet
  <2>. HIDE DEF S, a
  <2>. QED
    BY <2>1, ConcatAssociative
<1>. QED
  BY <1>3, <1>7, <1>8

\* The diff of a table or edge that goes is in order.
LEMMA OldTableLaid ==
  ASSUME NEW t, NEW def
  PROVE  TableLaid(<<DropTable(t, def)>>, t) /\ TableLaid(<<DropEdge(t)>>, t)
<1>. DEFINE there == RemoveTable(t)  back == DefineTable(t, def.mode)
<1>1. /\ there.do = "remove table" /\ IsStatement(there) /\ About(there, t)
      /\ back.do = "define table" /\ IsStatement(back) /\ About(back, t)
  BY TableStatements
<1>2. /\ DropTable(t, def).forward = <<there>> /\ DropTable(t, def).backward = <<back>>
      /\ DropEdge(t).forward = <<there>> /\ DropEdge(t).backward = <<>>
  BY DEF DropTable, DropEdge, Diff
<1>. HIDE DEF there, back
<1>3. ASSUME NEW x, x.forward = <<there>>, x.backward = <<back>> \/ x.backward = <<>>
      PROVE  TableLaid(<<x>>, t)
  <2>1. /\ Proper(x.forward) /\ ToSet(x.forward) = {there}
        /\ Proper(x.backward) /\ ToSet(x.backward) \subseteq {back}
    BY <1>3, OneMember, NoMember
  <2>2. SoundDiff(x)
    BY <1>1, <2>1 DEF SoundDiff
  <2>3. Neat(x)
    BY <1>1, <1>3, TwoNeat
  <2>4. Proper(<<x>>) /\ ToSet(<<x>>) = {x} /\ Laid(<<x>>)
    BY <2>2, <2>3, OneMember, LaidAlone
  <2>5. \A s \in ToSet(x.forward) \union ToSet(x.backward) : About(s, t)
    BY <1>1, <2>1
  <2>. HIDE DEF About
  <2>6. \A y \in ToSet(<<x>>) : y = x
    BY ONLY <2>4
  <2>. QED
    BY <2>4, <2>5, <2>6 DEF TableLaid
<1>. QED
  BY <1>2, <1>3

\* The diffs made for one table or edge, as a list.
TableList(C, D, t) ==
  IF t \in Names(C)
  THEN IF t \in Names(D) THEN ModifyTable(t, Of(C, t), Of(D, t))
       ELSE IF t \in DOMAIN C.tables THEN <<DropTable(t, C.tables[t])>> ELSE <<DropEdge(t)>>
  ELSE IF t \in DOMAIN D.tables THEN AddTableDiffs(t, Of(D, t)) ELSE AddEdgeDiffs(t, Of(D, t))

\* Whatever becomes of a table, its diffs are in order.
LEMMA TableInOrder ==
  ASSUME NEW C, NEW D, Alike(C, D), NEW t, t \in Names(C) \/ t \in Names(D)
  PROVE  TableLaid(TableList(C, D, t), t)
<1>1. /\ t \in Names(C) => \A p \in Parts : Named(Of(C, t)[p])
      /\ t \in Names(D) => \A p \in Parts : Named(Of(D, t)[p])
  BY DEF Alike, IsSchema
<1>2. CASE t \in Names(C) /\ t \in Names(D)
  BY <1>1, <1>2, ChangedTableLaid DEF TableList
<1>3. CASE t \in Names(C) /\ t \notin Names(D)
  BY <1>3, OldTableLaid DEF TableList
<1>4. CASE t \notin Names(C) /\ t \in Names(D)
  BY <1>1, <1>4, NewTableLaid DEF TableList
<1>. QED
  BY <1>2, <1>3, <1>4

\* The diffs of the buckets are in order (diffBucketSets).
LEMMA BucketsLaid ==
  ASSUME NEW A, NEW B, Buckets(A), Buckets(B)
  PROVE  /\ Proper(DiffBuckets(A, B)) /\ Laid(DiffBuckets(A, B))
         /\ \A x \in ToSet(DiffBuckets(A, B)) : \A s \in ToSet(x.forward) \union ToSet(x.backward) : OfBucket(s)
<1>. DEFINE f == [b \in Added(A, B) |-> AddBucket(b, B[b])]
            g == [b \in Added(B, A) |-> DropBucket(b, A[b])]
            k == [b \in Changed(A, B) |-> ModifyBucket(b, A[b], B[b])]
            T == (DOMAIN f \union DOMAIN g) \union DOMAIN k
            h == [b \in T |-> IF b \in Added(A, B) THEN AddBucket(b, B[b])
                              ELSE IF b \in Added(B, A) THEN DropBucket(b, A[b])
                              ELSE ModifyBucket(b, A[b], B[b])]
            L == DiffBuckets(A, B)
<1>1. /\ DOMAIN f = Added(A, B) /\ \A b \in DOMAIN f : f[b] = AddBucket(b, B[b])
      /\ DOMAIN g = Added(B, A) /\ \A b \in DOMAIN g : g[b] = DropBucket(b, A[b])
      /\ DOMAIN k = Changed(A, B) /\ \A b \in DOMAIN k : k[b] = ModifyBucket(b, A[b], B[b])
  OBVIOUS
<1>2. L = (Each(f) \o Each(g)) \o Each(k)
  BY DEF DiffBuckets
<1>3. \A b \in Added(A, B) : b \notin Added(B, A) /\ b \notin Changed(A, B)
  BY DEF Added, Changed
<1>4. \A b \in Added(B, A) : b \notin Changed(A, B)
  BY DEF Added, Changed
<1>. HIDE DEF f, g, k
<1>5. \A e \in {f, g, k} : DOMAIN e \in SUBSET Nat /\ IsFiniteSet(DOMAIN e)
  BY <1>1, NamesThatDiffer DEF Buckets
<1>6. \A e \in {f, g, k} : \A b \in DOMAIN e : e[b] = h[b]
  BY <1>1, <1>3, <1>4
<1>. DEFINE Pair(x, b, u, v) == /\ x.forward = <<u>> /\ x.backward = <<v>>
                                 /\ OfBucket(u) /\ u.bucket = b /\ OfBucket(v) /\ v.bucket = b
<1>7. ASSUME NEW b, NEW v, NEW w
      PROVE  /\ AddBucket(b, v).forward = <<DefineBucket(b, v)>> /\ AddBucket(b, v).backward = <<RemoveBucket(b)>>
             /\ DropBucket(b, v).forward = <<RemoveBucket(b)>> /\ DropBucket(b, v).backward = <<DefineBucket(b, v)>>
             /\ ModifyBucket(b, v, w).forward = <<AlterBucket(b, v, w)>>
             /\ ModifyBucket(b, v, w).backward = <<AlterBucket(b, w, v)>>
  BY DEF AddBucket, DropBucket, ModifyBucket, Diff
<1>8. ASSUME NEW b, NEW v, NEW w
      PROVE  /\ OfBucket(DefineBucket(b, v)) /\ DefineBucket(b, v).bucket = b
             /\ OfBucket(RemoveBucket(b)) /\ RemoveBucket(b).bucket = b
             /\ OfBucket(AlterBucket(b, v, w)) /\ AlterBucket(b, v, w).bucket = b
  BY DEF DefineBucket, RemoveBucket, AlterBucket, OfBucket
<1>9. ASSUME NEW b \in T PROVE \E u, v : Pair(h[b], b, u, v)
  <2>1. \/ \E v : h[b] = AddBucket(b, v)
        \/ \E v : h[b] = DropBucket(b, v)
        \/ \E v, w : h[b] = ModifyBucket(b, v, w)
    OBVIOUS
  <2>. HIDE DEF h, T
  <2>2. ASSUME NEW v, h[b] = AddBucket(b, v) PROVE Pair(h[b], b, DefineBucket(b, v), RemoveBucket(b))
    BY <1>7, <1>8, <2>2
  <2>3. ASSUME NEW v, h[b] = DropBucket(b, v) PROVE Pair(h[b], b, RemoveBucket(b), DefineBucket(b, v))
    BY <1>7, <1>8, <2>3
  <2>4. ASSUME NEW v, NEW w, h[b] = ModifyBucket(b, v, w) PROVE Pair(h[b], b, AlterBucket(b, v, w), AlterBucket(b, w, v))
    BY <1>7, <1>8, <2>4
  <2>. HIDE DEF Pair
  <2>. QED
    BY <2>1, <2>2, <2>3, <2>4
<1>10. /\ Proper(L) /\ \A x \in ToSet(L) : SoundDiff(x)
  BY BucketsPlanned
<1>. HIDE DEF h
<1>11. Listed(L, T, h)
  BY <1>1, <1>2, <1>3, <1>4, <1>5, <1>6, ThreeListed
<1>. HIDE DEF T, L
<1>12. \A x \in ToSet(L) : \A b \in T : x = h[b] => BucketDiff(x, b)
  <2>. SUFFICES ASSUME NEW x \in ToSet(L), NEW b \in T, x = h[b] PROVE BucketDiff(x, b)
    OBVIOUS
  <2>1. PICK u, v : Pair(x, b, u, v)
    BY <1>9
  <2>2. ToSet(x.forward) = {u} /\ ToSet(x.backward) = {v}
    BY <2>1, OneMember
  <2>3. Neat(x)
    BY <2>1, TwoNeat DEF OfBucket
  <2>. QED
    BY <1>10, <2>1, <2>2, <2>3 DEF BucketDiff
<1>13. ASSUME NEW x, NEW y, Precedes(L, x, y) PROVE Clear(x, y)
  <2>1. PICK b, c \in T : b # c /\ x = h[b] /\ y = h[c]
    BY <1>11, <1>13 DEF Listed
  <2>2. x \in ToSet(L) /\ y \in ToSet(L)
    BY <1>10, <1>13, PrecedesMembers
  <2>3. BucketDiff(x, b) /\ BucketDiff(y, c) /\ b # c
    BY <1>12, <2>1, <2>2
  <2>. QED
    BY ONLY <2>3, DiffsApart
<1>14. \A x \in ToSet(L) : \E b : BucketDiff(x, b)
  BY <1>11, <1>12 DEF Listed
<1>15. Proper(L) /\ Laid(L) /\ \A x \in ToSet(L) : \A s \in ToSet(x.forward) \union ToSet(x.backward) : OfBucket(s)
  BY <1>10, <1>13, <1>14 DEF Laid, BucketDiff
<1>. QED
  BY <1>15 DEF L

\* Diffs of different tables, and of tables and buckets, are clear of each other.
LEMMA TablesApart ==
  ASSUME NEW x, NEW y, NEW t, \A s \in ToSet(x.forward) \union ToSet(x.backward) : About(s, t)
  PROVE  /\ \A r : t # r /\ (\A s \in ToSet(y.forward) \union ToSet(y.backward) : About(s, r)) => Clear(x, y)
         /\ (\A s \in ToSet(y.forward) \union ToSet(y.backward) : OfBucket(s)) => Clear(x, y)
<1>1. ASSUME NEW r, t # r, \A s \in ToSet(y.forward) \union ToSet(y.backward) : About(s, r) PROVE Clear(x, y)
  <2>1. \A u, v : About(u, t) /\ About(v, r) => ~TooLate(u, v) /\ ~TooLate(v, u)
    BY <1>1, NeverTooLate
  <2>. QED
    BY <1>1, <2>1 DEF Clear
<1>2. ASSUME \A s \in ToSet(y.forward) \union ToSet(y.backward) : OfBucket(s) PROVE Clear(x, y)
  <2>1. \A u, v : About(u, t) /\ OfBucket(v) => ~TooLate(u, v) /\ ~TooLate(v, u)
    BY NeverTooLate
  <2>. QED
    BY <1>2, <2>1 DEF Clear
<1>. QED
  BY <1>1, <1>2

\* Lists for different tables, and one for the buckets after them, strung together in order.
LEMMA StrungLaid ==
  ASSUME NEW G, NEW T, NEW h, Listed(G, T, h), \A t \in T : TableLaid(h[t], t),
         NEW last, Proper(last), Laid(last),
         \A x \in ToSet(last) : \A s \in ToSet(x.forward) \union ToSet(x.backward) : OfBucket(s)
  PROVE  Laid(FlattenSeq(G \o <<last>>))
<1>. DEFINE ss == G \o <<last>>  L == FlattenSeq(ss)
<1>1. Proper(G) /\ \A g \in ToSet(G) : \E t \in T : g = h[t]
  BY DEF Listed
<1>2. Proper(<<last>>) /\ ToSet(<<last>>) = {last}
  BY OneMember
<1>3. Proper(ss) /\ ToSet(ss) = ToSet(G) \union {last}
  BY <1>1, <1>2, ConcatMembers
<1>. HIDE DEF ss
<1>4. \A l \in ToSet(ss) : Proper(l) /\ Laid(l)
  BY <1>1, <1>3 DEF TableLaid
<1>5. Proper(L) /\ ToSet(L) = UNION {ToSet(l) : l \in ToSet(ss)}
  BY <1>3, <1>4, FlattenMembers
<1>. HIDE DEF L
<1>6. \A x \in ToSet(L) : SoundDiff(x) /\ Neat(x)
  <2>1. \A x \in ToSet(L) : \E l \in ToSet(ss) : x \in ToSet(l)
    BY <1>5
  <2>. QED
    BY <1>4, <2>1 DEF Laid
<1>7. ASSUME NEW x, NEW y, Precedes(L, x, y) PROVE Clear(x, y)
  <2>1. \/ \E l \in ToSet(ss) : Precedes(l, x, y)
        \/ \E k, l : Precedes(ss, k, l) /\ x \in ToSet(k) /\ y \in ToSet(l)
    BY <1>3, <1>4, <1>7, FlattenOrder DEF L
  <2>2. ASSUME NEW l \in ToSet(ss), Precedes(l, x, y) PROVE Clear(x, y)
    BY <1>4, <2>2 DEF Laid
  <2>3. ASSUME NEW k, NEW l, Precedes(ss, k, l), x \in ToSet(k), y \in ToSet(l) PROVE Clear(x, y)
    <3>1. Precedes(G, k, l) \/ Precedes(<<last>>, k, l) \/ (k \in ToSet(G) /\ l \in ToSet(<<last>>))
      BY <1>1, <1>2, <2>3, ConcatOrder DEF ss
    <3>2. ASSUME Precedes(G, k, l) PROVE Clear(x, y)
      <4>1. PICK t, r \in T : t # r /\ k = h[t] /\ l = h[r]
        BY <3>2 DEF Listed
      <4>2. /\ \A s \in ToSet(x.forward) \union ToSet(x.backward) : About(s, t)
            /\ \A s \in ToSet(y.forward) \union ToSet(y.backward) : About(s, r)
        BY <2>3, <4>1 DEF TableLaid
      <4>. QED
        BY ONLY <4>1, <4>2, TablesApart
    <3>3. ASSUME k \in ToSet(G), l = last PROVE Clear(x, y)
      <4>1. PICK t \in T : k = h[t]
        BY <1>1, <3>3
      <4>2. /\ \A s \in ToSet(x.forward) \union ToSet(x.backward) : About(s, t)
            /\ \A s \in ToSet(y.forward) \union ToSet(y.backward) : OfBucket(s)
        BY <2>3, <3>3, <4>1 DEF TableLaid
      <4>. QED
        BY ONLY <4>2, TablesApart
    <3>. QED
      BY <1>2, <3>1, <3>2, <3>3, AloneInOrder
  <2>. QED
    BY <2>1, <2>2, <2>3
<1>8. Laid(L)
  BY <1>6, <1>7 DEF Laid
<1>. QED
  BY <1>8 DEF L, ss

\* Six lists for different names, one after the other.
LEMMA SixListed ==
  ASSUME NEW f1, NEW f2, NEW f3, NEW f4, NEW f5, NEW f6, NEW h,
         \A f \in {f1, f2, f3, f4, f5, f6} :
            DOMAIN f \in SUBSET Nat /\ IsFiniteSet(DOMAIN f) /\ \A t \in DOMAIN f : f[t] = h[t],
         \A t \in DOMAIN f1 : t \notin DOMAIN f2 /\ t \notin DOMAIN f3 /\ t \notin DOMAIN f4
                              /\ t \notin DOMAIN f5 /\ t \notin DOMAIN f6,
         \A t \in DOMAIN f2 : t \notin DOMAIN f3 /\ t \notin DOMAIN f4 /\ t \notin DOMAIN f5 /\ t \notin DOMAIN f6,
         \A t \in DOMAIN f3 : t \notin DOMAIN f4 /\ t \notin DOMAIN f5 /\ t \notin DOMAIN f6,
         \A t \in DOMAIN f4 : t \notin DOMAIN f5 /\ t \notin DOMAIN f6,
         \A t \in DOMAIN f5 : t \notin DOMAIN f6
  PROVE  Listed(Each(f1) \o Each(f2) \o Each(f3) \o Each(f4) \o Each(f5) \o Each(f6),
                DOMAIN f1 \union DOMAIN f2 \union DOMAIN f3 \union DOMAIN f4 \union DOMAIN f5 \union DOMAIN f6, h)
<1>. DEFINE e1 == Each(f1)  e2 == Each(f2)  e3 == Each(f3)  e4 == Each(f4)  e5 == Each(f5)  e6 == Each(f6)
            d1 == DOMAIN f1  d2 == DOMAIN f2  d3 == DOMAIN f3  d4 == DOMAIN f4  d5 == DOMAIN f5  d6 == DOMAIN f6
<1>1. \A f \in {f1, f2, f3, f4, f5, f6} : Listed(Each(f), DOMAIN f, h)
  BY EachListed, ListedAs
<1>2. Listed(e1, d1, h) /\ Listed(e2, d2, h) /\ Listed(e3, d3, h) /\ Listed(e4, d4, h) /\ Listed(e5, d5, h) /\ Listed(e6, d6, h)
  BY <1>1
<1>3. /\ \A t \in d1 : t \notin d2
      /\ \A t \in d1 \union d2 : t \notin d3
      /\ \A t \in d1 \union d2 \union d3 : t \notin d4
      /\ \A t \in d1 \union d2 \union d3 \union d4 : t \notin d5
      /\ \A t \in d1 \union d2 \union d3 \union d4 \union d5 : t \notin d6
  OBVIOUS
<1>. HIDE DEF e1, e2, e3, e4, e5, e6, d1, d2, d3, d4, d5, d6
<1>4. Listed(e1 \o e2, d1 \union d2, h)
  BY ONLY <1>2, <1>3, ListedConcat
<1>5. Listed(e1 \o e2 \o e3, d1 \union d2 \union d3, h)
  BY ONLY <1>2, <1>3, <1>4, ListedConcat
<1>6. Listed(e1 \o e2 \o e3 \o e4, d1 \union d2 \union d3 \union d4, h)
  BY ONLY <1>2, <1>3, <1>5, ListedConcat
<1>7. Listed(e1 \o e2 \o e3 \o e4 \o e5, d1 \union d2 \union d3 \union d4 \union d5, h)
  BY ONLY <1>2, <1>3, <1>6, ListedConcat
<1>8. Listed(e1 \o e2 \o e3 \o e4 \o e5 \o e6, d1 \union d2 \union d3 \union d4 \union d5 \union d6, h)
  BY ONLY <1>2, <1>3, <1>7, ListedConcat
<1>. QED
  BY <1>8 DEF e1, e2, e3, e4, e5, e6, d1, d2, d3, d4, d5, d6

\* The diffs of two schemas are in order (DiffSchemas).
LEMMA SchemasLaid ==
  ASSUME NEW C, NEW D, Alike(C, D)
  PROVE  Laid(DiffSchemas(D, C))
<1>. DEFINE f1 == [t \in Added(C.tables, D.tables) |-> AddTableDiffs(t, D.tables[t])]
            f2 == [t \in Added(D.tables, C.tables) |-> <<DropTable(t, C.tables[t])>>]
            f3 == [t \in DOMAIN C.tables \intersect DOMAIN D.tables |-> ModifyTable(t, C.tables[t], D.tables[t])]
            f4 == [t \in Added(C.edges, D.edges) |-> AddEdgeDiffs(t, D.edges[t])]
            f5 == [t \in Added(D.edges, C.edges) |-> <<DropEdge(t)>>]
            f6 == [t \in DOMAIN C.edges \intersect DOMAIN D.edges |-> ModifyTable(t, C.edges[t], D.edges[t])]
            last == DiffBuckets(C.buckets, D.buckets)
            F == {f1, f2, f3, f4, f5, f6}
            U == Names(C) \union Names(D)
            h == [t \in U |-> TableList(C, D, t)]
            G == Each(f1) \o Each(f2) \o Each(f3) \o Each(f4) \o Each(f5) \o Each(f6)
            T == DOMAIN f1 \union DOMAIN f2 \union DOMAIN f3 \union DOMAIN f4 \union DOMAIN f5 \union DOMAIN f6
<1>1. DiffSchemas(D, C) = FlattenSeq(G \o <<last>>)
  BY DEF DiffSchemas
<1>2. /\ Proper(last) /\ Laid(last)
      /\ \A x \in ToSet(last) : \A s \in ToSet(x.forward) \union ToSet(x.backward) : OfBucket(s)
  <2>1. Buckets(C.buckets) /\ Buckets(D.buckets)
    BY DEF Alike, IsSchema
  <2>. QED
    BY <2>1, BucketsLaid
<1>3. /\ DOMAIN f1 = Added(C.tables, D.tables) /\ \A t \in DOMAIN f1 : f1[t] = AddTableDiffs(t, D.tables[t])
      /\ DOMAIN f2 = Added(D.tables, C.tables) /\ \A t \in DOMAIN f2 : f2[t] = <<DropTable(t, C.tables[t])>>
      /\ DOMAIN f3 = DOMAIN C.tables \intersect DOMAIN D.tables
      /\ \A t \in DOMAIN f3 : f3[t] = ModifyTable(t, C.tables[t], D.tables[t])
      /\ DOMAIN f4 = Added(C.edges, D.edges) /\ \A t \in DOMAIN f4 : f4[t] = AddEdgeDiffs(t, D.edges[t])
      /\ DOMAIN f5 = Added(D.edges, C.edges) /\ \A t \in DOMAIN f5 : f5[t] = <<DropEdge(t)>>
      /\ DOMAIN f6 = DOMAIN C.edges \intersect DOMAIN D.edges
      /\ \A t \in DOMAIN f6 : f6[t] = ModifyTable(t, C.edges[t], D.edges[t])
  OBVIOUS
<1>. HIDE DEF f1, f2, f3, f4, f5, f6, last
<1>4. \A f \in F : DOMAIN f \in SUBSET Nat /\ IsFiniteSet(DOMAIN f)
  <2>1. /\ Named(C.tables) /\ Named(D.tables) /\ Named(C.edges) /\ Named(D.edges)
    BY DEF Alike, IsSchema
  <2>2. \A S, R : S \in SUBSET Nat /\ IsFiniteSet(S) => S \intersect R \in SUBSET Nat /\ IsFiniteSet(S \intersect R)
    BY FS_Subset
  <2>3. /\ DOMAIN f3 \in SUBSET Nat /\ IsFiniteSet(DOMAIN f3)
        /\ DOMAIN f6 \in SUBSET Nat /\ IsFiniteSet(DOMAIN f6)
    BY <1>3, <2>1, <2>2 DEF Named
  <2>. QED
    BY <1>3, <2>1, <2>3, NamesThatDiffer
<1>5. /\ \A t \in DOMAIN C.tables : t \in Names(C) /\ Of(C, t) = C.tables[t] /\ t \notin DOMAIN C.edges /\ t \notin DOMAIN D.edges
      /\ \A t \in DOMAIN D.tables : t \in Names(D) /\ Of(D, t) = D.tables[t] /\ t \notin DOMAIN C.edges /\ t \notin DOMAIN D.edges
      /\ \A t \in DOMAIN C.edges : t \in Names(C) /\ Of(C, t) = C.edges[t] /\ t \notin DOMAIN C.tables /\ t \notin DOMAIN D.tables
      /\ \A t \in DOMAIN D.edges : t \in Names(D) /\ Of(D, t) = D.edges[t] /\ t \notin DOMAIN C.tables /\ t \notin DOMAIN D.tables
  BY DEF Names, Of, Alike
<1>6. /\ \A t : t \in Names(C) <=> t \in DOMAIN C.tables \/ t \in DOMAIN C.edges
      /\ \A t : t \in Names(D) <=> t \in DOMAIN D.tables \/ t \in DOMAIN D.edges
      /\ \A t : t \in U <=> t \in Names(C) \/ t \in Names(D)
  BY DEF Names
<1>7. \A t \in U : h[t] = TableList(C, D, t)
  OBVIOUS
<1>. HIDE DEF U, h
<1>8. /\ \A t \in DOMAIN f1 : t \in U /\ f1[t] = TableList(C, D, t)
      /\ \A t \in DOMAIN f2 : t \in U /\ f2[t] = TableList(C, D, t)
      /\ \A t \in DOMAIN f3 : t \in U /\ f3[t] = TableList(C, D, t)
  BY <1>3, <1>5, <1>6 DEF Added, TableList
<1>9. /\ \A t \in DOMAIN f4 : t \in U /\ f4[t] = TableList(C, D, t)
      /\ \A t \in DOMAIN f5 : t \in U /\ f5[t] = TableList(C, D, t)
      /\ \A t \in DOMAIN f6 : t \in U /\ f6[t] = TableList(C, D, t)
  BY <1>3, <1>5, <1>6 DEF Added, TableList
<1>10. \A f \in F : \A t \in DOMAIN f : t \in U /\ f[t] = h[t]
  BY <1>7, <1>8, <1>9
<1>11. Listed(G, T, h)
  <2>1. /\ \A t \in DOMAIN f1 : t \notin DOMAIN f2 /\ t \notin DOMAIN f3 /\ t \notin DOMAIN f4
                                /\ t \notin DOMAIN f5 /\ t \notin DOMAIN f6
        /\ \A t \in DOMAIN f2 : t \notin DOMAIN f3 /\ t \notin DOMAIN f4 /\ t \notin DOMAIN f5 /\ t \notin DOMAIN f6
        /\ \A t \in DOMAIN f3 : t \notin DOMAIN f4 /\ t \notin DOMAIN f5 /\ t \notin DOMAIN f6
        /\ \A t \in DOMAIN f4 : t \notin DOMAIN f5 /\ t \notin DOMAIN f6
        /\ \A t \in DOMAIN f5 : t \notin DOMAIN f6
    BY <1>3, <1>5 DEF Added
  <2>. QED
    BY ONLY <1>4, <1>10, <2>1, SixListed
<1>12. \A t \in T : t \in U
  BY <1>8, <1>9
<1>13. \A t \in T : TableLaid(h[t], t)
  BY <1>6, <1>7, <1>12, TableInOrder
<1>. HIDE DEF G, T
<1>. QED
  BY <1>1, <1>2, <1>11, <1>13, StrungLaid

-----------------------------------------------------------------------------
(* Every statement finds what it works on.                                 *)

\* What the statement s works on is in the schema C, or a statement of V brings it.
Founded(s, V, C) ==
  /\ \A t : About(s, t) /\ ~Defines(s, t) => t \in Names(C) \/ SomeDefines(V, t)
  /\ \A p, t, n : Erases(s, p, t, n) => t \in Names(C) /\ p \in Content /\ n \in DOMAIN Of(C, t)[p]
  /\ \A t, n : Fills(s, t, n) => SomeWrites(V, "fields", t, n) /\ ~SomeErases(V, "fields", t, n)
  /\ OfBucket(s) /\ s.do # "define bucket" => s.bucket \in DOMAIN C.buckets

\* In a database that follows the schema, what is in the schema is there.
LEMMA FoundedIsGrounded ==
  ASSUME NEW s, NEW V, NEW C, NEW d, Founded(s, V, C), SchemaFollowed(d, C, {}), BucketsFollowed(d, C.buckets)
  PROVE  Grounded(s, V, d)
<1>1. \A t : t \in Names(C) => t \in DOMAIN d.tables
  BY DEF SchemaFollowed
<1>2. ASSUME NEW p, NEW t, NEW n, Erases(s, p, t, n) PROVE Has(d, p, t, n)
  <2>1. t \in Names(C) /\ p \in Content /\ n \in DOMAIN Of(C, t)[p]
    BY <1>2 DEF Founded
  <2>2. p \in Fresh(C, t)
    BY <2>1 DEF Fresh, Content
  <2>3. PartFollows(d, p, t, Of(C, t)[p])
    BY <2>1, <2>2 DEF SchemaFollowed
  <2>. QED
    BY <2>1, <2>3 DEF PartFollows
<1>3. OfBucket(s) /\ s.do # "define bucket" => s.bucket \in DOMAIN d.buckets
  BY DEF Founded, BucketsFollowed
<1>. QED
  BY <1>1, <1>2, <1>3 DEF Founded, Grounded

\* A table that goes is only dropped, and only defined on the way back; one that comes is taken
\* apart on the way back as it was made.
LEMMA TablesFounded ==
  ASSUME NEW C, NEW D, Alike(C, D), NEW t, t \in Names(C) \/ t \in Names(D)
  PROVE  LET E == TableDiffs(C, D, t) IN
         /\ t \notin Names(D) => /\ \A s \in Forward(E) : Drops(s, t)
                                 /\ \A s \in Backward(E) : Defines(s, t)
         /\ t \notin Names(C) => \A s \in Backward(E) : \A p \in Content : \A n :
                                   Erases(s, p, t, n) => n \in DOMAIN Of(D, t)[p]
<1>. DEFINE E == TableDiffs(C, D, t)  new == Of(D, t)
<1>1. ASSUME t \notin Names(D)
      PROVE  (\A s \in Forward(E) : Drops(s, t)) /\ (\A s \in Backward(E) : Defines(s, t))
  <2>. DEFINE x == IF t \in DOMAIN C.tables THEN DropTable(t, C.tables[t]) ELSE DropEdge(t)
              m == C.tables[t].mode
  <2>1. E = {x}
    BY <1>1 DEF TableDiffs
  <2>2. /\ x.forward = <<RemoveTable(t)>>
        /\ x.backward = <<DefineTable(t, m)>> \/ x.backward = <<>>
    BY DEF DropTable, DropEdge, Diff
  <2>. HIDE DEF x, m, E
  <2>3. ToSet(x.forward) = {RemoveTable(t)} /\ ToSet(x.backward) \subseteq {DefineTable(t, m)}
    BY <2>2, OneMember, NoMember
  <2>4. (\A s \in Forward(E) : s = RemoveTable(t)) /\ (\A s \in Backward(E) : s = DefineTable(t, m))
    BY <2>1, <2>3 DEF Forward, Backward
  <2>5. Drops(RemoveTable(t), t) /\ Defines(DefineTable(t, m), t)
    BY TableStatements
  <2>. QED
    BY ONLY <2>4, <2>5
<1>2. ASSUME t \notin Names(C), NEW s \in Backward(E), NEW p \in Content, NEW n, Erases(s, p, t, n)
      PROVE  n \in DOMAIN new[p]
  <2>. DEFINE none == EmptyTable(NoText)  F == ContentDiffs(Fresh(D, t), t, none, new)  x == AddTable(t, new)
  <2>1. E = {x} \union F
    BY <1>2 DEF TableDiffs
  <2>2. x.backward = <<RemoveTable(t)>>
    BY DEF AddTable, Diff
  <2>3. Fresh(D, t) \in SUBSET Parts /\ p \in Fresh(D, t)
    BY DEF Fresh, Content
  <2>4. \A q \in Parts : Named(new[q])
    BY <1>2 DEF Alike, IsSchema
  <2>. HIDE DEF none, F, x, new, E
  <2>5. \A q \in Parts : none[q] = Nothing /\ Named(none[q]) /\ Named(new[q])
    BY <2>4, EmptyParts DEF none
  <2>6. ContentPlanned(F, Fresh(D, t), t, none, new)
    BY <2>3, <2>5, ContentsPlanned DEF F
  <2>7. ItemPlan(Backward(F), p, t, new[p], none[p])
    BY <2>3, <2>6 DEF ContentPlanned
  <2>8. ToSet(x.backward) = {RemoveTable(t)}
    BY <2>2, OneMember
  <2>9. s \in Backward(F) \/ s = RemoveTable(t)
    BY <1>2, <2>1, <2>8 DEF Backward
  <2>10. s # RemoveTable(t)
    <3>1. RemoveTable(t).do = "remove table" /\ s.do = "remove"
      BY <1>2, TableStatements DEF Erases
    <3>. QED
      BY <3>1
  <2>11. SomeErases(Backward(F), p, t, n)
    BY <1>2, <2>9, <2>10 DEF SomeErases
  <2>. QED
    BY <2>7, <2>11 DEF ItemPlan
<1>. QED
  BY <1>1, <1>2

\* A statement that takes something out takes out a field, an index or an event.
LEMMA ErasesContent ==
  ASSUME NEW s, IsStatement(s), NEW p, NEW t, NEW n, Erases(s, p, t, n)
  PROVE  p \in Content
BY DEF IsStatement, Erases, Content, Parts

\* A statement is about a bucket that is there, but for one that defines it.
LEMMA BucketsFounded ==
  ASSUME NEW W, NEW A, NEW B, BucketStatements(W, A, B), NEW s \in W, s.do # "define bucket"
  PROVE  s.bucket \in DOMAIN A
<1>1. ASSUME NEW b, NEW v PROVE DefineBucket(b, v).do = "define bucket"
  BY DEF DefineBucket
<1>2. ASSUME NEW b PROVE RemoveBucket(b).bucket = b
  BY DEF RemoveBucket
<1>3. ASSUME NEW b, NEW v, NEW w PROVE AlterBucket(b, v, w).bucket = b
  BY DEF AlterBucket
<1>4. \/ \E b \in Added(A, B) : s = DefineBucket(b, B[b])
      \/ \E b \in Added(B, A) : s = RemoveBucket(b)
      \/ \E b \in Changed(A, B) : s = AlterBucket(b, A[b], B[b])
  BY DEF BucketStatements
<1>5. s.bucket \in Added(B, A) \/ s.bucket \in Changed(A, B)
  <2>1. ASSUME NEW b \in Added(A, B), s = DefineBucket(b, B[b]) PROVE FALSE
    BY <1>1, <2>1
  <2>2. ASSUME NEW b \in Added(B, A), s = RemoveBucket(b) PROVE s.bucket \in Added(B, A)
    BY <1>2, <2>2
  <2>3. ASSUME NEW b \in Changed(A, B), s = AlterBucket(b, A[b], B[b]) PROVE s.bucket \in Changed(A, B)
    BY <1>3, <2>3
  <2>. QED
    BY <1>4, <2>1, <2>2, <2>3
<1>. QED
  BY <1>5 DEF Added, Changed

\* The statements of the diffs of two schemas find what they work on, there and back.
LEMMA SchemasFounded ==
  ASSUME NEW C, NEW D, Alike(C, D)
  PROVE  LET X == ToSet(DiffSchemas(D, C)) IN
         /\ \A s \in Forward(X) : Founded(s, Forward(X), C)
         /\ \A s \in Backward(X) : Founded(s, Backward(X), D)
<1>. DEFINE X == ToSet(DiffSchemas(D, C))  E(t) == TableDiffs(C, D, t)
            K == ToSet(DiffBuckets(C.buckets, D.buckets))
            T == Names(C) \union Names(D)
<1>1. \A x : x \in X <=> (\E t \in T : x \in E(t)) \/ x \in K
  BY SchemasDiffed
<1>2. \A t \in T : \A s \in Forward(E(t)) \union Backward(E(t)) : About(s, t)
  BY TablesPlanned
<1>3. /\ \A s \in Forward(K) \union Backward(K) : OfBucket(s)
      /\ BucketStatements(Forward(K), C.buckets, D.buckets) /\ BucketStatements(Backward(K), D.buckets, C.buckets)
  BY BucketsPlanned DEF Alike, IsSchema
<1>4. /\ SchemaPlan(Forward(X), C, D) /\ \A t : NewTablePlan(Forward(X), C, D, t)
      /\ SchemaPlan(Backward(X), D, C)
  BY SchemasPlanned
<1>5. \A x \in X : Neat(x)
  BY SchemasLaid DEF Laid
<1>6. \A t \in T : t \notin Names(D) => /\ \A s \in Forward(E(t)) : Drops(s, t)
                                        /\ \A s \in Backward(E(t)) : Defines(s, t)
  BY TablesFounded
<1>7. \A t \in T : t \notin Names(C) => \A s \in Backward(E(t)) : \A p \in Content : \A n :
                                          Erases(s, p, t, n) => n \in DOMAIN Of(D, t)[p]
  BY TablesFounded
<1>8. \A t : t \in T <=> t \in Names(C) \/ t \in Names(D)
  OBVIOUS
<1>. HIDE DEF X, E, K, T
<1>9. /\ \A s : s \in Forward(X) <=> (\E t \in T : s \in Forward(E(t))) \/ s \in Forward(K)
      /\ \A s : s \in Backward(X) <=> (\E t \in T : s \in Backward(E(t))) \/ s \in Backward(K)
  BY <1>1 DEF Forward, Backward
<1>10. \A s \in Forward(X) : \A t : About(s, t) => t \in T /\ s \in Forward(E(t))
  BY <1>2, <1>3, <1>9, WhatIsAbout
<1>11. \A s \in Backward(X) : \A t : About(s, t) => t \in T /\ s \in Backward(E(t))
  BY <1>2, <1>3, <1>9, WhatIsAbout
<1>12. \A s \in Forward(X) : OfBucket(s) => s \in Forward(K)
  BY <1>2, <1>9, WhatIsAbout
<1>13. \A s \in Backward(X) : OfBucket(s) => s \in Backward(K)
  BY <1>2, <1>9, WhatIsAbout
<1>14. ASSUME NEW s \in Forward(X) PROVE Founded(s, Forward(X), C)
  <2>1. ASSUME NEW t, About(s, t), ~Defines(s, t) PROVE t \in Names(C) \/ SomeDefines(Forward(X), t)
    BY <1>4, <1>8, <1>10, <2>1 DEF NewTablePlan
  <2>2. ASSUME NEW p, NEW t, NEW n, Erases(s, p, t, n)
        PROVE  t \in Names(C) /\ p \in Content /\ n \in DOMAIN Of(C, t)[p]
    <3>1. p \in Content /\ p \in Parts /\ p \in Fresh(D, t)
      BY <1>4, <2>2, ErasesContent DEF SchemaPlan, Content, Fresh
    <3>2. t \in T /\ s \in Forward(E(t))
      BY <1>10, <2>2, WhatIsAbout
    <3>3. t \in Names(D)
      BY <1>6, <2>2, <3>2 DEF Drops, Erases
    <3>4. SomeErases(Forward(X), p, t, n)
      BY <2>2 DEF SomeErases
    <3>5. t \in Names(C)
      <4>1. ASSUME t \notin Names(C) PROVE FALSE
        <5>1. ItemPlan(Forward(X), p, t, Nothing, Of(D, t)[p])
          BY <1>4, <3>1, <3>3, <4>1 DEF NewTablePlan
        <5>2. DOMAIN Nothing = {}
          BY DEF Nothing
        <5>. QED
          BY <3>4, <5>1, <5>2 DEF ItemPlan
      <4>. QED
        BY <4>1
    <3>6. ItemPlan(Forward(X), p, t, Of(C, t)[p], Of(D, t)[p])
      BY <1>4, <3>1, <3>3, <3>5 DEF SchemaPlan, TablePlan
    <3>. QED
      BY <3>1, <3>4, <3>5, <3>6 DEF ItemPlan
  <2>3. ASSUME NEW t, NEW n, Fills(s, t, n)
        PROVE  SomeWrites(Forward(X), "fields", t, n) /\ ~SomeErases(Forward(X), "fields", t, n)
    <3>1. SomeWrites(Forward(X), "fields", t, n)
      <4>1. PICK x \in X : s \in ToSet(x.forward)
        BY DEF Forward
      <4>2. PICK w \in ToSet(x.forward) : Writes(w, "fields", t, n)
        BY <1>5, <2>3, <4>1 DEF Neat
      <4>. QED
        BY <4>2 DEF SomeWrites, Forward
    <3>2. t \in T /\ s \in Forward(E(t))
      BY <1>10, <2>3 DEF About, Fills
    <3>3. t \in Names(D)
      BY <1>6, <2>3, <3>2 DEF Drops, Fills
    <3>4. "fields" \in Parts /\ "fields" \in Fresh(D, t)
      BY DEF Parts, Fresh, Content
    <3>5. \E A, B : ItemPlan(Forward(X), "fields", t, A, B)
      BY <1>4, <3>3, <3>4 DEF SchemaPlan, TablePlan, NewTablePlan
    <3>6. PICK A, B : ItemPlan(Forward(X), "fields", t, A, B)
      BY <3>5
    <3>. QED
      BY <3>1, <3>6 DEF ItemPlan, SomeWrites
  <2>4. OfBucket(s) /\ s.do # "define bucket" => s.bucket \in DOMAIN C.buckets
    BY <1>3, <1>12, BucketsFounded
  <2>. QED
    BY <2>1, <2>2, <2>3, <2>4 DEF Founded
<1>15. ASSUME NEW s \in Backward(X) PROVE Founded(s, Backward(X), D)
  <2>1. ASSUME NEW t, About(s, t), ~Defines(s, t) PROVE t \in Names(D) \/ SomeDefines(Backward(X), t)
    BY <1>6, <1>11, <2>1
  <2>2. ASSUME NEW p, NEW t, NEW n, Erases(s, p, t, n)
        PROVE  t \in Names(D) /\ p \in Content /\ n \in DOMAIN Of(D, t)[p]
    <3>1. p \in Content /\ p \in Parts
      BY <1>4, <2>2, ErasesContent DEF SchemaPlan, Content
    <3>2. t \in T /\ s \in Backward(E(t))
      BY <1>11, <2>2, WhatIsAbout
    <3>3. t \in Names(D)
      BY <1>6, <2>2, <3>2 DEF Defines, Erases
    <3>4. SomeErases(Backward(X), p, t, n)
      BY <2>2 DEF SomeErases
    <3>5. CASE t \notin Names(C)
      BY <1>7, <2>2, <3>1, <3>2, <3>3, <3>5
    <3>6. CASE t \in Names(C)
      <4>1. ItemPlan(Backward(X), p, t, Of(D, t)[p], Of(C, t)[p])
        BY <1>4, <3>1, <3>3, <3>6 DEF SchemaPlan, TablePlan
      <4>. QED
        BY <3>1, <3>3, <3>4, <4>1 DEF ItemPlan
    <3>. QED
      BY <3>5, <3>6
  <2>3. ASSUME NEW t, NEW n, Fills(s, t, n) PROVE FALSE
    BY <1>5, <2>3 DEF Backward, Neat, Fills
  <2>4. OfBucket(s) /\ s.do # "define bucket" => s.bucket \in DOMAIN D.buckets
    BY <1>3, <1>13, BucketsFounded
  <2>. QED
    BY <2>1, <2>2, <2>3, <2>4 DEF Founded
<1>. QED
  BY <1>14, <1>15 DEF X

-----------------------------------------------------------------------------
(* A generated migration runs.                                             *)

\* A script that no semicolon broke has no fragment in it.
LEMMA UnbrokenWhole ==
  ASSUME NEW stmts, Proper(stmts), Unbroken(stmts)
  PROVE  Fragment \notin ToSet(stmts)
<1>1. DOMAIN stmts = 1..Len(stmts) /\ \A x : x \in ToSet(stmts) <=> \E i \in 1..Len(stmts) : stmts[i] = x
  BY Properness
<1>2. Fragment.do = "fragment"
  BY DEF Fragment
<1>. QED
  BY <1>1, <1>2 DEF Unbroken

\* The scripts between two schemas run in a database that follows the one they start from.
LEMMA ScriptsRun ==
  ASSUME NEW C \in Schemas, NEW D \in Schemas, NEW d, IsDatabase(d)
  PROVE  LET L == DiffSchemas(D, C) IN
         /\ SchemaFollowed(d, C, {}) /\ BucketsFollowed(d, C.buckets) /\ Unbroken(Up(L)) => RunAll(Up(L), d) # Failed
         /\ SchemaFollowed(d, D, {}) /\ BucketsFollowed(d, D.buckets) /\ Unbroken(Down(L)) => RunAll(Down(L), d) # Failed
<1>. DEFINE L == DiffSchemas(D, C)  X == ToSet(L)
<1>1. Alike(C, D)
  BY SchemasAlike
<1>2. /\ Proper(L) /\ \A x \in X : SoundDiff(x)
      /\ SchemaPlan(Forward(X), C, D) /\ SchemaPlan(Backward(X), D, C)
  BY <1>1, SchemasPlanned
<1>3. Laid(L)
  BY <1>1, SchemasLaid
<1>4. /\ \A s \in Forward(X) : Founded(s, Forward(X), C)
      /\ \A s \in Backward(X) : Founded(s, Backward(X), D)
  BY <1>1, SchemasFounded
<1>. HIDE DEF X
<1>. HIDE DEF L
<1>5. /\ Proper(Up(L)) /\ (Fragment \notin ToSet(Up(L)) => ToSet(Up(L)) = Forward(X))
      /\ Proper(Down(L)) /\ (Fragment \notin ToSet(Down(L)) => ToSet(Down(L)) = Backward(X))
  BY <1>2, Scripts DEF X
<1>6. /\ Fragment \notin ToSet(Up(L)) => InOrder(Up(L))
      /\ Fragment \notin ToSet(Down(L)) => InOrder(Down(L))
  BY <1>2, <1>3, ScriptsInOrder
<1>7. ASSUME SchemaFollowed(d, C, {}), BucketsFollowed(d, C.buckets), Unbroken(Up(L)) PROVE RunAll(Up(L), d) # Failed
  <2>1. Fragment \notin ToSet(Up(L))
    BY <1>5, <1>7, UnbrokenWhole
  <2>2. InOrder(Up(L)) /\ ToSet(Up(L)) = Forward(X)
    BY <1>5, <1>6, <2>1
  <2>3. \A s \in ToSet(Up(L)) : IsStatement(s) /\ Grounded(s, ToSet(Up(L)), d)
    BY <1>2, <1>4, <1>7, <2>2, FoundedIsGrounded DEF SchemaPlan
  <2>. QED
    BY <1>5, <2>2, <2>3, RunsThrough
<1>8. ASSUME SchemaFollowed(d, D, {}), BucketsFollowed(d, D.buckets), Unbroken(Down(L)) PROVE RunAll(Down(L), d) # Failed
  <2>1. Fragment \notin ToSet(Down(L))
    BY <1>5, <1>8, UnbrokenWhole
  <2>2. InOrder(Down(L)) /\ ToSet(Down(L)) = Backward(X)
    BY <1>5, <1>6, <2>1
  <2>3. \A s \in ToSet(Down(L)) : IsStatement(s) /\ Grounded(s, ToSet(Down(L)), d)
    BY <1>2, <1>4, <1>8, <2>2, FoundedIsGrounded DEF SchemaPlan
  <2>. QED
    BY <1>5, <2>2, <2>3, RunsThrough
<1>. QED
  BY <1>7, <1>8 DEF L

\* The invariant says that what was generated runs.
LEMMA EvolvedRuns == Evolved => PlanRuns
<1>. SUFFICES ASSUME Evolved PROVE PlanRuns
  OBVIOUS
<1>1. at \in Schemas /\ IsDatabase(db) /\ SchemaFollowed(db, at, hollow) /\ BucketsFollowed(db, at.buckets)
  BY DEF Evolved
<1>2. ASSUME phase = "generated", hollow = {}, Unbroken(file.up) PROVE RunAll(file.up, db) # Failed
  <2>1. /\ file.from = at /\ file.to \in Schemas
        /\ file.up = Up(DiffSchemas(file.to, file.from))
    BY <1>2 DEF Evolved, FileStands
  <2>. QED
    BY <1>1, <1>2, <2>1, ScriptsRun
<1>3. ASSUME phase = "migrated", hollow = {}, Unbroken(file.down) PROVE RunAll(file.down, db) # Failed
  <2>1. /\ file.to = at /\ file.from \in Schemas
        /\ file.down = Down(DiffSchemas(file.to, file.from))
    BY <1>3 DEF Evolved, FileStands, Ran
  <2>. QED
    BY <1>1, <1>3, <2>1, ScriptsRun
<1>. QED
  BY <1>2, <1>3 DEF PlanRuns

\* A generated migration runs, up and down: whatever was edited, migrated and rolled back
\* before, each statement of the file finds the table, the definition or the bucket it works
\* on, in the order the file has them, unless a semicolon in a definition broke a statement
\* or a table came back hollow (DiffSchemas, GenerateMigrationFromDiffs).
THEOREM MigrationsRun == EvolutionSpec => []PlanRuns
<1>1. Evolved /\ [EvolutionNext]_evolutionVars => Evolved'
  BY EvolvedStep
<1>. QED
  BY <1>1, EvolvedInit, EvolvedRuns, PTL DEF EvolutionSpec
=============================================================================
