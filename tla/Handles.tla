------------------------------- MODULE Handles -------------------------------
(***************************************************************************)
(* What programs hold of one client beside the client itself: live queries  *)
(* with their manager, sessions and interactive transactions                *)
(* (src/pkg/surql/connection/streaming.go, streaming_manager.go,            *)
(* session.go, transaction.go).  Goroutines share the handles; the client   *)
(* is disconnected and connected anew at any time.                          *)
(*                                                                         *)
(* The three kinds are opened and closed by an RPC each, and differ in what *)
(* their locks cover: a live query keeps its lock over the KILL, a          *)
(* transaction over COMMIT and CANCEL, a session not over the detach.       *)
(***************************************************************************)
EXTENDS Integers, FiniteSets

CONSTANTS
  Caller,               \* goroutines
  Live, Session, Tx,    \* handles by kind
  Conn,                 \* connections, dialled anew when nothing refers to them
  Program,              \* sets of handles a program may use
  NoConn, Nobody,
  MaxFaults             \* RPCs that fail or whose answer is lost

Handle == Live \union Session \union Tx

ASSUME HandlesAssumption ==
  /\ Live \intersect Session = {} /\ Live \intersect Tx = {} /\ Session \intersect Tx = {}
  /\ Program \subseteq SUBSET Handle
  /\ NoConn \notin Conn /\ Nobody \notin Caller /\ MaxFaults \in Nat

VARIABLES
  used,      \* the handles this program uses
  conn,      \* the client's connection
  alive,     \* connections open at the server
  local,     \* "new" | "open" | "closed" | "committed" | "rolled_back" | "failed"
  token,     \* sessions with a cached token
  lock,      \* who holds a handle's mutex across an RPC
  home,      \* the connection a handle was opened on
  server,    \* at the server: "none" | "open" | "gone"
  tracked,   \* the manager's live queries
  pc,        \* "idle" | "open" | "subscribe" | "track" | "close" | "kill" |
             \* "detach" | "committed" | "rolled_back" (being finalised) |
             \* "query" | "signin" | "store"
  todo,      \* handles a call works on
  via,       \* the connection it uses
  faults,
  \* history
  closes,    \* closing RPCs sent for a handle
  given,     \* handles whose RPC failed, or was sent to another connection
  late       \* sessions that stored a token when detached already

clients == <<used, conn, alive>>
handles == <<local, token, lock, home, server, tracked>>
calls == <<pc, todo, via>>
history == <<faults, closes, given, late>>
vars == <<clients, handles, calls, history>>

Verbs == {"committed", "rolled_back"}

Init ==
  /\ used \in Program
  /\ conn = NoConn /\ alive = {}
  /\ local = [h \in Handle |-> "new"] /\ token = {} /\ lock = [h \in Handle |-> Nobody]
  /\ home = [h \in Handle |-> NoConn] /\ server = [h \in Handle |-> "none"]
  /\ tracked = {}
  /\ pc = [c \in Caller |-> "idle"] /\ todo = [c \in Caller |-> {}]
  /\ via = [c \in Caller |-> NoConn]
  /\ faults = 0 /\ closes = [h \in Handle |-> 0] /\ given = {} /\ late = {}

\* The handle an action of c works on: any that is left to do.
At(c, place) == pc[c] = place
Goto(c, place, hs, x) ==
  /\ pc' = [pc EXCEPT ![c] = place]
  /\ todo' = [todo EXCEPT ![c] = hs]
  /\ via' = [via EXCEPT ![c] = x]
Return(c) == Goto(c, "idle", {}, NoConn)
Fault == faults < MaxFaults /\ faults' = faults + 1
Serves(h) == server[h] = "open" /\ home[h] \in alive

(***************************************************************************)
(* The client, whose own calls are the subject of Connections.              *)
(***************************************************************************)
Connect ==
  /\ conn = NoConn
  /\ \E x \in Conn \ (alive \union {home[h] : h \in Handle} \union {via[c] : c \in Caller}) :
       conn' = x /\ alive' = alive \union {x}
  /\ UNCHANGED <<used, handles, calls, history>>

Disconnect ==
  /\ conn # NoConn
  /\ conn' = NoConn
  /\ UNCHANGED <<used, alive, handles, calls, history>>

\* The second half of Disconnect; with the connection all it carries ends.
CloseConnection ==
  /\ \E x \in alive \ {conn} : alive' = alive \ {x}
  /\ UNCHANGED <<used, conn, handles, calls, history>>

(***************************************************************************)
(* Spawn, Attach, Begin                                                     *)
(***************************************************************************)
Open(c, h) ==
  /\ At(c, "idle") /\ conn # NoConn
  /\ h \in used /\ local[h] = "new" /\ \A d \in Caller : h \notin todo[d]
  /\ Goto(c, "open", {h}, conn)
  /\ UNCHANGED <<clients, handles, history>>

\* The answer of LIVE SELECT, ATTACH or BEGIN.
Opened(c) ==
  \E h \in todo[c] :
    /\ At(c, "open") /\ via[c] \in alive
    /\ server' = [server EXCEPT ![h] = "open"]
    /\ home' = [home EXCEPT ![h] = via[c]]
    /\ \/ h \in Live /\ Goto(c, "subscribe", {h}, via[c]) /\ UNCHANGED local
       \/ h \notin Live /\ local' = [local EXCEPT ![h] = "open"] /\ Return(c)
    /\ UNCHANGED <<clients, token, lock, tracked, history>>

OpenFails(c) ==
  \E h \in todo[c] :
    /\ At(c, "open")
    /\ \/ via[c] \notin alive /\ UNCHANGED <<server, home, given, faults>>
       \/ Fault /\ UNCHANGED <<server, home, given>>
       \/ Fault /\ via[c] \in alive
          /\ server' = [server EXCEPT ![h] = "open"] /\ home' = [home EXCEPT ![h] = via[c]]
          /\ given' = given \union {h}
    /\ local' = [local EXCEPT ![h] = "failed"]
    /\ Return(c)
    /\ UNCHANGED <<clients, token, lock, tracked, closes, late>>

\* The notification channel; without one the query is killed at once.
Subscribe(c) ==
  \E h \in todo[c] :
    /\ At(c, "subscribe")
    /\ local' = [local EXCEPT ![h] = "open"]
    /\ Goto(c, "track", {h}, via[c])
    /\ UNCHANGED <<clients, token, lock, home, server, tracked, history>>

\* A mutant of SubscribeFails: the query is left at the server.
SubscribeFailsOnly(c) ==
  \E h \in todo[c] :
    /\ At(c, "subscribe") /\ (Fault \/ (via[c] \notin alive /\ UNCHANGED faults))
    /\ local' = [local EXCEPT ![h] = "failed"]
    /\ Return(c)
    /\ UNCHANGED <<clients, token, lock, home, server, tracked, closes, given, late>>

SubscribeFails(c) ==
  \E h \in todo[c] :
    /\ At(c, "subscribe") /\ (Fault \/ (via[c] \notin alive /\ UNCHANGED faults))
    /\ \/ server' = [server EXCEPT ![h] = "gone"] /\ UNCHANGED given
       \/ given' = given \union {h} /\ UNCHANGED server
    /\ closes' = [closes EXCEPT ![h] = @ + 1]
    /\ local' = [local EXCEPT ![h] = "failed"]
    /\ Return(c)
    /\ UNCHANGED <<clients, token, lock, home, tracked, late>>

\* The critical section at the end of Spawn.
Track(c) ==
  /\ At(c, "track")
  /\ tracked' = tracked \union todo[c]
  /\ Return(c)
  /\ UNCHANGED <<clients, local, token, lock, home, server, history>>

(***************************************************************************)
(* Kill, DrainAll, LiveQuery.Close                                          *)
(***************************************************************************)
Kill(c, h) ==
  /\ At(c, "idle") /\ h \in tracked
  /\ tracked' = tracked \ {h}
  /\ Goto(c, "close", {h}, NoConn)
  /\ UNCHANGED <<clients, local, token, lock, home, server, history>>

DrainAll(c) ==
  /\ At(c, "idle") /\ tracked # {}
  /\ tracked' = {}
  /\ Goto(c, "close", tracked, NoConn)
  /\ UNCHANGED <<clients, local, token, lock, home, server, history>>

CloseLive(c, h) ==
  /\ At(c, "idle") /\ h \in Live /\ local[h] # "new"
  /\ Goto(c, "close", {h}, NoConn)
  /\ UNCHANGED <<clients, handles, history>>

\* The rest of the drain, or the end of the call.
Proceed(c, h) ==
  IF todo[c] = {h} THEN Return(c) ELSE Goto(c, "close", todo[c] \ {h}, NoConn)

\* Close of a query closed before, or of one without a connection.
CloseQuietly(c) ==
  \E h \in todo[c] :
    /\ At(c, "close") /\ lock[h] = Nobody
    /\ local[h] # "open" \/ conn = NoConn
    /\ local' = [local EXCEPT ![h] = "closed"]
    /\ Proceed(c, h)
    /\ UNCHANGED <<clients, token, lock, home, server, tracked, history>>

\* The flag is set first, and the KILL goes to the connection the client has now.
SendKill(c) ==
  \E h \in todo[c] :
    /\ At(c, "close") /\ lock[h] = Nobody
    /\ local[h] = "open" /\ conn # NoConn
    /\ local' = [local EXCEPT ![h] = "closed"]
    /\ lock' = [lock EXCEPT ![h] = c]
    /\ Goto(c, "kill", todo[c], conn)
    /\ closes' = [closes EXCEPT ![h] = @ + 1]
    /\ UNCHANGED <<clients, token, home, server, tracked, faults, given, late>>

Killed(c) ==
  \E h \in todo[c] :
    /\ At(c, "kill") /\ lock[h] = c
    /\ via[c] = home[h] /\ via[c] \in alive
    /\ server' = [server EXCEPT ![h] = "gone"]
    /\ lock' = [lock EXCEPT ![h] = Nobody]
    /\ Proceed(c, h)
    /\ UNCHANGED <<clients, local, token, home, tracked, history>>

\* A mutant of KillFails: the drain ends at the first error.
KillFailsAndReturns(c) ==
  \E h \in todo[c] :
    /\ At(c, "kill") /\ lock[h] = c
    /\ via[c] # home[h] \/ via[c] \notin alive \/ faults < MaxFaults
    /\ faults' = IF via[c] # home[h] \/ via[c] \notin alive THEN faults ELSE faults + 1
    /\ given' = given \union {h}
    /\ lock' = [lock EXCEPT ![h] = Nobody]
    /\ Return(c)
    /\ UNCHANGED <<clients, local, token, home, server, tracked, closes, late>>

\* The first error is kept for the caller and the drain goes on.
KillFails(c) ==
  \E h \in todo[c] :
    /\ At(c, "kill") /\ lock[h] = c
    /\ via[c] # home[h] \/ via[c] \notin alive \/ faults < MaxFaults
    /\ faults' = IF via[c] # home[h] \/ via[c] \notin alive THEN faults ELSE faults + 1
    /\ given' = given \union {h}
    /\ lock' = [lock EXCEPT ![h] = Nobody]
    /\ Proceed(c, h)
    /\ UNCHANGED <<clients, local, token, home, server, tracked, closes, late>>

(***************************************************************************)
(* Sessions                                                                 *)
(***************************************************************************)
\* Marked detached under the lock, the RPC after it.
Detach(c, h) ==
  /\ At(c, "idle") /\ h \in Session /\ local[h] = "open"
  /\ local' = [local EXCEPT ![h] = "closed"]
  /\ token' = token \ {h}
  /\ closes' = [closes EXCEPT ![h] = @ + 1]
  /\ Goto(c, "detach", {h}, home[h])
  /\ UNCHANGED <<clients, lock, home, server, tracked, faults, given, late>>

Detached(c) ==
  \E h \in todo[c] :
    /\ At(c, "detach")
    /\ \/ via[c] \in alive /\ server' = [server EXCEPT ![h] = "gone"] /\ UNCHANGED <<faults, given>>
       \/ via[c] \notin alive /\ UNCHANGED <<server, faults, given>>
       \/ Fault /\ given' = given \union {h} /\ UNCHANGED server
    /\ Return(c)
    /\ UNCHANGED <<clients, local, token, lock, home, tracked, closes, late>>

\* Signin, Authenticate and Invalidate find the session under the lock, call
\* the server, and store or clear the token under the lock again.
Signin(c, h) ==
  /\ At(c, "idle") /\ h \in Session /\ local[h] = "open"
  /\ Goto(c, "signin", {h}, home[h])
  /\ UNCHANGED <<clients, handles, history>>

SignedIn(c) ==
  \E h \in todo[c] :
    /\ At(c, "signin")
    /\ \/ Serves(h) /\ Goto(c, "store", {h}, via[c])
       \/ ~Serves(h) /\ Return(c)
    /\ UNCHANGED <<clients, handles, history>>

StoreToken(c) ==
  \E h \in todo[c] :
    /\ At(c, "store")
    /\ \/ token' = token \union {h} /\ late' = IF local[h] = "open" THEN late ELSE late \union {h}
       \/ token' = token \ {h} /\ UNCHANGED late
    /\ Return(c)
    /\ UNCHANGED <<clients, local, lock, home, server, tracked, faults, closes, given>>

(***************************************************************************)
(* Transactions, and queries in a session                                   *)
(***************************************************************************)
\* A mutant of Finalise: the lock is not kept over the RPC.
FinaliseUnlocked(c, h, v) ==
  /\ At(c, "idle") /\ h \in Tx /\ local[h] = "open"
  /\ closes' = [closes EXCEPT ![h] = @ + 1]
  /\ Goto(c, v, {h}, home[h])
  /\ UNCHANGED <<clients, handles, faults, given, late>>

\* Commit and Rollback: state checked and lock taken, then the RPC.
Finalise(c, h, v) ==
  /\ At(c, "idle") /\ h \in Tx /\ local[h] = "open" /\ lock[h] = Nobody
  /\ lock' = [lock EXCEPT ![h] = c]
  /\ closes' = [closes EXCEPT ![h] = @ + 1]
  /\ Goto(c, v, {h}, home[h])
  /\ UNCHANGED <<clients, local, token, home, server, tracked, faults, given, late>>

Finalised(c) ==
  \E h \in todo[c], v \in Verbs :
    /\ At(c, v) /\ Serves(h)
    /\ server' = [server EXCEPT ![h] = "gone"]
    /\ local' = [local EXCEPT ![h] = v]
    /\ lock' = [lock EXCEPT ![h] = Nobody]
    /\ Return(c)
    /\ UNCHANGED <<clients, token, home, tracked, history>>

\* An RPC that fails may have had its effect.
FinaliseFails(c) ==
  \E h \in todo[c] :
    /\ pc[c] \in Verbs
    /\ \/ ~Serves(h) /\ UNCHANGED <<faults, server, given>>
       \/ Fault /\ server' \in {server, [server EXCEPT ![h] = "gone"]} /\ given' = given \union {h}
    /\ local' = [local EXCEPT ![h] = "failed"]
    /\ lock' = [lock EXCEPT ![h] = Nobody]
    /\ Return(c)
    /\ UNCHANGED <<clients, token, home, tracked, closes, late>>

\* The state is looked at under the lock, the statement sent after it.
Query(c, h) ==
  /\ At(c, "idle") /\ h \in Tx \union Session
  /\ local[h] = "open" /\ lock[h] = Nobody
  /\ Goto(c, "query", {h}, home[h])
  /\ UNCHANGED <<clients, handles, history>>

Queried(c) ==
  /\ At(c, "query")
  /\ Return(c)
  /\ UNCHANGED <<clients, handles, history>>

UnderWay(h) == \E c \in Caller : h \in todo[c]

\* The program drops a handle of a connection that is gone.
Forget(h) ==
  /\ local[h] # "new" /\ home[h] \notin alive /\ ~UnderWay(h) /\ h \notin tracked
  /\ local' = [local EXCEPT ![h] = "new"] /\ token' = token \ {h}
  /\ home' = [home EXCEPT ![h] = NoConn] /\ server' = [server EXCEPT ![h] = "none"]
  /\ closes' = [closes EXCEPT ![h] = 0]
  /\ given' = given \ {h} /\ late' = late \ {h}
  /\ UNCHANGED <<clients, calls, lock, tracked, faults>>

Start(c) ==
  \/ \E h \in Handle : Open(c, h)
  \/ \E h \in Live : Kill(c, h) \/ CloseLive(c, h)
  \/ DrainAll(c)
  \/ \E h \in Session : Detach(c, h) \/ Signin(c, h)
  \/ \E h \in Tx, v \in Verbs : Finalise(c, h, v)
  \/ \E h \in Tx \union Session : Query(c, h)

Step(c) ==
  \/ Opened(c) \/ OpenFails(c) \/ Subscribe(c) \/ SubscribeFails(c) \/ Track(c)
  \/ CloseQuietly(c) \/ SendKill(c) \/ Killed(c) \/ KillFails(c)
  \/ Detached(c) \/ SignedIn(c) \/ StoreToken(c)
  \/ Finalised(c) \/ FinaliseFails(c) \/ Queried(c)

Next ==
  \/ Connect \/ Disconnect \/ CloseConnection
  \/ \E c \in Caller : Start(c) \/ Step(c)
  \/ \E h \in Handle : Forget(h)

Spec == Init /\ [][Next]_vars

(***************************************************************************)
(* Properties                                                               *)
(***************************************************************************)
\* However many goroutines close a handle, one closing RPC is sent: KILL,
\* detach, COMMIT or CANCEL ("finalised exactly once", "Close is idempotent").
ClosedOnce ==
  \A h \in Handle : closes[h] <= 1

\* What the server holds for a handle on an open connection belongs to a handle
\* the program can still close, or to a call under way, or an RPC for it has
\* failed or been sent elsewhere (Spawn, Close, Detach, Commit, Rollback).
NothingLeaks ==
  \A h \in Handle : Serves(h) =>
    local[h] = "open" \/ UnderWay(h) \/ h \in given \/ home[h] # conn

\* A live query that is not closed can be drained: it is tracked, or a Spawn,
\* Kill or DrainAll has it in hand (Spawn, Kill, DrainAll).
DrainReachesAll ==
  \A h \in Live : local[h] = "open" => h \in tracked \/ UnderWay(h)

\* A detached session has no token unless its Signin was overtaken by the
\* Detach; a transaction that is no longer open is not locked for good.
TypeOK ==
  /\ used \in Program /\ conn \in Conn \union {NoConn} /\ alive \subseteq Conn
  /\ local \in [Handle -> {"new", "open", "closed", "failed"} \union Verbs]
  /\ token \subseteq Session /\ \A h \in token : local[h] = "open" \/ h \in late
  /\ lock \in [Handle -> Caller \union {Nobody}]
  /\ \A h \in Handle : lock[h] # Nobody => pc[lock[h]] \in {"kill"} \union Verbs /\ h \in todo[lock[h]]
  /\ home \in [Handle -> Conn \union {NoConn}] /\ server \in [Handle -> {"none", "open", "gone"}]
  /\ tracked \subseteq Live
  /\ todo \in [Caller -> SUBSET Handle] /\ via \in [Caller -> Conn \union {NoConn}]
  /\ faults \in 0..MaxFaults
=============================================================================
