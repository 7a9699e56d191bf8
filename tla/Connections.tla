------------------------------ MODULE Connections ------------------------------
(***************************************************************************)
(* The connection registry (pkg/surql/connection/registry.go) and the      *)
(* clients it holds (client.go): goroutines register, unregister, connect, *)
(* disconnect and sign in, in any interleaving.                            *)
(*                                                                         *)
(* A client has a lock of its own and gives it up before every RPC: dial,  *)
(* close and sign-in lie between two critical sections, and each critical  *)
(* section is one action.  The registry's lock is held over an RPC in one  *)
(* place only, where Register takes a connection back.                     *)
(***************************************************************************)
EXTENDS Integers, FiniteSets

CONSTANTS
  Caller,     \* goroutines
  Name,       \* names of connections; numbers, for their order
  Client,     \* DatabaseClient objects
  Conn,       \* connections of the SDK
  Attempts,   \* DBRetryMaxAttempts, at least 1
  NoClient, NoConn, Nobody

ASSUME NameAssumption ==
  /\ Name \subseteq Nat \ {0}
  /\ \A S \in SUBSET Name : S # {} => \E n \in S : \A m \in S : n <= m
ASSUME NoneAssumption == NoClient \notin Client /\ NoConn \notin Conn /\ Nobody \notin Caller
ASSUME AttemptAssumption == Attempts \in Nat \ {0}

VARIABLES
  connections,  \* connections[n]: the client registered under n or NoClient
  defaultName,  \* the default name, NoName if there is none
  holder,       \* who holds the registry's lock over an RPC
  db,           \* db[k]: the connection of client k or NoConn
  token,        \* token[k]: the connection that is authenticated by its cached token
  open,         \* the connections that are open
  known,        \* clients the program has a reference to
  pc,           \* pc[c]: where goroutine c is
  call,         \* call[c]: the locals of its call
  severed,      \* history variable: connections a second Connect has replaced
  stuck,        \* history variable: connections whose Close failed
  late          \* history variable: tokens stored after their connection was left

registry == <<connections, defaultName, holder>>
client == <<db, token, open>>
ghosts == <<severed, stuck, late>>
vars == <<registry, client, known, pc, call, ghosts>>

NoName == 0

Registered == {n \in Name : connections[n] # NoClient}

\* firstName
FirstName(S) == IF S = {} THEN NoName ELSE CHOOSE n \in S : \A m \in S : n <= m

Ops == {"none", "connect", "register", "undo", "disconnect", "disconnectAll",
        "clear", "signin", "invalidate"}

Call == [op : Ops, client : Client \union {NoClient}, conn : Conn \union {NoConn},
         name : Name \union {NoName}, promote : BOOLEAN, dialled : BOOLEAN,
         attempt : 1..Attempts, todo : SUBSET Client]

NoCall == [op |-> "none", client |-> NoClient, conn |-> NoConn, name |-> NoName,
           promote |-> FALSE, dialled |-> FALSE, attempt |-> 1, todo |-> {}]

Begin(c, op, k, p) ==
  /\ pc[c] = "idle" /\ pc' = [pc EXCEPT ![c] = p]
  /\ call' = [call EXCEPT ![c] = [NoCall EXCEPT !.op = op, !.client = k]]

Goto(c, p) == pc' = [pc EXCEPT ![c] = p]

Return(c) == Goto(c, "idle") /\ call' = [call EXCEPT ![c] = NoCall]

\* Everybody who takes the registry's lock waits for its holder.
Unlocked == holder = Nobody

\* A client or connection that is nobody's: garbage or not yet made.
FreshClient(k) ==
  /\ db[k] = NoConn /\ token[k] = NoConn
  /\ \A n \in Name : connections[n] # k
  /\ \A c \in Caller : call[c].client # k /\ k \notin call[c].todo
FreshConn(x) ==
  /\ x \notin open \union severed \union stuck \union late
  /\ \A k \in Client : db[k] # x /\ token[k] # x
  /\ \A c \in Caller : call[c].conn # x
-----------------------------------------------------------------------------
Init ==
  /\ connections = [n \in Name |-> NoClient]
  /\ defaultName = NoName /\ holder = Nobody
  /\ db = [k \in Client |-> NoConn] /\ token = [k \in Client |-> NoConn]
  /\ open = {} /\ known = {}
  /\ pc = [c \in Caller |-> "idle"] /\ call = [c \in Caller |-> NoCall]
  /\ severed = {} /\ stuck = {} /\ late = {}

\* Connect of a client the program has: a connected one is disconnected first.
Connect(c, k) ==
  /\ k \in known
  /\ Begin(c, "connect", k, IF db[k] = NoConn THEN "dial" ELSE "detach")
  /\ UNCHANGED <<registry, client, known, ghosts>>

\* FromEndpointURLString and Use succeed.
Dial(c) ==
  /\ pc[c] = "dial"
  /\ \E x \in Conn :
       /\ FreshConn(x)
       /\ open' = open \union {x}
       /\ call' = [call EXCEPT ![c].conn = x]
  /\ Goto(c, "install")
  /\ UNCHANGED <<registry, db, token, known, ghosts>>

\* Mutant: the loop does not count its attempts.
DialAgain(c) ==
  /\ pc[c] = "dial" /\ UNCHANGED pc
  /\ call' = [call EXCEPT ![c].attempt = IF @ < Attempts THEN @ + 1 ELSE 1]
  /\ UNCHANGED <<registry, client, known, ghosts>>

\* Dial or Use fails; there is another attempt, or the call returns: after the last
\* attempt, or early because its context is cancelled.
DialFails(c) ==
  /\ pc[c] = "dial"
  /\ \/ /\ call[c].attempt < Attempts /\ UNCHANGED pc
        /\ call' = [call EXCEPT ![c].attempt = @ + 1]
     \/ Return(c)
  /\ UNCHANGED <<registry, client, known, ghosts>>

\* The end of Connect; Register goes on.
Install(c) ==
  LET k == call[c].client
      x == call[c].conn
  IN  /\ pc[c] = "install"
      /\ db' = [db EXCEPT ![k] = x]
      /\ severed' = severed \union ({db[k]} \ {NoConn})
      /\ \/ /\ call[c].op = "register" /\ Goto(c, "insert")
            /\ call' = [call EXCEPT ![c].conn = NoConn, ![c].dialled = TRUE]
         \/ call[c].op = "connect" /\ Return(c)
      /\ UNCHANGED <<registry, token, open, known, stuck, late>>

\* Mutant: Disconnect keeps the token.
DetachKeepsToken(c) ==
  LET k == call[c].client
  IN  /\ pc[c] = "detach" /\ db[k] # NoConn
      /\ call' = [call EXCEPT ![c].conn = db[k]]
      /\ db' = [db EXCEPT ![k] = NoConn]
      /\ Goto(c, "close")
      /\ UNCHANGED <<registry, token, open, known, ghosts>>

\* The critical section of Disconnect, on a connected client.
Detach(c) ==
  LET k == call[c].client
  IN  /\ pc[c] = "detach" /\ db[k] # NoConn
      /\ call' = [call EXCEPT ![c].conn = db[k]]
      /\ db' = [db EXCEPT ![k] = NoConn]
      /\ token' = [token EXCEPT ![k] = NoConn]
      /\ late' = late \ {token[k]}
      /\ Goto(c, "close")
      /\ UNCHANGED <<registry, open, known, severed, stuck>>

\* The deferred unlock of Register.
Released(c) == IF holder = c THEN Nobody ELSE holder

\* What follows Disconnect: the dialling of Connect, the next client of
\* DisconnectAll, or the end of the call.
Disconnected(c, failed) ==
  /\ \/ /\ call[c].op = "connect" /\ ~failed /\ Goto(c, "dial")
        /\ call' = [call EXCEPT ![c].conn = NoConn]
     \/ /\ call[c].op \in {"disconnectAll", "clear"} /\ Goto(c, "sweep")
        /\ call' = [call EXCEPT ![c].conn = NoConn, ![c].client = NoClient]
     \/ call[c].op \in {"undo", "disconnect"} /\ Return(c)
     \/ call[c].op = "connect" /\ failed /\ Return(c)
  /\ holder' = Released(c)
  /\ UNCHANGED <<connections, defaultName, known>>

\* Disconnect of a client that somebody else has disconnected meanwhile.
DetachNothing(c) ==
  LET k == call[c].client
  IN  /\ pc[c] = "detach" /\ db[k] = NoConn
      /\ token' = [token EXCEPT ![k] = NoConn]
      /\ late' = late \ {token[k]}
      /\ Disconnected(c, FALSE)
      /\ UNCHANGED <<db, open, severed, stuck>>

Close(c) ==
  /\ pc[c] = "close"
  /\ open' = open \ {call[c].conn}
  /\ Disconnected(c, FALSE)
  /\ UNCHANGED <<db, token, ghosts>>

\* The SDK reports an error; the connection may have been closed or not.
CloseFails(c) ==
  /\ pc[c] = "close"
  /\ \/ open' = open \ {call[c].conn} /\ UNCHANGED stuck
     \/ stuck' = stuck \union {call[c].conn} /\ UNCHANGED open
  /\ Disconnected(c, TRUE)
  /\ UNCHANGED <<db, token, severed, late>>

Disconnect(c, k) ==
  /\ k \in known /\ Begin(c, "disconnect", k, "detach")
  /\ UNCHANGED <<registry, client, known, ghosts>>
-----------------------------------------------------------------------------
\* Register: a client is made; with Connect it is dialled before the lock is taken.
Register(c, n, promote) ==
  /\ pc[c] = "idle"
  /\ \E k \in Client :
       /\ FreshClient(k)
       /\ known' = known \ {k}
       /\ call' = [call EXCEPT ![c] = [NoCall EXCEPT
                     !.op = "register", !.client = k, !.name = n, !.promote = promote]]
  /\ \E p \in {"dial", "insert"} : Goto(c, p)
  /\ UNCHANGED <<registry, client, ghosts>>

\* The name is free: the client is registered and handed to the caller.
Insert(c) ==
  LET n == call[c].name
  IN  /\ pc[c] = "insert" /\ Unlocked /\ connections[n] = NoClient
      /\ connections' = [connections EXCEPT ![n] = call[c].client]
      /\ defaultName' = IF call[c].promote \/ defaultName = NoName THEN n ELSE defaultName
      /\ known' = known \union {call[c].client}
      /\ Return(c)
      /\ UNCHANGED <<holder, client, ghosts>>

\* Mutant: the connection just made is dropped.
InsertTakenLeaves(c) ==
  /\ pc[c] = "insert" /\ Unlocked /\ connections[call[c].name] # NoClient
  /\ Return(c)
  /\ UNCHANGED <<registry, client, known, ghosts>>

\* The name is taken: a connection is taken back under the registry's lock.
InsertTaken(c) ==
  /\ pc[c] = "insert" /\ Unlocked /\ connections[call[c].name] # NoClient
  /\ \/ call[c].dialled /\ holder' = c /\ Goto(c, "detach")
        /\ call' = [call EXCEPT ![c].op = "undo"]
     \/ ~call[c].dialled /\ Return(c) /\ UNCHANGED holder
  /\ UNCHANGED <<connections, defaultName, client, known, ghosts>>

\* Mutant: the default stays.
UnregisterKeepsDefault(c, n, disconnect) ==
  /\ pc[c] = "idle" /\ Unlocked /\ n \in Registered
  /\ connections' = [connections EXCEPT ![n] = NoClient]
  /\ \/ disconnect /\ Begin(c, "disconnect", connections[n], "detach")
     \/ ~disconnect /\ UNCHANGED <<pc, call>>
  /\ UNCHANGED <<defaultName, holder, client, known, ghosts>>

Unregister(c, n, disconnect) ==
  /\ pc[c] = "idle" /\ Unlocked /\ n \in Registered
  /\ connections' = [connections EXCEPT ![n] = NoClient]
  /\ defaultName' = IF defaultName = n THEN FirstName(Registered \ {n}) ELSE defaultName
  /\ \/ disconnect /\ Begin(c, "disconnect", connections[n], "detach")
     \/ ~disconnect /\ UNCHANGED <<pc, call>>
  /\ UNCHANGED <<holder, client, known, ghosts>>

SetDefault(c, n) ==
  /\ pc[c] = "idle" /\ Unlocked /\ n \in Registered
  /\ defaultName' = n
  /\ UNCHANGED <<connections, holder, client, known, pc, call, ghosts>>

\* DisconnectAll and the first half of Clear: the clients are listed.
DisconnectAll(c, op) ==
  /\ pc[c] = "idle" /\ Unlocked /\ Goto(c, "sweep")
  /\ call' = [call EXCEPT ![c] = [NoCall EXCEPT
                !.op = op, !.todo = {connections[n] : n \in Registered}]]
  /\ UNCHANGED <<registry, client, known, ghosts>>

\* The next client of the list; one that is not connected is left out.
Sweep(c) ==
  /\ pc[c] = "sweep"
  /\ \E k \in call[c].todo :
       \/ /\ db[k] # NoConn /\ Goto(c, "detach")
          /\ call' = [call EXCEPT ![c].todo = @ \ {k}, ![c].client = k]
       \/ /\ db[k] = NoConn /\ UNCHANGED pc
          /\ call' = [call EXCEPT ![c].todo = @ \ {k}]
  /\ UNCHANGED <<registry, client, known, ghosts>>

SweepEnds(c) ==
  /\ pc[c] = "sweep" /\ call[c].todo = {}
  /\ \/ call[c].op = "clear" /\ Goto(c, "empty") /\ UNCHANGED call
     \/ call[c].op = "disconnectAll" /\ Return(c)
  /\ UNCHANGED <<registry, client, known, ghosts>>

\* The second half of Clear, the same after an error: the maps are made anew.
Empty(c) ==
  /\ pc[c] = "empty" /\ Unlocked
  /\ connections' = [n \in Name |-> NoClient] /\ defaultName' = NoName
  /\ Return(c)
  /\ UNCHANGED <<holder, client, known, ghosts>>
-----------------------------------------------------------------------------
\* Signin, Signup and Authenticate, and Invalidate: requireDB.
Authenticate(c, k, op) ==
  /\ pc[c] = "idle" /\ k \in known /\ db[k] # NoConn
  /\ pc' = [pc EXCEPT ![c] = "rpc"]
  /\ call' = [call EXCEPT ![c] = [NoCall EXCEPT !.op = op, !.client = k, !.conn = db[k]]]
  /\ UNCHANGED <<registry, client, known, ghosts>>

\* The RPC was answered some time before; the token is stored or dropped.
StoreToken(c) ==
  LET k == call[c].client
      x == IF call[c].op = "signin" THEN call[c].conn ELSE NoConn
  IN  /\ pc[c] = "rpc"
      /\ token' = [token EXCEPT ![k] = x]
      /\ late' = (late \ {token[k]}) \union ({x} \ {db[k], NoConn})
      /\ Return(c)
      /\ UNCHANGED <<registry, db, open, known, severed, stuck>>

AuthFails(c) == pc[c] = "rpc" /\ Return(c) /\ UNCHANGED <<registry, client, known, ghosts>>

Start(c) ==
  \/ \E n \in Name :
       \/ SetDefault(c, n)
       \/ \E b \in BOOLEAN : Register(c, n, b) \/ Unregister(c, n, b)
  \/ \E op \in {"disconnectAll", "clear"} : DisconnectAll(c, op)
  \/ \E k \in Client :
       \/ Connect(c, k) \/ Disconnect(c, k)
       \/ \E op \in {"signin", "invalidate"} : Authenticate(c, k, op)

\* The steps of a call that has begun.
Step(c) ==
  \/ Dial(c) \/ DialFails(c) \/ Install(c) \/ Detach(c) \/ DetachNothing(c)
  \/ Close(c) \/ CloseFails(c) \/ Sweep(c) \/ SweepEnds(c) \/ StoreToken(c) \/ AuthFails(c)

\* The steps that wait for the registry's lock.
Locking(c) == Insert(c) \/ InsertTaken(c) \/ Empty(c)

Next == \E c \in Caller : Start(c) \/ Step(c) \/ Locking(c)

Spec == Init /\ [][Next]_vars

\* Goroutines run, every RPC returns or fails, and the mutex lets waiters in.
FairSpec == Spec /\ \A c \in Caller : WF_vars(Step(c)) /\ SF_vars(Locking(c))
-----------------------------------------------------------------------------
(* Properties.                                                             *)

\* Types, and the lock is held only by a Register that takes its connection back.
TypeOK ==
  /\ connections \in [Name -> Client \union {NoClient}]
  /\ defaultName \in Name \union {NoName}
  /\ db \in [Client -> Conn \union {NoConn}] /\ token \in [Client -> Conn \union {NoConn}]
  /\ known \subseteq Client
  /\ open \subseteq Conn /\ severed \subseteq Conn /\ stuck \subseteq Conn /\ late \subseteq Conn
  /\ pc \in [Caller -> {"idle", "dial", "install", "detach", "close", "insert", "sweep",
                        "empty", "rpc"}]
  /\ call \in [Caller -> Call]
  /\ holder \in Caller \union {Nobody}
  /\ holder # Nobody => call[holder].op = "undo" /\ pc[holder] \in {"detach", "close"}

\* There is a default exactly while something is registered, and it is registered,
\* after every order of Register, Unregister, SetDefault and Clear.
DefaultIsRegistered ==
  IF Registered = {} THEN defaultName = NoName ELSE defaultName \in Registered

\* Every open connection can still be closed by someone: it belongs to a client the
\* program has or a call works on, or a call is about to install or close it.  Lost
\* are only those a second Connect of the same client has replaced (client.go:100) and
\* those whose Close has failed.
NoConnectionLost ==
  \A x \in open \ (severed \union stuck) :
    \/ \E k \in Client : db[k] = x /\ (k \in known \/ \E c \in Caller : call[c].client = k)
    \/ \E c \in Caller : call[c].conn = x /\ pc[c] \in {"install", "close"}

\* The cached token is that of the client's connection, whoever reconnects the client,
\* but for a sign-in that was answered after the client had left its connection
\* (client.go:171) and for a connection that was replaced.
TokenOfConnection ==
  \A k \in Client : token[k] \in {NoConn, db[k]} \union late \union severed

\* Every call ends: retries are counted, locks are given back.
CallsReturn == \A c \in Caller : pc[c] # "idle" ~> pc[c] = "idle"
=============================================================================
