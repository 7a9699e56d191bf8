--------------------------- MODULE Connections_proofs ---------------------------
(***************************************************************************)
(* Proofs about the registry and its clients: any number of goroutines,    *)
(* names, clients and connections.                                         *)
(***************************************************************************)
EXTENDS Connections, TLAPS

Points == {"idle", "dial", "install", "detach", "close", "insert", "sweep", "empty", "rpc"}

\* A call with locals r can be at p.
Fits(p, r) ==
  /\ p = "idle" => r = NoCall
  /\ p \in {"dial", "install"} => r.op \in {"connect", "register"}
  /\ p = "insert" => r.op = "register"
  /\ r.op = "register" => r.name \in Name
  /\ r.dialled => r.op \in {"register", "undo"} /\ p \notin {"dial", "install"}
  /\ p \in {"detach", "close"} =>
       r.op \in {"connect", "undo", "disconnect", "disconnectAll", "clear"}
  /\ p \in {"sweep", "empty"} => r.op \in {"disconnectAll", "clear"} /\ r.client = NoClient
  /\ p = "rpc" => r.op \in {"signin", "invalidate"}
  /\ p \in {"install", "close", "rpc"} => r.conn \in Conn
  /\ p \in {"dial", "install", "insert", "detach", "close", "rpc"} => r.client \in Client

ProgramInv == \A c \in Caller : Fits(pc[c], call[c])

\* A locked registry is released by the goroutine that holds it.
LEMMA ReleasedType ==
  ASSUME TypeOK, NEW c \in Caller
  PROVE  /\ Released(c) \in Caller \union {Nobody}
         /\ Released(c) # Nobody => Released(c) = holder /\ holder # c
BY DEF TypeOK, Released

\* The locals of no call are well typed.
LEMMA NoCallType == NoCall \in Call /\ NoCall.op = "none" /\ NoCall.client = NoClient /\ NoCall.todo = {} /\ ~NoCall.dialled
BY AttemptAssumption DEF NoCall, Call, Ops, NoName

\* The first name of a set is in it; there is none in the empty set.
LEMMA FirstNameFits ==
  ASSUME NEW S \in SUBSET Name
  PROVE  IF S = {} THEN FirstName(S) = NoName ELSE FirstName(S) \in S
BY NameAssumption DEF FirstName

\* One call moves to p with locals r.
Moves(c, p, r) == pc' = [pc EXCEPT ![c] = p] /\ call' = [call EXCEPT ![c] = r]

LEMMA MovesTyped ==
  ASSUME TypeOK, ProgramInv, NEW c \in Caller, NEW p \in Points, NEW r \in Call,
         Moves(c, p, r), Fits(p, r)
  PROVE  /\ pc' \in [Caller -> Points] /\ call' \in [Caller -> Call] /\ ProgramInv'
         /\ pc'[c] = p /\ call'[c] = r
         /\ \A d \in Caller \ {c} : pc'[d] = pc[d] /\ call'[d] = call[d]
BY DEF TypeOK, ProgramInv, Moves, Points

\* A step of one call that keeps the types of everything else: the lock is kept,
\* released, or taken by a call that takes its connection back.
LEMMA CallTyped ==
  ASSUME TypeOK, ProgramInv, NEW c \in Caller, NEW p \in Points, NEW r \in Call,
         Moves(c, p, r), Fits(p, r),
         connections' \in [Name -> Client \union {NoClient}],
         defaultName' \in Name \union {NoName},
         db' \in [Client -> Conn \union {NoConn}], token' \in [Client -> Conn \union {NoConn}],
         known' \subseteq Client, open' \subseteq Conn, severed' \subseteq Conn,
         stuck' \subseteq Conn, late' \subseteq Conn,
         holder' \in {holder, Nobody, c},
         holder' = c => r.op = "undo" /\ p \in {"detach", "close"}
  PROVE  TypeOK' /\ ProgramInv'
<1>1. /\ pc' \in [Caller -> Points] /\ call' \in [Caller -> Call] /\ ProgramInv'
      /\ pc'[c] = p /\ call'[c] = r
      /\ \A d \in Caller \ {c} : pc'[d] = pc[d] /\ call'[d] = call[d]
  BY MovesTyped
<1>2. holder' \in Caller \union {Nobody}
  BY DEF TypeOK
<1>3. holder' # Nobody => call'[holder'].op = "undo" /\ pc'[holder'] \in {"detach", "close"}
  BY <1>1, NoneAssumption DEF TypeOK
<1>. QED
  BY <1>1, <1>2, <1>3 DEF TypeOK, Points

\* Beginning a call keeps types and program points.
LEMMA StartTyped ==
  ASSUME TypeOK, ProgramInv, NEW c \in Caller, Start(c)
  PROVE  TypeOK' /\ ProgramInv'
<1>. USE NoCallType, NoneAssumption DEF registry, client, ghosts
<1>1. ASSUME NEW p \in Points, NEW r \in Call, Moves(c, p, r), Fits(p, r), pc[c] = "idle",
             UNCHANGED <<client, ghosts, holder>>, known' \subseteq Client,
             connections' \in [Name -> Client \union {NoClient}],
             defaultName' \in Name \union {NoName}
      PROVE  TypeOK' /\ ProgramInv'
  <2>1. holder # c
    BY <1>1 DEF TypeOK
  <2>. QED
    BY <1>1, <2>1, CallTyped DEF TypeOK
<1>2. ASSUME NEW n \in Name, SetDefault(c, n) PROVE TypeOK' /\ ProgramInv'
  BY <1>2 DEF SetDefault, TypeOK, ProgramInv
<1>3. ASSUME NEW n \in Name, NEW b \in BOOLEAN, Register(c, n, b) PROVE TypeOK' /\ ProgramInv'
  <2>1. PICK k \in Client : call' = [call EXCEPT ![c] = [NoCall EXCEPT
                     !.op = "register", !.client = k, !.name = n, !.promote = b]]
    BY <1>3 DEF Register
  <2>2. PICK p \in {"dial", "insert"} : Goto(c, p)
    BY <1>3 DEF Register
  <2>. DEFINE r == [NoCall EXCEPT !.op = "register", !.client = k, !.name = n, !.promote = b]
  <2>3. r \in Call /\ r.op = "register" /\ r.client = k /\ r.name = n /\ ~r.dialled
    BY DEF NoCall, Call, Ops
  <2>4. Fits(p, r)
    BY <2>3 DEF Fits
  <2>5. Moves(c, p, r)
    BY <2>1, <2>2 DEF Moves, Goto
  <2>6. p \in Points
    BY DEF Points
  <2>. HIDE DEF r
  <2>. QED
    BY <1>1, <1>3, <2>3, <2>4, <2>5, <2>6 DEF Register, TypeOK
<1>4. ASSUME NEW op \in Ops, NEW k \in Client \union {NoClient}, NEW p \in Points, Begin(c, op, k, p),
             op \in {"connect", "disconnect"}, p \in {"dial", "detach"}, k \in Client,
             p = "dial" => op = "connect",
             UNCHANGED <<client, ghosts, holder, known>>,
             connections' \in [Name -> Client \union {NoClient}],
             defaultName' \in Name \union {NoName}
      PROVE  TypeOK' /\ ProgramInv'
  <2>. DEFINE r == [NoCall EXCEPT !.op = op, !.client = k]
  <2>3. r \in Call /\ r.op = op /\ r.client = k /\ ~r.dialled
    BY <1>4 DEF NoCall, Call, Ops
  <2>4. Fits(p, r)
    BY <1>4, <2>3 DEF Fits
  <2>5. Moves(c, p, r) /\ pc[c] = "idle"
    BY <1>4 DEF Moves, Begin
  <2>. HIDE DEF r
  <2>. QED
    BY <1>1, <1>4, <2>3, <2>4, <2>5 DEF TypeOK
<1>5. ASSUME NEW n \in Name, NEW b \in BOOLEAN, Unregister(c, n, b) PROVE TypeOK' /\ ProgramInv'
  <2>1. /\ defaultName' \in Name \union {NoName}
        /\ connections' \in [Name -> Client \union {NoClient}] /\ connections[n] \in Client
        /\ UNCHANGED <<client, ghosts, holder, known>>
    BY <1>5, FirstNameFits DEF Unregister, Registered, TypeOK
  <2>2. CASE Begin(c, "disconnect", connections[n], "detach")
    BY <1>4, <2>1, <2>2 DEF Ops, Points
  <2>3. CASE UNCHANGED <<pc, call>>
    BY <2>1, <2>3 DEF TypeOK, ProgramInv
  <2>. QED
    BY <1>5, <2>2, <2>3 DEF Unregister
<1>6. ASSUME NEW op \in {"disconnectAll", "clear"}, DisconnectAll(c, op) PROVE TypeOK' /\ ProgramInv'
  <2>. DEFINE r == [NoCall EXCEPT !.op = op, !.todo = {connections[n] : n \in Registered}]
  <2>1. {connections[n] : n \in Registered} \in SUBSET Client
    BY DEF Registered, TypeOK
  <2>3. r \in Call /\ r.op = op /\ r.client = NoClient /\ ~r.dialled
    BY <2>1 DEF NoCall, Call, Ops
  <2>4. Fits("sweep", r) /\ "sweep" \in Points
    BY <2>3 DEF Fits, Points
  <2>5. Moves(c, "sweep", r)
    BY <1>6 DEF DisconnectAll, Moves, Goto
  <2>. HIDE DEF r
  <2>. QED
    BY <1>1, <1>6, <2>3, <2>4, <2>5 DEF DisconnectAll, TypeOK
<1>7. ASSUME NEW k \in Client, Connect(c, k) \/ Disconnect(c, k) PROVE TypeOK' /\ ProgramInv'
  <2>1. PICK op \in {"connect", "disconnect"}, p \in {"dial", "detach"} :
          Begin(c, op, k, p) /\ (p = "dial" => op = "connect")
    BY <1>7 DEF Connect, Disconnect
  <2>. QED
    BY <1>4, <1>7, <2>1 DEF Connect, Disconnect, Ops, Points, TypeOK
<1>8. ASSUME NEW k \in Client, NEW op \in {"signin", "invalidate"}, Authenticate(c, k, op)
      PROVE  TypeOK' /\ ProgramInv'
  <2>. DEFINE r == [NoCall EXCEPT !.op = op, !.client = k, !.conn = db[k]]
  <2>1. db[k] \in Conn
    BY <1>8 DEF Authenticate, TypeOK
  <2>3. r \in Call /\ r.op = op /\ r.client = k /\ r.conn = db[k] /\ ~r.dialled
    BY <2>1 DEF NoCall, Call, Ops
  <2>4. Fits("rpc", r) /\ "rpc" \in Points
    BY <2>1, <2>3 DEF Fits, Points
  <2>5. Moves(c, "rpc", r)
    BY <1>8 DEF Authenticate, Moves
  <2>. HIDE DEF r
  <2>. QED
    BY <1>1, <1>8, <2>3, <2>4, <2>5 DEF Authenticate, TypeOK
<1>. QED
  BY <1>2, <1>3, <1>5, <1>6, <1>7, <1>8 DEF Start

\* A return is a step to "idle" without locals.
LEMMA ReturnMoves ==
  ASSUME NEW c \in Caller, Return(c)
  PROVE  Moves(c, "idle", NoCall) /\ Fits("idle", NoCall) /\ NoCall \in Call /\ "idle" \in Points
BY NoCallType DEF Return, Goto, Moves, Fits, Points

\* What follows Disconnect moves the call and may release the lock.
LEMMA DisconnectedMoves ==
  ASSUME TypeOK, ProgramInv, NEW c \in Caller, NEW b \in BOOLEAN, Disconnected(c, b),
         pc[c] \in {"detach", "close"}
  PROVE  /\ \E p \in {"dial", "sweep", "idle"}, r \in Call :
              /\ Moves(c, p, r) /\ Fits(p, r)
              /\ p = "dial" => ~b /\ r = [call[c] EXCEPT !.conn = NoConn] /\ call[c].op = "connect"
              /\ p = "sweep" => /\ r = [call[c] EXCEPT !.conn = NoConn, !.client = NoClient]
                                /\ call[c].op \in {"disconnectAll", "clear"}
              /\ p = "idle" => r = NoCall /\ call[c].op \in {"undo", "disconnect", "connect"}
         /\ holder' \in {holder, Nobody} /\ holder' # c
         /\ UNCHANGED <<connections, defaultName, known>>
<1>1. call[c] \in Call /\ Fits(pc[c], call[c])
  BY DEF TypeOK, ProgramInv
<1>2. holder' \in {holder, Nobody} /\ holder' # c /\ UNCHANGED <<connections, defaultName, known>>
  BY NoneAssumption DEF Disconnected, Released
<1>3. CASE call[c].op = "connect" /\ ~b /\ Goto(c, "dial") /\ call' = [call EXCEPT ![c].conn = NoConn]
  <2>. DEFINE r == [call[c] EXCEPT !.conn = NoConn]
  <2>1. Moves(c, "dial", r)
    BY <1>3 DEF Moves, Goto
  <2>2. r \in Call /\ Fits("dial", r)
    BY <1>1, <1>3 DEF Call, Fits
  <2>. QED
    BY <1>2, <1>3, <2>1, <2>2
<1>4. CASE /\ call[c].op \in {"disconnectAll", "clear"} /\ Goto(c, "sweep")
           /\ call' = [call EXCEPT ![c].conn = NoConn, ![c].client = NoClient]
  <2>. DEFINE r == [call[c] EXCEPT !.conn = NoConn, !.client = NoClient]
  <2>1. Moves(c, "sweep", r)
    BY <1>1, <1>4 DEF Moves, Goto, TypeOK, Call
  <2>2. r \in Call /\ Fits("sweep", r)
    BY <1>1, <1>4 DEF Call, Fits
  <2>. QED
    BY <1>2, <1>4, <2>1, <2>2
<1>5. CASE call[c].op \in {"undo", "disconnect", "connect"} /\ Return(c)
  BY <1>2, <1>5, ReturnMoves
<1>. QED
  BY <1>3, <1>4, <1>5 DEF Disconnected

\* So does every later step of a call.
LEMMA StepTyped ==
  ASSUME TypeOK, ProgramInv, NEW c \in Caller, Step(c) \/ Locking(c)
  PROVE  TypeOK' /\ ProgramInv'
<1>. USE DEF registry, client, ghosts
<1>1. call[c] \in Call /\ Fits(pc[c], call[c])
  BY DEF TypeOK, ProgramInv
<1>2. holder = c => pc[c] \in {"detach", "close"} /\ call[c].op = "undo"
  BY NoneAssumption DEF TypeOK
<1>3. CASE Dial(c)
  <2>1. PICK x \in Conn : open' = open \union {x} /\ call' = [call EXCEPT ![c].conn = x]
    BY <1>3 DEF Dial
  <2>. DEFINE r == [call[c] EXCEPT !.conn = x]
  <2>2. r \in Call /\ Fits("install", r) /\ "install" \in Points
    BY <1>1, <1>3 DEF Call, Fits, Dial, Points
  <2>3. Moves(c, "install", r)
    BY <1>3, <2>1 DEF Dial, Moves, Goto
  <2>. HIDE DEF r
  <2>. QED
    BY <1>2, <1>3, <2>1, <2>2, <2>3, CallTyped DEF Dial, TypeOK
<1>4. CASE DialFails(c)
  <2>1. CASE Return(c)
    BY <1>2, <1>4, <2>1, ReturnMoves, CallTyped DEF DialFails, TypeOK
  <2>2. CASE call[c].attempt < Attempts /\ pc' = pc /\ call' = [call EXCEPT ![c].attempt = @ + 1]
    <3>. DEFINE r == [call[c] EXCEPT !.attempt = @ + 1]
    <3>1. r \in Call /\ Fits("dial", r) /\ "dial" \in Points
      BY <1>1, <1>4, <2>2, AttemptAssumption DEF Call, Fits, DialFails, Points
    <3>2. Moves(c, "dial", r)
      BY <1>4, <2>2 DEF DialFails, Moves, TypeOK
    <3>. HIDE DEF r
    <3>. QED
      BY <1>2, <1>4, <3>1, <3>2, CallTyped DEF DialFails, TypeOK
  <2>. QED
    BY <1>4, <2>1, <2>2 DEF DialFails
<1>5. CASE Install(c)
  <2>1. /\ call[c].client \in Client /\ call[c].conn \in Conn
        /\ db' \in [Client -> Conn \union {NoConn}] /\ severed' \subseteq Conn
    BY <1>1, <1>5 DEF Install, Fits, TypeOK
  <2>2. CASE Return(c)
    BY <1>2, <1>5, <2>1, <2>2, ReturnMoves, CallTyped DEF Install, TypeOK
  <2>3. CASE /\ call[c].op = "register" /\ Goto(c, "insert")
             /\ call' = [call EXCEPT ![c].conn = NoConn, ![c].dialled = TRUE]
    <3>. DEFINE r == [call[c] EXCEPT !.conn = NoConn, !.dialled = TRUE]
    <3>1. r \in Call /\ Fits("insert", r) /\ "insert" \in Points
      BY <1>1, <2>1, <2>3 DEF Call, Fits, Points
    <3>2. Moves(c, "insert", r)
      BY <1>1, <2>3 DEF Moves, Goto, TypeOK, Call
    <3>. HIDE DEF r
    <3>. QED
      BY <1>2, <1>5, <2>1, <3>1, <3>2, CallTyped DEF Install, TypeOK
  <2>. QED
    BY <1>5, <2>2, <2>3 DEF Install
<1>6. CASE Detach(c)
  <2>1. /\ call[c].client \in Client /\ db[call[c].client] \in Conn
        /\ call[c].op \in {"connect", "undo", "disconnect", "disconnectAll", "clear"}
    BY <1>1, <1>6 DEF Detach, Fits, TypeOK
  <2>. DEFINE r == [call[c] EXCEPT !.conn = db[call[c].client]]
  <2>2. r \in Call /\ Fits("close", r) /\ "close" \in Points /\ r.op = call[c].op
    BY <1>1, <2>1 DEF Call, Fits, Points
  <2>3. Moves(c, "close", r)
    BY <1>6 DEF Detach, Moves, Goto
  <2>. HIDE DEF r
  <2>4. db' \in [Client -> Conn \union {NoConn}] /\ token' \in [Client -> Conn \union {NoConn}]
    BY <1>6 DEF Detach, TypeOK
  <2>. QED
    BY <1>2, <1>6, <2>2, <2>3, <2>4, CallTyped DEF Detach, TypeOK
<1>7. CASE DetachNothing(c) \/ Close(c) \/ CloseFails(c)
  <2>1. PICK b \in BOOLEAN : Disconnected(c, b) /\ pc[c] \in {"detach", "close"}
    BY <1>7 DEF DetachNothing, Close, CloseFails
  <2>2. PICK p \in {"dial", "sweep", "idle"}, r \in Call : Moves(c, p, r) /\ Fits(p, r)
    BY <2>1, DisconnectedMoves
  <2>3. /\ holder' \in {holder, Nobody} /\ holder' # c
        /\ UNCHANGED <<connections, defaultName, known>>
    BY <2>1, DisconnectedMoves
  <2>4. pc[c] = "close" => call[c].conn \in Conn
    BY <1>1 DEF Fits
  <2>5. /\ token' \in [Client -> Conn \union {NoConn}] /\ open' \subseteq Conn
        /\ stuck' \subseteq Conn /\ late' \subseteq Conn /\ UNCHANGED <<db, severed>>
    BY <1>7, <2>4 DEF DetachNothing, Close, CloseFails, TypeOK
  <2>. QED
    BY <2>2, <2>3, <2>5, CallTyped DEF TypeOK, Points
<1>8. CASE Sweep(c)
  <2>1. PICK k \in call[c].todo :
          \/ /\ Goto(c, "detach")
             /\ call' = [call EXCEPT ![c].todo = @ \ {k}, ![c].client = k]
          \/ pc' = pc /\ call' = [call EXCEPT ![c].todo = @ \ {k}]
    BY <1>8 DEF Sweep
  <2>2. k \in Client /\ pc[c] = "sweep"
    BY <1>1, <1>8 DEF Call, Sweep
  <2>3. CASE /\ Goto(c, "detach")
             /\ call' = [call EXCEPT ![c].todo = @ \ {k}, ![c].client = k]
    <3>. DEFINE r == [call[c] EXCEPT !.todo = @ \ {k}, !.client = k]
    <3>1. r \in Call /\ Fits("detach", r) /\ "detach" \in Points
      BY <1>1, <2>2 DEF Call, Fits, Points
    <3>2. Moves(c, "detach", r)
      BY <1>1, <2>3 DEF Moves, Goto, TypeOK, Call
    <3>. HIDE DEF r
    <3>. QED
      BY <1>2, <1>8, <2>2, <3>1, <3>2, CallTyped DEF Sweep, TypeOK
  <2>4. CASE pc' = pc /\ call' = [call EXCEPT ![c].todo = @ \ {k}]
    <3>. DEFINE r == [call[c] EXCEPT !.todo = @ \ {k}]
    <3>1. r \in Call /\ Fits("sweep", r) /\ "sweep" \in Points
      BY <1>1, <2>2 DEF Call, Fits, Points
    <3>2. Moves(c, "sweep", r)
      BY <2>2, <2>4 DEF Moves, TypeOK
    <3>. HIDE DEF r
    <3>. QED
      BY <1>2, <1>8, <2>2, <3>1, <3>2, CallTyped DEF Sweep, TypeOK
  <2>. QED
    BY <2>1, <2>3, <2>4
<1>9. CASE SweepEnds(c)
  <2>1. CASE Return(c)
    BY <1>2, <1>9, <2>1, ReturnMoves, CallTyped DEF SweepEnds, TypeOK
  <2>2. CASE call[c].op = "clear" /\ Goto(c, "empty") /\ call' = call
    <3>1. Fits("empty", call[c]) /\ "empty" \in Points
      BY <1>1, <1>9, <2>2 DEF SweepEnds, Fits, Points
    <3>2. Moves(c, "empty", call[c])
      BY <2>2 DEF Moves, Goto, TypeOK
    <3>. QED
      BY <1>1, <1>2, <1>9, <3>1, <3>2, CallTyped DEF SweepEnds, TypeOK
  <2>. QED
    BY <1>9, <2>1, <2>2 DEF SweepEnds
<1>10. CASE StoreToken(c)
  <2>1. call[c].conn \in Conn /\ pc[c] = "rpc" /\ Return(c)
    BY <1>1, <1>10 DEF StoreToken, Fits
  <2>2. token' \in [Client -> Conn \union {NoConn}] /\ late' \subseteq Conn
    BY <1>10, <2>1 DEF StoreToken, TypeOK
  <2>. QED
    BY <1>2, <1>10, <2>1, <2>2, ReturnMoves, CallTyped DEF StoreToken, TypeOK
<1>11. CASE AuthFails(c)
  BY <1>2, <1>11, ReturnMoves, CallTyped DEF AuthFails, TypeOK
<1>12. CASE Insert(c)
  <2>1. /\ call[c].client \in Client /\ call[c].name \in Name \union {NoName}
        /\ pc[c] = "insert" /\ Return(c) /\ UNCHANGED <<holder, client, ghosts>>
    BY <1>1, <1>12 DEF Insert, Fits, Call
  <2>2. /\ connections' \in [Name -> Client \union {NoClient}]
        /\ defaultName' \in Name \union {NoName} /\ known' \subseteq Client
    BY <1>12, <2>1 DEF Insert, TypeOK
  <2>. QED
    BY <1>2, <2>1, <2>2, ReturnMoves, CallTyped DEF TypeOK
<1>13. CASE InsertTaken(c)
  <2>1. CASE Return(c) /\ holder' = holder
    BY <1>2, <1>13, <2>1, ReturnMoves, CallTyped DEF InsertTaken, TypeOK
  <2>2. CASE holder' = c /\ Goto(c, "detach") /\ call' = [call EXCEPT ![c].op = "undo"]
    <3>. DEFINE r == [call[c] EXCEPT !.op = "undo"]
    <3>1. r \in Call /\ Fits("detach", r) /\ "detach" \in Points /\ r.op = "undo"
      BY <1>1, <1>13 DEF InsertTaken, Call, Ops, Fits, Points
    <3>2. Moves(c, "detach", r)
      BY <2>2 DEF Moves, Goto
    <3>. HIDE DEF r
    <3>. QED
      BY <1>13, <2>2, <3>1, <3>2, CallTyped DEF InsertTaken, TypeOK
  <2>. QED
    BY <1>13, <2>1, <2>2 DEF InsertTaken
<1>14. CASE Empty(c)
  <2>1. connections' \in [Name -> Client \union {NoClient}] /\ defaultName' \in Name \union {NoName}
    BY <1>14 DEF Empty
  <2>. QED
    BY <1>2, <1>14, <2>1, ReturnMoves, CallTyped DEF Empty, TypeOK
<1>. QED
  BY <1>3, <1>4, <1>5, <1>6, <1>7, <1>8, <1>9, <1>10, <1>11, <1>12, <1>13, <1>14 DEF Step, Locking

LEMMA TypedInductive == TypeOK /\ ProgramInv /\ [Next]_vars => TypeOK' /\ ProgramInv'
<1>. SUFFICES ASSUME TypeOK, ProgramInv, [Next]_vars PROVE TypeOK' /\ ProgramInv'
  OBVIOUS
<1>1. CASE UNCHANGED vars
  BY <1>1 DEF vars, registry, client, ghosts, TypeOK, ProgramInv
<1>2. CASE Next
  BY <1>2, StartTyped, StepTyped DEF Next
<1>. QED
  BY <1>1, <1>2

LEMMA TypedInitially == Init => TypeOK /\ ProgramInv
BY NoCallType, NoneAssumption DEF Init, TypeOK, ProgramInv, Fits, NoCall, NoName

LEMMA Typed == Spec => [](TypeOK /\ ProgramInv)
BY TypedInitially, TypedInductive, PTL DEF Spec

\* Type correctness of the registry and its clients; a lock held over an RPC is held by
\* a Register that takes its connection back (registry.go:105-117).
THEOREM TypeCorrect == Spec => []TypeOK
BY Typed, PTL
-----------------------------------------------------------------------------
(* The default name.                                                       *)

LEMMA DefaultInductive ==
  ASSUME TypeOK, ProgramInv, DefaultIsRegistered, [Next]_vars
  PROVE  DefaultIsRegistered'
<1>. USE DEF DefaultIsRegistered, Registered, registry
<1>1. CASE UNCHANGED <<connections, defaultName>>
  BY <1>1
<1>2. ASSUME NEW c \in Caller, Insert(c) PROVE DefaultIsRegistered'
  <2>1. call[c].client \in Client
    BY <1>2 DEF Insert, ProgramInv, Fits
  <2>2. call[c].name \in Name
    BY <1>2 DEF Insert, ProgramInv, Fits
  <2>. QED
    BY <1>2, <2>1, <2>2, NoneAssumption, NameAssumption DEF Insert, TypeOK, NoName
<1>3. ASSUME NEW c \in Caller, Empty(c) PROVE DefaultIsRegistered'
  BY <1>3 DEF Empty
<1>4. ASSUME NEW c \in Caller, NEW n \in Name, SetDefault(c, n) PROVE DefaultIsRegistered'
  BY <1>4 DEF SetDefault
<1>5. ASSUME NEW c \in Caller, NEW n \in Name, NEW b \in BOOLEAN, Unregister(c, n, b)
      PROVE  DefaultIsRegistered'
  <2>1. Registered' = Registered \ {n} /\ Registered' \in SUBSET Name
    BY <1>5 DEF Unregister, TypeOK
  <2>2. defaultName = n => defaultName' = FirstName(Registered')
    BY <1>5, <2>1 DEF Unregister
  <2>3. defaultName # n => defaultName' = defaultName /\ defaultName \in Registered
    BY <1>5 DEF Unregister
  <2>. QED
    BY <2>1, <2>2, <2>3, FirstNameFits
<1>6. ASSUME NEW c \in Caller, Start(c) PROVE DefaultIsRegistered'
  BY <1>1, <1>4, <1>5, <1>6 DEF Start, Register, DisconnectAll, Connect, Disconnect, Authenticate
<1>7. ASSUME NEW c \in Caller, Step(c) PROVE UNCHANGED <<connections, defaultName>>
  BY <1>7 DEF Step, Dial, DialFails, Install, Detach, DetachNothing, Close, CloseFails, Sweep,
              SweepEnds, StoreToken, AuthFails, Disconnected
<1>8. ASSUME NEW c \in Caller, Locking(c) PROVE DefaultIsRegistered'
  BY <1>1, <1>2, <1>3, <1>8 DEF Locking, InsertTaken
<1>. QED
  BY <1>1, <1>6, <1>7, <1>8 DEF Next, vars

\* There is a default exactly while something is registered, and it is registered, for
\* every number of goroutines and names (registry.go:119-123, 142-144, 198-205, 268-272).
THEOREM DefaultStaysRegistered == Spec => []DefaultIsRegistered
<1>1. Init => DefaultIsRegistered
  BY DEF Init, DefaultIsRegistered, Registered
<1>2. TypeOK /\ ProgramInv /\ DefaultIsRegistered /\ [Next]_vars => DefaultIsRegistered'
  BY DefaultInductive
<1>. QED
  BY <1>1, <1>2, Typed, PTL DEF Spec
-----------------------------------------------------------------------------
(* Who has a client.                                                       *)

\* A Register that has not handed its client over.
Building(c) == call[c].op \in {"register", "undo"}

\* Everybody but a Register works on clients the program knows.
KnownInv ==
  /\ \A n \in Name : connections[n] # NoClient => connections[n] \in known
  /\ \A c \in Caller :
       /\ call[c].op \in {"connect", "disconnect", "signin", "invalidate"} => call[c].client \in known
       /\ call[c].op \in {"disconnectAll", "clear"} => call[c].client \in known \union {NoClient}
       /\ call[c].todo \subseteq known

\* A Register has its client for itself, and the client has no connection before it is
\* dialled and after it has been taken back.
PrivateInv ==
  \A c \in Caller : Building(c) =>
    /\ call[c].client \in Client \ known
    /\ \A d \in Caller \ {c} : Building(d) => call[d].client # call[c].client
    /\ call[c].op = "register" /\ ~call[c].dialled => db[call[c].client] = NoConn
    /\ call[c].op = "undo" /\ pc[c] = "close" => db[call[c].client] = NoConn

Ownership == KnownInv /\ PrivateInv

LEMMA StartOwned ==
  ASSUME TypeOK, ProgramInv, Ownership, NEW c \in Caller, Start(c)
  PROVE  Ownership'
<1>. USE NoCallType, NoneAssumption DEF Ownership, KnownInv, PrivateInv, Building, registry, client, ghosts
<1>1. ASSUME NEW n \in Name, SetDefault(c, n) PROVE Ownership'
  BY <1>1 DEF SetDefault
<1>2. ASSUME NEW n \in Name, NEW b \in BOOLEAN, Register(c, n, b) PROVE Ownership'
  <2>1. PICK k \in Client : /\ FreshClient(k) /\ known' = known \ {k}
                            /\ call' = [call EXCEPT ![c] = [NoCall EXCEPT
                                 !.op = "register", !.client = k, !.name = n, !.promote = b]]
    BY <1>2 DEF Register
  <2>2. /\ call'[c].op = "register" /\ call'[c].client = k /\ call'[c].todo = {}
        /\ \A d \in Caller \ {c} : call'[d] = call[d] /\ pc'[d] = pc[d]
        /\ UNCHANGED <<connections, db>> /\ pc'[c] # "close"
    BY <1>2, <2>1, ZenonT(20) DEF Register, Goto, NoCall, TypeOK
  <2>3. /\ db[k] = NoConn /\ \A m \in Name : connections[m] # k
        /\ \A d \in Caller : call[d].client # k /\ k \notin call[d].todo
    BY <2>1 DEF FreshClient
  <2>4. KnownInv'
    BY <2>1, <2>2, <2>3
  <2>5. PrivateInv'
    BY <2>1, <2>2, <2>3
  <2>. QED
    BY <2>4, <2>5
<1>3. ASSUME NEW op \in {"connect", "disconnect", "signin", "invalidate", "disconnectAll", "clear"},
             call'[c].op = op, call'[c].client \in known \/ (op \in {"disconnectAll", "clear"} /\ call'[c].client = NoClient),
             call'[c].todo \subseteq known,
             \A d \in Caller \ {c} : call'[d] = call[d] /\ pc'[d] = pc[d],
             UNCHANGED <<known, db>>,
             \A n \in Name : connections'[n] \in {connections[n], NoClient}
      PROVE  Ownership'
  BY <1>3
<1>4. ASSUME NEW n \in Name, NEW b \in BOOLEAN, Unregister(c, n, b) PROVE Ownership'
  <2>1. /\ UNCHANGED <<known, db>> /\ \A m \in Name : connections'[m] \in {connections[m], NoClient}
        /\ connections[n] \in known
    BY <1>4 DEF Unregister, Registered, TypeOK
  <2>2. CASE Begin(c, "disconnect", connections[n], "detach")
    <3>1. /\ call'[c].op = "disconnect" /\ call'[c].client = connections[n] /\ call'[c].todo = {}
          /\ \A d \in Caller \ {c} : call'[d] = call[d] /\ pc'[d] = pc[d]
      BY <2>2 DEF Begin, NoCall, TypeOK
    <3>. QED
      BY <1>3, <2>1, <3>1
  <2>3. CASE UNCHANGED <<pc, call>>
    BY <2>1, <2>3
  <2>. QED
    BY <1>4, <2>2, <2>3 DEF Unregister
<1>5. ASSUME NEW op \in {"disconnectAll", "clear"}, DisconnectAll(c, op) PROVE Ownership'
  <2>1. /\ call'[c].op = op /\ call'[c].client = NoClient
        /\ call'[c].todo = {connections[n] : n \in Registered}
        /\ \A d \in Caller \ {c} : call'[d] = call[d] /\ pc'[d] = pc[d]
    BY <1>5 DEF DisconnectAll, NoCall, Goto, TypeOK
  <2>2. {connections[n] : n \in Registered} \subseteq known
    BY DEF Registered
  <2>. QED
    BY <1>3, <1>5, <2>1, <2>2 DEF DisconnectAll
<1>6. ASSUME NEW k \in Client, NEW op \in {"connect", "disconnect"}, NEW p, Begin(c, op, k, p), k \in known,
             UNCHANGED <<connections, known, db>>
      PROVE  Ownership'
  <2>1. /\ call'[c].op = op /\ call'[c].client = k /\ call'[c].todo = {}
        /\ \A d \in Caller \ {c} : call'[d] = call[d] /\ pc'[d] = pc[d]
    BY <1>6 DEF Begin, NoCall, TypeOK
  <2>. QED
    BY <1>3, <1>6, <2>1
<1>7. ASSUME NEW k \in Client, Connect(c, k) \/ Disconnect(c, k) PROVE Ownership'
  BY <1>6, <1>7 DEF Connect, Disconnect
<1>8. ASSUME NEW k \in Client, NEW op \in {"signin", "invalidate"}, Authenticate(c, k, op) PROVE Ownership'
  <2>1. /\ call'[c].op = op /\ call'[c].client = k /\ call'[c].todo = {}
        /\ \A d \in Caller \ {c} : call'[d] = call[d] /\ pc'[d] = pc[d]
    BY <1>8 DEF Authenticate, NoCall, TypeOK
  <2>. QED
    BY <1>3, <1>8, <2>1 DEF Authenticate
<1>. QED
  BY <1>1, <1>2, <1>4, <1>5, <1>7, <1>8 DEF Start

LEMMA StepOwned ==
  ASSUME TypeOK, ProgramInv, Ownership, NEW c \in Caller, Step(c) \/ Locking(c)
  PROVE  Ownership'
<1>. USE NoCallType, NoneAssumption DEF Ownership, KnownInv, PrivateInv, Building, registry, client, ghosts
<1>1. call[c] \in Call /\ Fits(pc[c], call[c])
  BY DEF TypeOK, ProgramInv
\* The call goes on with the client it has, or returns; no client gains a connection.
<1>2. ASSUME \A d \in Caller \ {c} : call'[d] = call[d] /\ pc'[d] = pc[d],
             \/ call'[c] = NoCall
             \/ /\ call'[c].op = call[c].op /\ call'[c].client = call[c].client
                /\ call'[c].todo \subseteq call[c].todo /\ call'[c].dialled = call[c].dialled
                /\ pc'[c] = "close" => pc[c] = "close" \/ db'[call[c].client] = NoConn,
             UNCHANGED <<connections, known>>,
             \A k \in Client : db'[k] \in {db[k], NoConn}
      PROVE  Ownership'
  BY <1>2
<1>3. ASSUME Return(c)
      PROVE  call'[c] = NoCall /\ \A d \in Caller \ {c} : call'[d] = call[d] /\ pc'[d] = pc[d]
  BY <1>3 DEF Return, Goto, TypeOK
<1>4. CASE Dial(c)
  <2>1. /\ \A d \in Caller \ {c} : call'[d] = call[d] /\ pc'[d] = pc[d]
        /\ call'[c].op = call[c].op /\ call'[c].client = call[c].client
        /\ call'[c].todo = call[c].todo /\ call'[c].dialled = call[c].dialled
        /\ pc'[c] = "install"
    BY <1>4 DEF Dial, Goto, TypeOK, Call
  <2>. QED
    BY <1>2, <1>4, <2>1 DEF Dial
<1>5. CASE DialFails(c)
  <2>1. CASE Return(c)
    BY <1>2, <1>3, <1>5, <2>1 DEF DialFails
  <2>2. CASE pc' = pc /\ call' = [call EXCEPT ![c].attempt = @ + 1]
    <3>1. /\ \A d \in Caller \ {c} : call'[d] = call[d] /\ pc'[d] = pc[d]
          /\ call'[c].op = call[c].op /\ call'[c].client = call[c].client
          /\ call'[c].todo = call[c].todo /\ call'[c].dialled = call[c].dialled
          /\ pc'[c] = "dial"
      BY <1>5, <2>2 DEF DialFails, TypeOK, Call
    <3>. QED
      BY <1>2, <1>5, <3>1 DEF DialFails
  <2>. QED
    BY <1>5, <2>1, <2>2 DEF DialFails
<1>6. CASE Install(c)
  <2>1. /\ call[c].client \in Client /\ call[c].op \in {"connect", "register"}
        /\ \A k \in Client \ {call[c].client} : db'[k] = db[k]
        /\ UNCHANGED <<connections, known>>
    BY <1>1, <1>6 DEF Install, Fits, TypeOK
  <2>2. \A d \in Caller \ {c} : call'[d] = call[d] /\ pc'[d] = pc[d]
    BY <1>3, <1>6 DEF Install, Goto, TypeOK
  <2>3. \A d \in Caller \ {c} : Building(d) => call[d].client # call[c].client
    BY <2>1
  <2>4. \/ call'[c] = NoCall
        \/ /\ call'[c].op = "register" /\ call[c].op = "register" /\ call'[c].client = call[c].client
           /\ call'[c].todo = call[c].todo /\ call'[c].dialled
    BY <1>1, <1>3, <1>6 DEF Install, TypeOK, Call
  <2>. QED
    BY <2>1, <2>2, <2>3, <2>4
<1>7. CASE Detach(c)
  <2>1. /\ \A d \in Caller \ {c} : call'[d] = call[d] /\ pc'[d] = pc[d]
        /\ call'[c].op = call[c].op /\ call'[c].client = call[c].client
        /\ call'[c].todo = call[c].todo /\ call'[c].dialled = call[c].dialled
    BY <1>7 DEF Detach, Goto, TypeOK, Call
  <2>2. db'[call[c].client] = NoConn /\ \A k \in Client : db'[k] \in {db[k], NoConn}
    BY <1>1, <1>7 DEF Detach, Fits, TypeOK
  <2>. QED
    BY <1>2, <1>7, <2>1, <2>2 DEF Detach
<1>8. CASE DetachNothing(c) \/ Close(c) \/ CloseFails(c)
  <2>1. PICK b \in BOOLEAN : Disconnected(c, b) /\ pc[c] \in {"detach", "close"}
    BY <1>8 DEF DetachNothing, Close, CloseFails
  <2>2. UNCHANGED <<connections, known, db>>
    BY <1>8, <2>1 DEF DetachNothing, Close, CloseFails, Disconnected
  <2>3. CASE Return(c)
    BY <1>2, <1>3, <2>2, <2>3
  <2>4. CASE call[c].op = "connect" /\ Goto(c, "dial") /\ call' = [call EXCEPT ![c].conn = NoConn]
    <3>1. /\ \A d \in Caller \ {c} : call'[d] = call[d] /\ pc'[d] = pc[d]
          /\ call'[c].op = call[c].op /\ call'[c].client = call[c].client
          /\ call'[c].todo = call[c].todo /\ call'[c].dialled = call[c].dialled
          /\ pc'[c] = "dial"
      BY <2>4 DEF Goto, TypeOK, Call
    <3>. QED
      BY <1>2, <2>2, <3>1
  <2>5. CASE /\ call[c].op \in {"disconnectAll", "clear"} /\ Goto(c, "sweep")
             /\ call' = [call EXCEPT ![c].conn = NoConn, ![c].client = NoClient]
    <3>1. /\ \A d \in Caller \ {c} : call'[d] = call[d] /\ pc'[d] = pc[d]
          /\ call'[c].op = call[c].op /\ call'[c].client = NoClient
          /\ call'[c].todo = call[c].todo
      BY <2>5 DEF Goto, TypeOK, Call
    <3>2. KnownInv'
      <4>1. \A n \in Name : connections'[n] # NoClient => connections'[n] \in known'
        BY <2>2
      <4>2. /\ call'[c].op \in {"disconnectAll", "clear"}
            /\ call'[c].client = NoClient /\ call'[c].todo \subseteq known'
        BY <2>2, <2>5, <3>1
      <4>. QED
        BY <2>2, <3>1, <4>1, <4>2
    <3>3. ~Building(c) /\ ~Building(c)'
      BY <2>5, <3>1
    <3>4. PrivateInv'
      BY <2>2, <3>1, <3>3
    <3>. QED
      BY <3>2, <3>4
  <2>. QED
    BY <2>1, <2>3, <2>4, <2>5 DEF Disconnected
<1>9. CASE Sweep(c)
  <2>1. PICK k \in call[c].todo :
          \/ /\ Goto(c, "detach")
             /\ call' = [call EXCEPT ![c].todo = @ \ {k}, ![c].client = k]
          \/ pc' = pc /\ call' = [call EXCEPT ![c].todo = @ \ {k}]
    BY <1>9 DEF Sweep
  <2>2. k \in known /\ call[c].op \in {"disconnectAll", "clear"}
    BY <1>1, <1>9 DEF Sweep, Fits
  <2>3. /\ \A d \in Caller \ {c} : call'[d] = call[d] /\ pc'[d] = pc[d]
        /\ call'[c].op = call[c].op /\ call'[c].client \in {k, call[c].client}
        /\ call'[c].todo \subseteq call[c].todo
    BY <2>1 DEF Goto, TypeOK, Call
  <2>. QED
    BY <1>9, <2>2, <2>3 DEF Sweep
<1>10. CASE SweepEnds(c)
  <2>1. CASE Return(c)
    BY <1>2, <1>3, <1>10, <2>1 DEF SweepEnds
  <2>2. CASE Goto(c, "empty") /\ call' = call
    <3>1. pc'[c] = "empty" /\ \A d \in Caller \ {c} : pc'[d] = pc[d]
      BY <2>2 DEF Goto, TypeOK
    <3>. QED
      BY <1>2, <1>10, <2>2, <3>1 DEF SweepEnds
  <2>. QED
    BY <1>10, <2>1, <2>2 DEF SweepEnds
<1>11. CASE StoreToken(c) \/ AuthFails(c)
  BY <1>2, <1>3, <1>11 DEF StoreToken, AuthFails
<1>12. CASE Insert(c)
  <2>1. call[c].op = "register"
    BY <1>1, <1>12 DEF Insert, Fits
  <2>2. /\ known' = known \union {call[c].client} /\ db' = db
        /\ \A n \in Name : connections'[n] \in {connections[n], call[c].client}
        /\ call'[c] = NoCall /\ \A d \in Caller \ {c} : call'[d] = call[d] /\ pc'[d] = pc[d]
    BY <1>3, <1>12 DEF Insert, TypeOK
  <2>. QED
    BY <2>1, <2>2
<1>13. CASE InsertTaken(c)
  <2>1. CASE Return(c)
    BY <1>2, <1>3, <1>13, <2>1 DEF InsertTaken
  <2>2. CASE Goto(c, "detach") /\ call' = [call EXCEPT ![c].op = "undo"]
    <3>1. call[c].op = "register" /\ UNCHANGED <<connections, known, db>>
      BY <1>1, <1>13 DEF InsertTaken, Fits
    <3>2. /\ \A d \in Caller \ {c} : call'[d] = call[d] /\ pc'[d] = pc[d]
          /\ call'[c].op = "undo" /\ call'[c].client = call[c].client
          /\ call'[c].todo = call[c].todo /\ pc'[c] = "detach"
      BY <2>2 DEF Goto, TypeOK, Call
    <3>. QED
      BY <3>1, <3>2
  <2>. QED
    BY <1>13, <2>1, <2>2 DEF InsertTaken
<1>14. CASE Empty(c)
  BY <1>3, <1>14 DEF Empty
<1>. QED
  BY <1>4, <1>5, <1>6, <1>7, <1>8, <1>9, <1>10, <1>11, <1>12, <1>13, <1>14 DEF Step, Locking

LEMMA Owned == Spec => []Ownership
<1>1. Init => Ownership
  BY NoCallType DEF Init, Ownership, KnownInv, PrivateInv, Building
<1>2. TypeOK /\ ProgramInv /\ Ownership /\ [Next]_vars => Ownership'
  <2>. SUFFICES ASSUME TypeOK, ProgramInv, Ownership, [Next]_vars PROVE Ownership'
    OBVIOUS
  <2>1. CASE UNCHANGED vars
    BY <2>1 DEF vars, registry, client, Ownership, KnownInv, PrivateInv, Building
  <2>. QED
    BY <2>1, StartOwned, StepOwned DEF Next
<1>. QED
  BY <1>1, <1>2, Typed, PTL DEF Spec
-----------------------------------------------------------------------------
(* No connection is lost.                                                  *)

\* Somebody can close x.
Reachable(x) ==
  \/ \E k \in Client : db[k] = x /\ (k \in known \/ \E c \in Caller : call[c].client = k)
  \/ \E c \in Caller : call[c].conn = x /\ pc[c] \in {"install", "close"}

\* A step of c that gives up no client and no connection.
LEMMA KeepsReachable ==
  ASSUME TypeOK, NEW c \in Caller, NEW x, Reachable(x),
         \A d \in Caller \ {c} : call'[d] = call[d] /\ pc'[d] = pc[d],
         known \subseteq known',
         \A k \in Client : db[k] = x => db'[k] = x,
         call[c].conn = x /\ pc[c] \in {"install", "close"} =>
           call'[c].conn = x /\ pc'[c] \in {"install", "close"},
         \A k \in Client : db[k] = x /\ k = call[c].client =>
           k \in known' \/ call'[c].client = k
  PROVE  Reachable(x)'
BY DEF Reachable

LEMMA LostInductive ==
  ASSUME TypeOK, ProgramInv, Ownership, NoConnectionLost, [Next]_vars
  PROVE  NoConnectionLost'
<1>. USE NoneAssumption, NoCallType DEF registry, client, ghosts
<1>. SUFFICES ASSUME NEW x, (x \in open \ (severed \union stuck))' PROVE Reachable(x)'
  BY DEF NoConnectionLost, Reachable
<1>1. x \in open \ (severed \union stuck) => Reachable(x)
  BY DEF NoConnectionLost, Reachable
<1>2. CASE UNCHANGED vars
  BY <1>1, <1>2 DEF vars, Reachable
<1>3. ASSUME NEW c \in Caller, Start(c) PROVE Reachable(x)'
  <2>1. x \in Conn /\ Reachable(x) /\ pc[c] = "idle" /\ call[c].client = NoClient
    <3>1. (UNCHANGED <<open, severed, stuck>> /\ pc[c] = "idle") \/ \E n \in Name : SetDefault(c, n)
      BY <1>3 DEF Start, Register, Unregister, DisconnectAll, Connect, Disconnect, Authenticate, Begin
    <3>2. UNCHANGED <<open, severed, stuck>> /\ pc[c] = "idle"
      BY <3>1 DEF SetDefault
    <3>. QED
      BY <1>1, <3>2 DEF TypeOK, ProgramInv, Fits
  <2>2. CASE \E n \in Name, b \in BOOLEAN : Register(c, n, b)
    <3>1. PICK n \in Name, b \in BOOLEAN : Register(c, n, b)
      BY <2>2
    <3>2. PICK k \in Client : FreshClient(k) /\ known' = known \ {k}
      BY <3>1 DEF Register
    <3>3. \A d \in Caller \ {c} : call'[d] = call[d] /\ pc'[d] = pc[d]
      BY <3>1 DEF Register, Goto, TypeOK
    <3>4. db' = db /\ db[k] # x
      BY <2>1, <3>1, <3>2 DEF Register, FreshClient
    <3>. QED
      BY <2>1, <3>2, <3>3, <3>4 DEF Reachable
  <2>3. CASE ~\E n \in Name, b \in BOOLEAN : Register(c, n, b)
    <3>1. known' = known /\ db' = db
      BY <1>3, <2>3 DEF Start, SetDefault, Unregister, DisconnectAll, Connect, Disconnect, Authenticate
    <3>2. \A d \in Caller \ {c} : call'[d] = call[d] /\ pc'[d] = pc[d]
      BY <1>3, <2>3, ZenonT(20) DEF Start, SetDefault, Unregister, DisconnectAll, Connect, Disconnect,
                                  Authenticate, Begin, Goto, TypeOK
    <3>. QED
      BY <2>1, <3>1, <3>2, KeepsReachable
  <2>. QED
    BY <2>2, <2>3
<1>4. ASSUME NEW c \in Caller, Step(c) \/ Locking(c) PROVE Reachable(x)'
  <2>1. call[c] \in Call /\ Fits(pc[c], call[c])
    BY DEF TypeOK, ProgramInv
  <2>2. ASSUME Return(c)
        PROVE  call'[c] = NoCall /\ \A d \in Caller \ {c} : call'[d] = call[d] /\ pc'[d] = pc[d]
    BY <2>2 DEF Return, Goto, TypeOK
  \* A call that returns has a client the program knows, one without a connection, or none.
  <2>3. ASSUME Return(c), x \in open \ (severed \union stuck), db' = db, known \subseteq known',
               pc[c] \in {"install", "close"} => call[c].conn # x,
               call[c].client \in known' \/ call[c].client = NoClient
                 \/ (call[c].client \in Client /\ db[call[c].client] = NoConn)
        PROVE  Reachable(x)'
    <3>1. x \in Conn
      BY <2>3 DEF TypeOK
    <3>. QED
      BY <1>1, <2>2, <2>3, <3>1, KeepsReachable
  \* A call that goes on keeps its client.
  <2>4. ASSUME x \in open \ (severed \union stuck), db' = db, known \subseteq known',
               \A d \in Caller \ {c} : call'[d] = call[d] /\ pc'[d] = pc[d],
               pc[c] \in {"install", "close"} => call[c].conn # x,
               call'[c].client = call[c].client \/ call[c].client = NoClient
        PROVE  Reachable(x)'
    BY <1>1, <2>4, KeepsReachable
  <2>5. CASE Dial(c)
    <3>1. PICK y \in Conn : open' = open \union {y} /\ call' = [call EXCEPT ![c].conn = y]
      BY <2>5 DEF Dial
    <3>2. /\ \A d \in Caller \ {c} : call'[d] = call[d] /\ pc'[d] = pc[d]
          /\ call'[c].client = call[c].client /\ call'[c].conn = y /\ pc'[c] = "install"
      BY <2>5, <3>1 DEF Dial, Goto, TypeOK, Call
    <3>3. CASE x = y
      BY <3>2, <3>3 DEF Reachable
    <3>4. CASE x # y
      BY <2>4, <2>5, <3>1, <3>2, <3>4 DEF Dial
    <3>. QED
      BY <3>3, <3>4
  <2>6. CASE DialFails(c)
    <3>1. CASE Return(c)
      <4>1. call[c].client \in known \/ (call[c].client \in Client /\ db[call[c].client] = NoConn)
        BY <2>1, <2>6 DEF DialFails, Fits, Ownership, KnownInv, PrivateInv, Building
      <4>. QED
        BY <2>3, <2>6, <3>1, <4>1 DEF DialFails
    <3>2. CASE pc' = pc /\ call' = [call EXCEPT ![c].attempt = @ + 1]
      <4>1. /\ \A d \in Caller \ {c} : call'[d] = call[d] /\ pc'[d] = pc[d]
            /\ call'[c].client = call[c].client
        BY <3>2 DEF TypeOK, Call
      <4>. QED
        BY <2>4, <2>6, <4>1 DEF DialFails
    <3>. QED
      BY <2>6, <3>1, <3>2 DEF DialFails
  <2>7. CASE Install(c)
    <3>. DEFINE k == call[c].client
    <3>1. /\ k \in Client /\ call[c].conn \in Conn /\ pc[c] = "install"
          /\ db'[k] = call[c].conn /\ \A j \in Client \ {k} : db'[j] = db[j]
          /\ known' = known /\ severed' = severed \union ({db[k]} \ {NoConn})
          /\ UNCHANGED <<open, stuck>>
      BY <2>1, <2>7 DEF Install, Fits, TypeOK
    <3>2. /\ \A d \in Caller \ {c} : call'[d] = call[d] /\ pc'[d] = pc[d]
          /\ k \in known \/ call'[c].client = k
      <4>1. CASE call[c].op = "register" /\ Goto(c, "insert")
                 /\ call' = [call EXCEPT ![c].conn = NoConn, ![c].dialled = TRUE]
        BY <4>1 DEF Goto, TypeOK, Call
      <4>2. CASE call[c].op = "connect" /\ Return(c)
        BY <2>2, <4>2 DEF Ownership, KnownInv
      <4>. QED
        BY <2>7, <4>1, <4>2 DEF Install
    <3>3. x \in Conn /\ x # db[k] /\ Reachable(x)
      BY <1>1, <3>1 DEF TypeOK
    <3>. QED
      BY <3>1, <3>2, <3>3 DEF Reachable
  <2>8. CASE Detach(c)
    <3>. DEFINE k == call[c].client
    <3>1. /\ k \in Client /\ pc[c] = "detach" /\ \A j \in Client \ {k} : db'[j] = db[j]
          /\ known' = known /\ UNCHANGED <<open, severed, stuck>>
      BY <2>1, <2>8 DEF Detach, Fits, TypeOK
    <3>2. /\ \A d \in Caller \ {c} : call'[d] = call[d] /\ pc'[d] = pc[d]
          /\ call'[c].client = k /\ call'[c].conn = db[k] /\ pc'[c] = "close"
      BY <2>8 DEF Detach, Goto, TypeOK, Call
    <3>3. Reachable(x)
      BY <1>1, <3>1
    <3>. QED
      BY <3>1, <3>2, <3>3 DEF Reachable
  <2>9. CASE DetachNothing(c) \/ Close(c) \/ CloseFails(c)
    <3>1. PICK b \in BOOLEAN : Disconnected(c, b) /\ pc[c] \in {"detach", "close"}
      BY <2>9 DEF DetachNothing, Close, CloseFails
    <3>2. /\ x \in open \ (severed \union stuck) /\ db' = db /\ known' = known
          /\ pc[c] = "close" => call[c].conn # x
          /\ pc[c] = "close" \/ db[call[c].client] = NoConn
      BY <2>9, <3>1 DEF DetachNothing, Close, CloseFails, Disconnected
    <3>3. \/ call[c].client \in known \/ call[c].client = NoClient
          \/ (call[c].client \in Client /\ db[call[c].client] = NoConn)
      BY <2>1, <3>1, <3>2 DEF Fits, Ownership, KnownInv, PrivateInv, Building
    <3>4. CASE Return(c)
      BY <2>3, <3>1, <3>2, <3>3, <3>4
    <3>5. CASE call[c].op = "connect" /\ Goto(c, "dial") /\ call' = [call EXCEPT ![c].conn = NoConn]
      <4>1. /\ \A d \in Caller \ {c} : call'[d] = call[d] /\ pc'[d] = pc[d]
            /\ call'[c].client = call[c].client
        BY <3>5 DEF Goto, TypeOK, Call
      <4>. QED
        BY <2>4, <3>1, <3>2, <4>1
    <3>6. CASE /\ call[c].op \in {"disconnectAll", "clear"} /\ Goto(c, "sweep")
               /\ call' = [call EXCEPT ![c].conn = NoConn, ![c].client = NoClient]
      <4>1. \A d \in Caller \ {c} : call'[d] = call[d] /\ pc'[d] = pc[d]
        BY <3>6 DEF Goto, TypeOK
      <4>2. call[c].client \in known \union {NoClient}
        BY <3>6 DEF Ownership, KnownInv
      <4>3. Reachable(x) /\ x \in Conn
        BY <1>1, <3>2 DEF TypeOK
      <4>. QED
        BY <3>1, <3>2, <4>1, <4>2, <4>3 DEF Reachable
    <3>. QED
      BY <3>1, <3>4, <3>5, <3>6 DEF Disconnected
  <2>10. CASE Sweep(c)
    <3>1. PICK k \in call[c].todo :
            \/ /\ Goto(c, "detach")
               /\ call' = [call EXCEPT ![c].todo = @ \ {k}, ![c].client = k]
            \/ pc' = pc /\ call' = [call EXCEPT ![c].todo = @ \ {k}]
      BY <2>10 DEF Sweep
    <3>2. call[c].client = NoClient /\ pc[c] = "sweep"
      BY <2>1, <2>10 DEF Sweep, Fits
    <3>3. \A d \in Caller \ {c} : call'[d] = call[d] /\ pc'[d] = pc[d]
      BY <3>1 DEF Goto, TypeOK
    <3>. QED
      BY <2>4, <2>10, <3>2, <3>3 DEF Sweep
  <2>11. CASE SweepEnds(c)
    <3>1. call[c].client = NoClient /\ pc[c] = "sweep"
      BY <2>1, <2>11 DEF SweepEnds, Fits
    <3>2. \A d \in Caller \ {c} : call'[d] = call[d] /\ pc'[d] = pc[d]
      BY <2>11 DEF SweepEnds, Return, Goto, TypeOK
    <3>. QED
      BY <2>4, <2>11, <3>1, <3>2 DEF SweepEnds
  <2>12. CASE StoreToken(c) \/ AuthFails(c)
    <3>1. call[c].client \in known /\ pc[c] = "rpc" /\ Return(c)
      BY <2>1, <2>12 DEF StoreToken, AuthFails, Fits, Ownership, KnownInv
    <3>. QED
      BY <2>3, <2>12, <3>1 DEF StoreToken, AuthFails
  <2>13. CASE Insert(c)
    BY <2>3, <2>13 DEF Insert
  <2>14. CASE InsertTaken(c)
    <3>1. CASE ~call[c].dialled /\ Return(c)
      <4>1. call[c].client \in Client /\ db[call[c].client] = NoConn
        BY <2>1, <2>14, <3>1 DEF InsertTaken, Fits, Ownership, PrivateInv, Building
      <4>. QED
        BY <2>3, <2>14, <3>1, <4>1 DEF InsertTaken
    <3>2. CASE Goto(c, "detach") /\ call' = [call EXCEPT ![c].op = "undo"]
      <4>1. /\ \A d \in Caller \ {c} : call'[d] = call[d] /\ pc'[d] = pc[d]
            /\ call'[c].client = call[c].client
        BY <3>2 DEF Goto, TypeOK, Call
      <4>. QED
        BY <2>4, <2>14, <4>1 DEF InsertTaken
    <3>. QED
      BY <2>14, <3>1, <3>2 DEF InsertTaken
  <2>15. CASE Empty(c)
    <3>1. call[c].client = NoClient
      BY <2>1, <2>15 DEF Empty, Fits
    <3>. QED
      BY <2>3, <2>15, <3>1 DEF Empty
  <2>. QED
    BY <1>4, <2>5, <2>6, <2>7, <2>8, <2>9, <2>10, <2>11, <2>12, <2>13, <2>14, <2>15 DEF Step, Locking
<1>. QED
  BY <1>2, <1>3, <1>4 DEF Next

\* Whatever the goroutines do, an open connection belongs to a client somebody has or is
\* in the hands of a call, unless a second Connect of its client has replaced it or its
\* Close has failed (client.go:67-151, registry.go:99-117).
THEOREM ConnectionsStayReachable == Spec => []NoConnectionLost
<1>1. Init => NoConnectionLost
  BY DEF Init, NoConnectionLost
<1>2. TypeOK /\ ProgramInv /\ Ownership /\ NoConnectionLost /\ [Next]_vars => NoConnectionLost'
  BY LostInductive
<1>. QED
  BY <1>1, <1>2, Typed, Owned, PTL DEF Spec
-----------------------------------------------------------------------------
(* Tokens.                                                                 *)

\* Client k has connection x to do with.
Uses(k, x) ==
  \/ token[k] = x \/ db[k] = x
  \/ \E c \in Caller : call[c].client = k /\ call[c].conn = x

\* No two clients have the same connection.
Exclusive ==
  /\ \A k, j \in Client, x \in Conn : Uses(k, x) /\ Uses(j, x) => k = j
  /\ \A c \in Caller : call[c].client = NoClient => call[c].conn = NoConn

\* A step of c in which clients get only connections that were theirs.
LEMMA NoNewUse ==
  ASSUME TypeOK, Exclusive, NEW c \in Caller,
         \A d \in Caller \ {c} : call'[d] = call[d],
         \A k \in Client : token'[k] = NoConn \/ Uses(k, token'[k]),
         \A k \in Client : db'[k] = NoConn \/ Uses(k, db'[k]),
         call'[c].conn = NoConn \/ (call'[c].client \in Client /\ Uses(call'[c].client, call'[c].conn)),
         call'[c].client = NoClient => call'[c].conn = NoConn
  PROVE  Exclusive'
<1>. USE NoneAssumption
<1>1. ASSUME NEW k \in Client, NEW x \in Conn, Uses(k, x)' PROVE Uses(k, x)
  BY <1>1 DEF Uses
<1>. QED
  BY <1>1 DEF Exclusive

LEMMA ExclusiveInductive ==
  ASSUME TypeOK, ProgramInv, Exclusive, [Next]_vars
  PROVE  Exclusive'
<1>. USE NoneAssumption, NoCallType DEF registry, client, ghosts
<1>1. CASE UNCHANGED vars
  BY <1>1 DEF vars, Exclusive, Uses
<1>2. NoCall.conn = NoConn
  BY DEF NoCall
<1>3. ASSUME NEW c \in Caller, UNCHANGED <<db, token>>,
             \A d \in Caller \ {c} : call'[d] = call[d],
             call'[c].conn = NoConn \/ (call'[c].conn = call[c].conn /\ call'[c].client = call[c].client)
      PROVE  Exclusive'
  <2>1. call[c].client \in Client \union {NoClient} /\ call[c].conn \in Conn \union {NoConn}
    BY DEF TypeOK, Call
  <2>2. \/ call'[c].conn = NoConn
        \/ call'[c].client \in Client /\ Uses(call'[c].client, call'[c].conn)
    BY <1>3, <2>1 DEF Exclusive, Uses
  <2>3. call'[c].client = NoClient => call'[c].conn = NoConn
    BY <1>3 DEF Exclusive
  <2>. QED
    BY <1>3, <2>2, <2>3, NoNewUse DEF Uses
<1>4. ASSUME NEW c \in Caller, Return(c)
      PROVE  call'[c].conn = NoConn /\ \A d \in Caller \ {c} : call'[d] = call[d]
  BY <1>2, <1>4 DEF Return, TypeOK
<1>5. ASSUME NEW c \in Caller, Start(c) PROVE Exclusive'
  <2>1. UNCHANGED <<db, token>> /\ \A d \in Caller \ {c} : call'[d] = call[d]
    BY <1>5 DEF Start, SetDefault, Register, Unregister, DisconnectAll, Connect, Disconnect,
                Authenticate, Begin, TypeOK
  <2>2. CASE \E k \in Client, op \in {"signin", "invalidate"} : Authenticate(c, k, op)
    <3>1. PICK k \in Client : call'[c].client = k /\ call'[c].conn = db[k]
      BY <2>2 DEF Authenticate, NoCall, TypeOK
    <3>. QED
      BY <2>1, <3>1, NoNewUse DEF Uses
  <2>3. CASE ~\E k \in Client, op \in {"signin", "invalidate"} : Authenticate(c, k, op)
    <3>1. ASSUME NEW op, NEW k, NEW p, Begin(c, op, k, p) PROVE call'[c].conn = NoConn
      BY <3>1 DEF Begin, NoCall, TypeOK
    <3>2. ASSUME NEW n \in Name, NEW b \in BOOLEAN, Register(c, n, b) PROVE call'[c].conn = NoConn
      BY <3>2 DEF Register, NoCall, TypeOK
    <3>3. ASSUME NEW op, DisconnectAll(c, op) PROVE call'[c].conn = NoConn
      BY <3>3 DEF DisconnectAll, NoCall, TypeOK
    <3>4. call'[c].conn = NoConn \/ call' = call
      BY <1>5, <2>3, <3>1, <3>2, <3>3 DEF Start, SetDefault, Unregister, Connect, Disconnect
    <3>. QED
      BY <1>3, <2>1, <3>4
  <2>. QED
    BY <2>2, <2>3
<1>6. ASSUME NEW c \in Caller, Step(c) \/ Locking(c) PROVE Exclusive'
  <2>1. call[c] \in Call /\ Fits(pc[c], call[c])
    BY DEF TypeOK, ProgramInv
  <2>2. CASE Dial(c)
    <3>1. PICK y \in Conn : FreshConn(y) /\ call' = [call EXCEPT ![c].conn = y]
      BY <2>2 DEF Dial
    <3>2. /\ \A d \in Caller \ {c} : call'[d] = call[d]
          /\ call'[c].client = call[c].client /\ call'[c].conn = y /\ call[c].client \in Client
          /\ UNCHANGED <<db, token>>
      BY <2>1, <2>2, <3>1 DEF Dial, TypeOK, Call, Fits
    <3>3. \A k \in Client, x \in Conn \ {y} : Uses(k, x)' => Uses(k, x)
      BY <3>2 DEF Uses
    <3>4. \A k \in Client : Uses(k, y)' => k = call[c].client
      BY <3>1, <3>2 DEF Uses, FreshConn
    <3>. QED
      BY <3>2, <3>3, <3>4 DEF Exclusive
  <2>3. CASE DialFails(c) \/ SweepEnds(c) \/ AuthFails(c) \/ Insert(c) \/ InsertTaken(c) \/ Empty(c)
    <3>1. UNCHANGED <<db, token>>
      BY <2>3 DEF DialFails, SweepEnds, AuthFails, Insert, InsertTaken, Empty
    <3>2. \/ Return(c) \/ call' = call
          \/ call' = [call EXCEPT ![c].attempt = @ + 1] \/ call' = [call EXCEPT ![c].op = "undo"]
      BY <2>3 DEF DialFails, SweepEnds, AuthFails, Insert, InsertTaken, Empty
    <3>3. /\ \A d \in Caller \ {c} : call'[d] = call[d]
          /\ call'[c].conn = NoConn \/ (call'[c].conn = call[c].conn /\ call'[c].client = call[c].client)
      BY <1>4, <3>2 DEF TypeOK, Call
    <3>. QED
      BY <1>3, <3>1, <3>3
  <2>4. CASE Install(c)
    <3>1. /\ call'[c].conn = NoConn /\ \A d \in Caller \ {c} : call'[d] = call[d]
      BY <1>4, <2>4 DEF Install, TypeOK, Call
    <3>2. \A k \in Client : db'[k] = db[k] \/ (k = call[c].client /\ db'[k] = call[c].conn)
      BY <2>4 DEF Install, TypeOK
    <3>. QED
      BY <2>4, <3>1, <3>2, NoNewUse DEF Install, Uses
  <2>5. CASE Detach(c)
    <3>1. /\ call'[c].conn = db[call[c].client] /\ call'[c].client = call[c].client
          /\ call[c].client \in Client
          /\ \A d \in Caller \ {c} : call'[d] = call[d]
      BY <2>1, <2>5 DEF Detach, TypeOK, Call, Fits
    <3>2. \A k \in Client : db'[k] \in {db[k], NoConn} /\ token'[k] \in {token[k], NoConn}
      BY <2>5 DEF Detach, TypeOK
    <3>. QED
      BY <3>1, <3>2, NoNewUse DEF Uses
  <2>6. CASE DetachNothing(c) \/ Close(c) \/ CloseFails(c)
    <3>1. PICK b \in BOOLEAN : Disconnected(c, b)
      BY <2>6 DEF DetachNothing, Close, CloseFails
    <3>2. call'[c].conn = NoConn /\ \A d \in Caller \ {c} : call'[d] = call[d]
      BY <1>4, <3>1 DEF Disconnected, TypeOK, Call
    <3>3. db' = db /\ \A k \in Client : token'[k] \in {token[k], NoConn}
      BY <2>6 DEF DetachNothing, Close, CloseFails, TypeOK
    <3>. QED
      BY <3>2, <3>3, NoNewUse DEF Uses
  <2>7. CASE Sweep(c)
    <3>1. call[c].conn = NoConn /\ UNCHANGED <<db, token>>
      BY <2>1, <2>7 DEF Sweep, Fits, Exclusive
    <3>2. call'[c].conn = call[c].conn /\ \A d \in Caller \ {c} : call'[d] = call[d]
      BY <2>7 DEF Sweep, TypeOK, Call
    <3>. QED
      BY <1>3, <3>1, <3>2
  <2>8. CASE StoreToken(c)
    <3>1. /\ call'[c].conn = NoConn /\ \A d \in Caller \ {c} : call'[d] = call[d] /\ db' = db
      BY <1>4, <2>8 DEF StoreToken
    <3>2. \A k \in Client : \/ token'[k] \in {token[k], NoConn}
                            \/ k = call[c].client /\ token'[k] = call[c].conn
      BY <2>8 DEF StoreToken, TypeOK
    <3>3. db' = db
      BY <2>8 DEF StoreToken
    <3>. QED
      BY <3>1, <3>2, <3>3, NoNewUse DEF Uses
  <2>. QED
    BY <1>6, <2>2, <2>3, <2>4, <2>5, <2>6, <2>7, <2>8 DEF Step, Locking
<1>. QED
  BY <1>1, <1>5, <1>6 DEF Next

LEMMA TokenInductive ==
  ASSUME TypeOK, ProgramInv, Exclusive, TokenOfConnection, [Next]_vars
  PROVE  TokenOfConnection'
<1>. USE NoneAssumption DEF registry, client, ghosts
<1>1. CASE UNCHANGED <<token, db, late>> /\ severed \subseteq severed'
  BY <1>1 DEF TokenOfConnection
\* Dropping the token of one client from late takes it from no other.
<1>2. ASSUME NEW k \in Client, NEW j \in Client \ {k}, token[k] \in Conn
      PROVE  token[j] # token[k]
  BY <1>2 DEF Exclusive, Uses
<1>3. ASSUME NEW c \in Caller, Install(c) PROVE TokenOfConnection'
  <2>1. /\ UNCHANGED <<token, late>>
        /\ \A k \in Client : db'[k] = db[k] \/ db[k] \in severed' \union {NoConn}
        /\ severed \subseteq severed'
    BY <1>3 DEF Install, TypeOK
  <2>. QED
    BY <2>1 DEF TokenOfConnection
<1>4. ASSUME NEW c \in Caller, Detach(c) \/ DetachNothing(c) PROVE TokenOfConnection'
  <2>. DEFINE k == call[c].client
  <2>1. /\ k \in Client /\ late' = late \ {token[k]} /\ token'[k] = NoConn /\ severed' = severed
        /\ \A j \in Client \ {k} : token'[j] = token[j] /\ db'[j] = db[j]
    BY <1>4 DEF Detach, DetachNothing, ProgramInv, Fits, TypeOK
  <2>2. ASSUME NEW j \in Client \ {k} PROVE token'[j] \in {NoConn, db'[j]} \union late' \union severed'
    <3>1. token[j] \in {NoConn, db[j]} \union late \union severed
      BY DEF TokenOfConnection
    <3>2. token[j] \in Conn => token[j] # token[k]
      BY <1>2, <2>1 DEF TypeOK
    <3>. QED
      BY <2>1, <3>1, <3>2 DEF TypeOK
  <2>. QED
    BY <2>1, <2>2 DEF TokenOfConnection
<1>5. ASSUME NEW c \in Caller, StoreToken(c) PROVE TokenOfConnection'
  <2>. DEFINE k == call[c].client
              x == IF call[c].op = "signin" THEN call[c].conn ELSE NoConn
  <2>1. /\ k \in Client /\ late' = (late \ {token[k]}) \union ({x} \ {db[k], NoConn})
        /\ token'[k] = x /\ severed' = severed /\ db' = db
        /\ \A j \in Client \ {k} : token'[j] = token[j]
    BY <1>5 DEF StoreToken, ProgramInv, Fits, TypeOK
  <2>2. ASSUME NEW j \in Client \ {k} PROVE token'[j] \in {NoConn, db'[j]} \union late' \union severed'
    <3>1. token[j] \in {NoConn, db[j]} \union late \union severed
      BY DEF TokenOfConnection
    <3>2. token[j] \in Conn => token[j] # token[k]
      BY <1>2, <2>1 DEF TypeOK
    <3>. HIDE DEF x
    <3>. QED
      BY <2>1, <3>1, <3>2 DEF TypeOK
  <2>3. token'[k] \in {NoConn, db'[k]} \union late' \union severed'
    BY <2>1
  <2>. QED
    BY <2>2, <2>3 DEF TokenOfConnection
<1>6. ASSUME NEW c \in Caller, Step(c) \/ Locking(c) PROVE TokenOfConnection'
  BY <1>1, <1>3, <1>4, <1>5, <1>6 DEF Step, Locking, Dial, DialFails, Close, CloseFails, Sweep,
     SweepEnds, AuthFails, Insert, InsertTaken, Empty
<1>7. ASSUME NEW c \in Caller, Start(c) PROVE TokenOfConnection'
  BY <1>1, <1>7 DEF Start, SetDefault, Register, Unregister, DisconnectAll, Connect, Disconnect,
     Authenticate
<1>. QED
  BY <1>1, <1>6, <1>7 DEF Next, vars

\* A cached token is that of the client's connection, unless it was stored after the
\* client had left the connection or the connection was replaced (client.go:135-142,
\* 171-174), for any number of goroutines and clients.
THEOREM TokensFollowConnections == Spec => []TokenOfConnection
<1>1. Init => Exclusive /\ TokenOfConnection
  BY NoCallType, NoneAssumption DEF Init, Exclusive, Uses, TokenOfConnection, NoCall
<1>2. TypeOK /\ ProgramInv /\ Exclusive /\ TokenOfConnection /\ [Next]_vars
        => (Exclusive /\ TokenOfConnection)'
  BY ExclusiveInductive, TokenInductive
<1>. QED
  BY <1>1, <1>2, Typed, PTL DEF Spec
=============================================================================
