----------------------------- MODULE Handles_proofs -----------------------------
(***************************************************************************)
(* Proofs about live queries, sessions and transactions of one client: for  *)
(* any number of goroutines, handles, connections and faults, a handle is   *)
(* closed once, nothing is left at the server unseen, and a drain finds     *)
(* every open live query.                                                   *)
(***************************************************************************)
EXTENDS Handles, TLAPS

Places == {"idle", "open", "subscribe", "track", "close", "kill", "detach", "query", "signin", "store"} \union Verbs

\* Types, with those of pc and closes.
TypeInv ==
  /\ TypeOK
  /\ pc \in [Caller -> Places]
  /\ closes \in [Handle -> Nat]

\* What a call has in hand, by its place: handles of one kind, and one handle
\* unless it drains.
CallInv ==
  \A c \in Caller :
    /\ At(c, "idle") => todo[c] = {}
    /\ pc[c] \in {"subscribe", "track", "close", "kill"} => todo[c] \subseteq Live
    /\ pc[c] \in {"detach", "signin", "store"} => todo[c] \subseteq Session
    /\ At(c, "query") => todo[c] \subseteq Tx \union Session
    /\ pc[c] \in Verbs => todo[c] \subseteq Tx /\ \A h \in todo[c] : lock[h] = c
    /\ pc[c] \notin {"close", "kill"} => \A g, h \in todo[c] : g = h
    /\ At(c, "detach") => \A h \in todo[c] : via[c] = home[h]
    /\ At(c, "open") => \A h \in todo[c] : server[h] = "none"

\* A handle is new as long as a call opens it, and then nobody else has it.
Opening(c) == pc[c] \in {"open", "subscribe"}
OpenInv ==
  \A c \in Caller : \A h \in todo[c] :
    /\ Opening(c) <=> local[h] = "new"
    /\ Opening(c) => \A d \in Caller : h \in todo[d] => d = c

\* A mutex held over an RPC is a live query's during its KILL, with the flag set,
\* or a transaction's during COMMIT or CANCEL, still open; a call holds one.
LockInv ==
  /\ \A h \in Handle : lock[h] # Nobody =>
       \/ h \in Live /\ pc[lock[h]] = "kill" /\ local[h] # "open"
       \/ h \in Tx /\ pc[lock[h]] \in Verbs /\ local[h] = "open"
  /\ \A g, h \in Handle : lock[g] # Nobody /\ lock[g] = lock[h] => g = h

\* No closing RPC has been sent for a handle that is new, or open and free.
CloseInv ==
  \A h \in Handle :
    /\ closes[h] <= 1
    /\ local[h] = "new" => closes[h] = 0 /\ h \notin tracked /\ (server[h] = "none" \/ UnderWay(h))
    /\ local[h] = "open" /\ lock[h] = Nobody => closes[h] = 0

\* A call is about to take a handle from the server, or to open it.
InHand(h) == \E c \in Caller : h \in todo[c] /\ (pc[c] \in {"subscribe", "detach"} \/ lock[h] = c)

\* NothingLeaks with less allowed: of the calls under way only those count that
\* will still do something about the handle.
LeakInv ==
  \A h \in Handle : Serves(h) =>
    local[h] = "open" \/ InHand(h) \/ h \in given \/ home[h] # conn

\* The kinds of handles are disjoint.
LEMMA Kinds ==
  /\ \A h \in Handle : h \in Live \/ h \in Session \/ h \in Tx
  /\ \A h \in Live : h \notin Session /\ h \notin Tx /\ h \in Handle
  /\ \A h \in Session : h \notin Live /\ h \notin Tx /\ h \in Handle
  /\ \A h \in Tx : h \notin Live /\ h \notin Session /\ h \in Handle
BY HandlesAssumption DEF Handle
-----------------------------------------------------------------------------
\* Types are kept; that the holder of a mutex has its handle in hand needs that a call holds one.
LEMMA TypeStep ==
  ASSUME TypeInv, CallInv, OpenInv, LockInv, [Next]_vars
  PROVE  TypeInv'
<1>. USE Kinds, HandlesAssumption DEF TypeInv, CallInv, LockInv, TypeOK, Places, Verbs,
         At, Goto, Return, clients, handles, calls, history
<1>1. ASSUME Connect PROVE TypeInv'
  BY <1>1 DEF Connect
<1>2. ASSUME Disconnect PROVE TypeInv'
  BY <1>2 DEF Disconnect
<1>3. ASSUME CloseConnection PROVE TypeInv'
  BY <1>3 DEF CloseConnection
<1>4. ASSUME NEW c \in Caller, NEW h \in Handle, Open(c, h) PROVE TypeInv'
  BY <1>4 DEF Open
<1>5. ASSUME NEW c \in Caller, Opened(c) PROVE TypeInv'
  <2>1. PICK h \in todo[c] :
          /\ At(c, "open")
          /\ server' = [server EXCEPT ![h] = "open"] /\ home' = [home EXCEPT ![h] = via[c]]
          /\ \/ h \in Live /\ Goto(c, "subscribe", {h}, via[c]) /\ UNCHANGED local
             \/ h \notin Live /\ local' = [local EXCEPT ![h] = "open"] /\ Return(c)
          /\ UNCHANGED <<clients, token, lock, tracked, history>>
    BY <1>5 DEF Opened
  <2>2. CASE h \in Live
    BY <2>1, <2>2
  <2>3. CASE h \notin Live
    BY <2>1, <2>3, SMTT(30)
  <2>. QED
    BY <2>2, <2>3
<1>6. ASSUME NEW c \in Caller, OpenFails(c) PROVE TypeInv'
  <2>1. PICK h \in todo[c] : /\ pc[c] = "open" /\ local' = [local EXCEPT ![h] = "failed"]
                             /\ server' \in {server, [server EXCEPT ![h] = "open"]}
                             /\ home' \in {home, [home EXCEPT ![h] = via[c]]}
    BY <1>6 DEF OpenFails
  <2>2. UNCHANGED <<clients, token, lock, tracked, closes, late>> /\ Return(c)
    BY <1>6 DEF OpenFails
  <2>3. faults' \in 0..MaxFaults
    BY <1>6 DEF OpenFails, Fault
  <2>4. /\ local' \in [Handle -> {"new", "open", "closed", "failed"} \union Verbs]
        /\ server' \in [Handle -> {"none", "open", "gone"}]
        /\ home' \in [Handle -> Conn \union {NoConn}]
    BY <2>1
  <2>5. \A g \in token' : local'[g] = "open" \/ g \in late'
    BY <2>1, <2>2, OpenInv DEF OpenInv, Opening
  <2>6. \A g \in Handle : lock'[g] # Nobody => pc'[lock'[g]] \in {"kill"} \union Verbs /\ g \in todo'[lock'[g]]
    BY <2>1, <2>2
  <2>. QED
    BY <2>2, <2>3, <2>4, <2>5, <2>6
<1>7. ASSUME NEW c \in Caller, Subscribe(c) PROVE TypeInv'
  BY <1>7 DEF Subscribe
<1>8. ASSUME NEW c \in Caller, SubscribeFails(c) PROVE TypeInv'
  BY <1>8 DEF SubscribeFails, Fault
<1>9. ASSUME NEW c \in Caller, Track(c) PROVE TypeInv'
  BY <1>9 DEF Track
<1>10. ASSUME NEW c \in Caller, NEW h \in Live, Kill(c, h) PROVE TypeInv'
  BY <1>10 DEF Kill
<1>11. ASSUME NEW c \in Caller, DrainAll(c) PROVE TypeInv'
  BY <1>11 DEF DrainAll
<1>12. ASSUME NEW c \in Caller, NEW h \in Live, CloseLive(c, h) PROVE TypeInv'
  BY <1>12 DEF CloseLive
<1>13. ASSUME NEW c \in Caller, CloseQuietly(c) PROVE TypeInv'
  BY <1>13 DEF CloseQuietly, Proceed
<1>14. ASSUME NEW c \in Caller, SendKill(c) PROVE TypeInv'
  BY <1>14 DEF SendKill
<1>15. ASSUME NEW c \in Caller, Killed(c) PROVE TypeInv'
  BY <1>15 DEF Killed, Proceed
<1>16. ASSUME NEW c \in Caller, KillFails(c) PROVE TypeInv'
  BY <1>16 DEF KillFails, Proceed
<1>17. ASSUME NEW c \in Caller, NEW h \in Session, Detach(c, h) PROVE TypeInv'
  BY <1>17 DEF Detach
<1>18. ASSUME NEW c \in Caller, Detached(c) PROVE TypeInv'
  BY <1>18 DEF Detached, Fault
<1>19. ASSUME NEW c \in Caller, NEW h \in Session, Signin(c, h) PROVE TypeInv'
  BY <1>19 DEF Signin
<1>20. ASSUME NEW c \in Caller, SignedIn(c) PROVE TypeInv'
  BY <1>20 DEF SignedIn, Serves
<1>21. ASSUME NEW c \in Caller, StoreToken(c) PROVE TypeInv'
  BY <1>21 DEF StoreToken
<1>22. ASSUME NEW c \in Caller, NEW h \in Tx, NEW v \in Verbs, Finalise(c, h, v) PROVE TypeInv'
  BY <1>22 DEF Finalise
<1>23. ASSUME NEW c \in Caller, Finalised(c) PROVE TypeInv'
  BY <1>23 DEF Finalised, Serves
<1>24. ASSUME NEW c \in Caller, FinaliseFails(c) PROVE TypeInv'
  BY <1>24 DEF FinaliseFails, Fault, Serves
<1>25. ASSUME NEW c \in Caller, NEW h \in Tx \union Session, Query(c, h) PROVE TypeInv'
  BY <1>25 DEF Query
<1>26. ASSUME NEW c \in Caller, Queried(c) PROVE TypeInv'
  BY <1>26 DEF Queried
<1>27. ASSUME NEW h \in Handle, Forget(h) PROVE TypeInv'
  BY <1>27 DEF Forget
<1>28. CASE UNCHANGED vars
  BY <1>28 DEF vars
<1>. QED
  BY <1>1, <1>2, <1>3, <1>4, <1>5, <1>6, <1>7, <1>8, <1>9, <1>10, <1>11, <1>12, <1>13, <1>14, <1>15,
     <1>16, <1>17, <1>18, <1>19, <1>20, <1>21, <1>22, <1>23, <1>24, <1>25, <1>26, <1>27, <1>28 DEF Next, Start, Step

\* What a call has in hand fits its place: above all, no second call begins with a handle that is being opened.
LEMMA CallStep ==
  ASSUME TypeInv, CallInv, OpenInv, LockInv, CloseInv, [Next]_vars
  PROVE  CallInv'
<1>. USE Kinds, HandlesAssumption DEF TypeInv, CallInv, OpenInv, LockInv, TypeOK, Places, Verbs, Opening, UnderWay,
         At, Goto, Return, clients, handles, calls, history
<1>1. ASSUME Connect PROVE CallInv'
  BY <1>1 DEF Connect
<1>2. ASSUME Disconnect PROVE CallInv'
  BY <1>2 DEF Disconnect
<1>3. ASSUME CloseConnection PROVE CallInv'
  BY <1>3 DEF CloseConnection
<1>4. ASSUME NEW c \in Caller, NEW h \in Handle, Open(c, h) PROVE CallInv'
  <2>1. /\ pc' = [pc EXCEPT ![c] = "open"] /\ todo' = [todo EXCEPT ![c] = {h}]
        /\ via' = [via EXCEPT ![c] = conn] /\ UNCHANGED <<clients, handles, history>>
    BY <1>4 DEF Open
  <2>2. server[h] = "none"
    BY <1>4 DEF Open, CloseInv
  <2>. QED
    BY <2>1, <2>2
<1>5. ASSUME NEW c \in Caller, Opened(c) PROVE CallInv'
  BY <1>5 DEF Opened
<1>6. ASSUME NEW c \in Caller, OpenFails(c) PROVE CallInv'
  BY <1>6 DEF OpenFails, Fault
<1>7. ASSUME NEW c \in Caller, Subscribe(c) PROVE CallInv'
  BY <1>7 DEF Subscribe
<1>8. ASSUME NEW c \in Caller, SubscribeFails(c) PROVE CallInv'
  BY <1>8 DEF SubscribeFails, Fault
<1>9. ASSUME NEW c \in Caller, Track(c) PROVE CallInv'
  BY <1>9 DEF Track
<1>10. ASSUME NEW c \in Caller, NEW h \in Live, Kill(c, h) PROVE CallInv'
  BY <1>10 DEF Kill
<1>11. ASSUME NEW c \in Caller, DrainAll(c) PROVE CallInv'
  BY <1>11 DEF DrainAll
<1>12. ASSUME NEW c \in Caller, NEW h \in Live, CloseLive(c, h) PROVE CallInv'
  BY <1>12 DEF CloseLive
<1>13. ASSUME NEW c \in Caller, CloseQuietly(c) PROVE CallInv'
  BY <1>13 DEF CloseQuietly, Proceed
<1>14. ASSUME NEW c \in Caller, SendKill(c) PROVE CallInv'
  BY <1>14 DEF SendKill
<1>15. ASSUME NEW c \in Caller, Killed(c) PROVE CallInv'
  BY <1>15 DEF Killed, Proceed
<1>16. ASSUME NEW c \in Caller, KillFails(c) PROVE CallInv'
  BY <1>16 DEF KillFails, Proceed
<1>17. ASSUME NEW c \in Caller, NEW h \in Session, Detach(c, h) PROVE CallInv'
  BY <1>17 DEF Detach
<1>18. ASSUME NEW c \in Caller, Detached(c) PROVE CallInv'
  BY <1>18 DEF Detached, Fault
<1>19. ASSUME NEW c \in Caller, NEW h \in Session, Signin(c, h) PROVE CallInv'
  BY <1>19 DEF Signin
<1>20. ASSUME NEW c \in Caller, SignedIn(c) PROVE CallInv'
  BY <1>20 DEF SignedIn, Serves
<1>21. ASSUME NEW c \in Caller, StoreToken(c) PROVE CallInv'
  BY <1>21 DEF StoreToken
<1>22. ASSUME NEW c \in Caller, NEW h \in Tx, NEW v \in Verbs, Finalise(c, h, v) PROVE CallInv'
  BY <1>22 DEF Finalise
<1>23. ASSUME NEW c \in Caller, Finalised(c) PROVE CallInv'
  BY <1>23 DEF Finalised, Serves
<1>24. ASSUME NEW c \in Caller, FinaliseFails(c) PROVE CallInv'
  BY <1>24 DEF FinaliseFails, Fault, Serves
<1>25. ASSUME NEW c \in Caller, NEW h \in Tx \union Session, Query(c, h) PROVE CallInv'
  BY <1>25 DEF Query
<1>26. ASSUME NEW c \in Caller, Queried(c) PROVE CallInv'
  BY <1>26 DEF Queried
<1>27. ASSUME NEW h \in Handle, Forget(h) PROVE CallInv'
  BY <1>27 DEF Forget
<1>28. CASE UNCHANGED vars
  BY <1>28 DEF vars
<1>. QED
  BY <1>1, <1>2, <1>3, <1>4, <1>5, <1>6, <1>7, <1>8, <1>9, <1>10, <1>11, <1>12, <1>13, <1>14, <1>15,
     <1>16, <1>17, <1>18, <1>19, <1>20, <1>21, <1>22, <1>23, <1>24, <1>25, <1>26, <1>27, <1>28 DEF Next, Start, Step

\* A handle is new exactly while it is being opened, by one call.
LEMMA OpenStep ==
  ASSUME TypeInv, CallInv, OpenInv, LockInv, CloseInv, [Next]_vars
  PROVE  OpenInv'
<1>. USE Kinds, HandlesAssumption DEF TypeInv, CallInv, OpenInv, LockInv, CloseInv, TypeOK, Verbs, Opening, UnderWay,
         At, Goto, Return, clients, handles, calls, history
<1>1. ASSUME Connect PROVE OpenInv'
  BY <1>1 DEF Connect
<1>2. ASSUME Disconnect PROVE OpenInv'
  BY <1>2 DEF Disconnect
<1>3. ASSUME CloseConnection PROVE OpenInv'
  BY <1>3 DEF CloseConnection
<1>4. ASSUME NEW c \in Caller, NEW h \in Handle, Open(c, h) PROVE OpenInv'
  BY <1>4 DEF Open
<1>5. ASSUME NEW c \in Caller, Opened(c) PROVE OpenInv'
  BY <1>5 DEF Opened
<1>6. ASSUME NEW c \in Caller, OpenFails(c) PROVE OpenInv'
  BY <1>6 DEF OpenFails, Fault
<1>7. ASSUME NEW c \in Caller, Subscribe(c) PROVE OpenInv'
  BY <1>7 DEF Subscribe
<1>8. ASSUME NEW c \in Caller, SubscribeFails(c) PROVE OpenInv'
  BY <1>8 DEF SubscribeFails, Fault
<1>9. ASSUME NEW c \in Caller, Track(c) PROVE OpenInv'
  BY <1>9 DEF Track
<1>10. ASSUME NEW c \in Caller, NEW h \in Live, Kill(c, h) PROVE OpenInv'
  BY <1>10 DEF Kill
<1>11. ASSUME NEW c \in Caller, DrainAll(c) PROVE OpenInv'
  BY <1>11 DEF DrainAll
<1>12. ASSUME NEW c \in Caller, NEW h \in Live, CloseLive(c, h) PROVE OpenInv'
  BY <1>12 DEF CloseLive
<1>13. ASSUME NEW c \in Caller, CloseQuietly(c) PROVE OpenInv'
  BY <1>13 DEF CloseQuietly, Proceed
<1>14. ASSUME NEW c \in Caller, SendKill(c) PROVE OpenInv'
  BY <1>14 DEF SendKill
<1>15. ASSUME NEW c \in Caller, Killed(c) PROVE OpenInv'
  BY <1>15 DEF Killed, Proceed
<1>16. ASSUME NEW c \in Caller, KillFails(c) PROVE OpenInv'
  BY <1>16 DEF KillFails, Proceed
<1>17. ASSUME NEW c \in Caller, NEW h \in Session, Detach(c, h) PROVE OpenInv'
  BY <1>17 DEF Detach
<1>18. ASSUME NEW c \in Caller, Detached(c) PROVE OpenInv'
  BY <1>18 DEF Detached, Fault
<1>19. ASSUME NEW c \in Caller, NEW h \in Session, Signin(c, h) PROVE OpenInv'
  BY <1>19 DEF Signin
<1>20. ASSUME NEW c \in Caller, SignedIn(c) PROVE OpenInv'
  BY <1>20 DEF SignedIn
<1>21. ASSUME NEW c \in Caller, StoreToken(c) PROVE OpenInv'
  BY <1>21 DEF StoreToken
<1>22. ASSUME NEW c \in Caller, NEW h \in Tx, NEW v \in Verbs, Finalise(c, h, v) PROVE OpenInv'
  BY <1>22 DEF Finalise
<1>23. ASSUME NEW c \in Caller, Finalised(c) PROVE OpenInv'
  BY <1>23 DEF Finalised, Serves
<1>24. ASSUME NEW c \in Caller, FinaliseFails(c) PROVE OpenInv'
  BY <1>24 DEF FinaliseFails, Fault, Serves
<1>25. ASSUME NEW c \in Caller, NEW h \in Tx \union Session, Query(c, h) PROVE OpenInv'
  BY <1>25 DEF Query
<1>26. ASSUME NEW c \in Caller, Queried(c) PROVE OpenInv'
  BY <1>26 DEF Queried
<1>27. ASSUME NEW h \in Handle, Forget(h) PROVE OpenInv'
  BY <1>27 DEF Forget
<1>28. CASE UNCHANGED vars
  BY <1>28 DEF vars
<1>. QED
  BY <1>1, <1>2, <1>3, <1>4, <1>5, <1>6, <1>7, <1>8, <1>9, <1>10, <1>11, <1>12, <1>13, <1>14, <1>15,
     <1>16, <1>17, <1>18, <1>19, <1>20, <1>21, <1>22, <1>23, <1>24, <1>25, <1>26, <1>27, <1>28 DEF Next, Start, Step

\* A mutex is held over KILL, COMMIT and CANCEL alone, and one by a call.
LEMMA LockStep ==
  ASSUME TypeInv, CallInv, OpenInv, LockInv, [Next]_vars
  PROVE  LockInv'
<1>. USE Kinds, HandlesAssumption DEF TypeInv, CallInv, OpenInv, LockInv, TypeOK, Verbs, Opening, UnderWay,
         At, Goto, Return, clients, handles, calls, history
<1>1. ASSUME Connect PROVE LockInv'
  BY <1>1 DEF Connect
<1>2. ASSUME Disconnect PROVE LockInv'
  BY <1>2 DEF Disconnect
<1>3. ASSUME CloseConnection PROVE LockInv'
  BY <1>3 DEF CloseConnection
<1>4. ASSUME NEW c \in Caller, NEW h \in Handle, Open(c, h) PROVE LockInv'
  BY <1>4 DEF Open
<1>5. ASSUME NEW c \in Caller, Opened(c) PROVE LockInv'
  BY <1>5 DEF Opened
<1>6. ASSUME NEW c \in Caller, OpenFails(c) PROVE LockInv'
  BY <1>6 DEF OpenFails, Fault
<1>7. ASSUME NEW c \in Caller, Subscribe(c) PROVE LockInv'
  BY <1>7 DEF Subscribe
<1>8. ASSUME NEW c \in Caller, SubscribeFails(c) PROVE LockInv'
  BY <1>8 DEF SubscribeFails, Fault
<1>9. ASSUME NEW c \in Caller, Track(c) PROVE LockInv'
  BY <1>9 DEF Track
<1>10. ASSUME NEW c \in Caller, NEW h \in Live, Kill(c, h) PROVE LockInv'
  BY <1>10 DEF Kill
<1>11. ASSUME NEW c \in Caller, DrainAll(c) PROVE LockInv'
  BY <1>11 DEF DrainAll
<1>12. ASSUME NEW c \in Caller, NEW h \in Live, CloseLive(c, h) PROVE LockInv'
  BY <1>12 DEF CloseLive
<1>13. ASSUME NEW c \in Caller, CloseQuietly(c) PROVE LockInv'
  BY <1>13 DEF CloseQuietly, Proceed
<1>14. ASSUME NEW c \in Caller, SendKill(c) PROVE LockInv'
  BY <1>14 DEF SendKill
<1>15. ASSUME NEW c \in Caller, Killed(c) PROVE LockInv'
  BY <1>15 DEF Killed, Proceed
<1>16. ASSUME NEW c \in Caller, KillFails(c) PROVE LockInv'
  BY <1>16 DEF KillFails, Proceed
<1>17. ASSUME NEW c \in Caller, NEW h \in Session, Detach(c, h) PROVE LockInv'
  BY <1>17 DEF Detach
<1>18. ASSUME NEW c \in Caller, Detached(c) PROVE LockInv'
  BY <1>18 DEF Detached, Fault
<1>19. ASSUME NEW c \in Caller, NEW h \in Session, Signin(c, h) PROVE LockInv'
  BY <1>19 DEF Signin
<1>20. ASSUME NEW c \in Caller, SignedIn(c) PROVE LockInv'
  BY <1>20 DEF SignedIn, Serves
<1>21. ASSUME NEW c \in Caller, StoreToken(c) PROVE LockInv'
  BY <1>21 DEF StoreToken
<1>22. ASSUME NEW c \in Caller, NEW h \in Tx, NEW v \in Verbs, Finalise(c, h, v) PROVE LockInv'
  BY <1>22 DEF Finalise
<1>23. ASSUME NEW c \in Caller, Finalised(c) PROVE LockInv'
  BY <1>23 DEF Finalised, Serves
<1>24. ASSUME NEW c \in Caller, FinaliseFails(c) PROVE LockInv'
  BY <1>24 DEF FinaliseFails, Fault, Serves
<1>25. ASSUME NEW c \in Caller, NEW h \in Tx \union Session, Query(c, h) PROVE LockInv'
  BY <1>25 DEF Query
<1>26. ASSUME NEW c \in Caller, Queried(c) PROVE LockInv'
  BY <1>26 DEF Queried
<1>27. ASSUME NEW h \in Handle, Forget(h) PROVE LockInv'
  BY <1>27 DEF Forget
<1>28. CASE UNCHANGED vars
  BY <1>28 DEF vars
<1>. QED
  BY <1>1, <1>2, <1>3, <1>4, <1>5, <1>6, <1>7, <1>8, <1>9, <1>10, <1>11, <1>12, <1>13, <1>14, <1>15,
     <1>16, <1>17, <1>18, <1>19, <1>20, <1>21, <1>22, <1>23, <1>24, <1>25, <1>26, <1>27, <1>28 DEF Next, Start, Step

\* A closing RPC is sent for a handle only when none has been: SendKill, Detach and
\* Finalise find it open and free, SubscribeFails finds it new.
LEMMA CloseStep ==
  ASSUME TypeInv, CallInv, OpenInv, LockInv, CloseInv, [Next]_vars
  PROVE  CloseInv'
<1>. USE Kinds, HandlesAssumption DEF TypeInv, CallInv, OpenInv, LockInv, CloseInv, TypeOK, Verbs, Opening, UnderWay,
         At, Goto, Return, clients, handles, calls, history
<1>1. ASSUME Connect PROVE CloseInv'
  BY <1>1 DEF Connect
<1>2. ASSUME Disconnect PROVE CloseInv'
  BY <1>2 DEF Disconnect
<1>3. ASSUME CloseConnection PROVE CloseInv'
  BY <1>3 DEF CloseConnection
<1>4. ASSUME NEW c \in Caller, NEW h \in Handle, Open(c, h) PROVE CloseInv'
  BY <1>4 DEF Open
<1>5. ASSUME NEW c \in Caller, Opened(c) PROVE CloseInv'
  BY <1>5 DEF Opened
<1>6. ASSUME NEW c \in Caller, OpenFails(c) PROVE CloseInv'
  BY <1>6 DEF OpenFails, Fault
<1>7. ASSUME NEW c \in Caller, Subscribe(c) PROVE CloseInv'
  BY <1>7 DEF Subscribe
<1>8. ASSUME NEW c \in Caller, SubscribeFails(c) PROVE CloseInv'
  BY <1>8 DEF SubscribeFails, Fault
<1>9. ASSUME NEW c \in Caller, Track(c) PROVE CloseInv'
  BY <1>9 DEF Track
<1>10. ASSUME NEW c \in Caller, NEW h \in Live, Kill(c, h) PROVE CloseInv'
  BY <1>10 DEF Kill
<1>11. ASSUME NEW c \in Caller, DrainAll(c) PROVE CloseInv'
  BY <1>11 DEF DrainAll
<1>12. ASSUME NEW c \in Caller, NEW h \in Live, CloseLive(c, h) PROVE CloseInv'
  BY <1>12 DEF CloseLive
<1>13. ASSUME NEW c \in Caller, CloseQuietly(c) PROVE CloseInv'
  BY <1>13 DEF CloseQuietly, Proceed
<1>14. ASSUME NEW c \in Caller, SendKill(c) PROVE CloseInv'
  BY <1>14 DEF SendKill
<1>15. ASSUME NEW c \in Caller, Killed(c) PROVE CloseInv'
  BY <1>15 DEF Killed, Proceed
<1>16. ASSUME NEW c \in Caller, KillFails(c) PROVE CloseInv'
  BY <1>16 DEF KillFails, Proceed
<1>17. ASSUME NEW c \in Caller, NEW h \in Session, Detach(c, h) PROVE CloseInv'
  BY <1>17 DEF Detach
<1>18. ASSUME NEW c \in Caller, Detached(c) PROVE CloseInv'
  BY <1>18 DEF Detached, Fault
<1>19. ASSUME NEW c \in Caller, NEW h \in Session, Signin(c, h) PROVE CloseInv'
  BY <1>19 DEF Signin
<1>20. ASSUME NEW c \in Caller, SignedIn(c) PROVE CloseInv'
  BY <1>20 DEF SignedIn, Serves
<1>21. ASSUME NEW c \in Caller, StoreToken(c) PROVE CloseInv'
  BY <1>21 DEF StoreToken
<1>22. ASSUME NEW c \in Caller, NEW h \in Tx, NEW v \in Verbs, Finalise(c, h, v) PROVE CloseInv'
  BY <1>22 DEF Finalise
<1>23. ASSUME NEW c \in Caller, Finalised(c) PROVE CloseInv'
  BY <1>23 DEF Finalised, Serves
<1>24. ASSUME NEW c \in Caller, FinaliseFails(c) PROVE CloseInv'
  BY <1>24 DEF FinaliseFails, Fault, Serves
<1>25. ASSUME NEW c \in Caller, NEW h \in Tx \union Session, Query(c, h) PROVE CloseInv'
  BY <1>25 DEF Query
<1>26. ASSUME NEW c \in Caller, Queried(c) PROVE CloseInv'
  BY <1>26 DEF Queried
<1>27. ASSUME NEW h \in Handle, Forget(h) PROVE CloseInv'
  BY <1>27 DEF Forget
<1>28. CASE UNCHANGED vars
  BY <1>28 DEF vars
<1>. QED
  BY <1>1, <1>2, <1>3, <1>4, <1>5, <1>6, <1>7, <1>8, <1>9, <1>10, <1>11, <1>12, <1>13, <1>14, <1>15,
     <1>16, <1>17, <1>18, <1>19, <1>20, <1>21, <1>22, <1>23, <1>24, <1>25, <1>26, <1>27, <1>28 DEF Next, Start, Step

\* What the server holds stays accounted for: a handle leaves the open state into the
\* hand of the call that closes it, and leaves that hand closed, or with its RPC failed.
LEMMA LeakStep ==
  ASSUME TypeInv, CallInv, OpenInv, LockInv, CloseInv, LeakInv, [Next]_vars
  PROVE  LeakInv'
<1>. USE Kinds, HandlesAssumption DEF TypeInv, CallInv, OpenInv, LockInv, CloseInv, LeakInv, TypeOK, Verbs, Opening, InHand, Serves, Fault, UnderWay,
         At, Goto, Return, clients, handles, calls, history
<1>1. ASSUME Connect PROVE LeakInv'
  BY <1>1 DEF Connect
<1>2. ASSUME Disconnect PROVE LeakInv'
  BY <1>2 DEF Disconnect
<1>3. ASSUME CloseConnection PROVE LeakInv'
  BY <1>3 DEF CloseConnection
<1>4. ASSUME NEW c \in Caller, NEW h \in Handle, Open(c, h) PROVE LeakInv'
  BY <1>4 DEF Open
<1>5. ASSUME NEW c \in Caller, Opened(c) PROVE LeakInv'
  BY <1>5 DEF Opened
<1>6. ASSUME NEW c \in Caller, OpenFails(c) PROVE LeakInv'
  BY <1>6 DEF OpenFails
<1>7. ASSUME NEW c \in Caller, Subscribe(c) PROVE LeakInv'
  BY <1>7 DEF Subscribe
<1>8. ASSUME NEW c \in Caller, SubscribeFails(c) PROVE LeakInv'
  BY <1>8 DEF SubscribeFails
<1>9. ASSUME NEW c \in Caller, Track(c) PROVE LeakInv'
  BY <1>9 DEF Track
<1>10. ASSUME NEW c \in Caller, NEW h \in Live, Kill(c, h) PROVE LeakInv'
  BY <1>10 DEF Kill
<1>11. ASSUME NEW c \in Caller, DrainAll(c) PROVE LeakInv'
  BY <1>11 DEF DrainAll
<1>12. ASSUME NEW c \in Caller, NEW h \in Live, CloseLive(c, h) PROVE LeakInv'
  BY <1>12 DEF CloseLive
<1>13. ASSUME NEW c \in Caller, CloseQuietly(c) PROVE LeakInv'
  BY <1>13 DEF CloseQuietly, Proceed
<1>14. ASSUME NEW c \in Caller, SendKill(c) PROVE LeakInv'
  BY <1>14 DEF SendKill
<1>15. ASSUME NEW c \in Caller, Killed(c) PROVE LeakInv'
  BY <1>15 DEF Killed, Proceed
<1>16. ASSUME NEW c \in Caller, KillFails(c) PROVE LeakInv'
  BY <1>16 DEF KillFails, Proceed
<1>17. ASSUME NEW c \in Caller, NEW h \in Session, Detach(c, h) PROVE LeakInv'
  BY <1>17 DEF Detach
<1>18. ASSUME NEW c \in Caller, Detached(c) PROVE LeakInv'
  BY <1>18 DEF Detached
<1>19. ASSUME NEW c \in Caller, NEW h \in Session, Signin(c, h) PROVE LeakInv'
  BY <1>19 DEF Signin
<1>20. ASSUME NEW c \in Caller, SignedIn(c) PROVE LeakInv'
  BY <1>20 DEF SignedIn
<1>21. ASSUME NEW c \in Caller, StoreToken(c) PROVE LeakInv'
  BY <1>21 DEF StoreToken
<1>22. ASSUME NEW c \in Caller, NEW h \in Tx, NEW v \in Verbs, Finalise(c, h, v) PROVE LeakInv'
  BY <1>22 DEF Finalise
<1>23. ASSUME NEW c \in Caller, Finalised(c) PROVE LeakInv'
  BY <1>23 DEF Finalised
<1>24. ASSUME NEW c \in Caller, FinaliseFails(c) PROVE LeakInv'
  BY <1>24 DEF FinaliseFails
<1>25. ASSUME NEW c \in Caller, NEW h \in Tx \union Session, Query(c, h) PROVE LeakInv'
  BY <1>25 DEF Query
<1>26. ASSUME NEW c \in Caller, Queried(c) PROVE LeakInv'
  BY <1>26 DEF Queried
<1>27. ASSUME NEW h \in Handle, Forget(h) PROVE LeakInv'
  BY <1>27 DEF Forget
<1>28. CASE UNCHANGED vars
  BY <1>28 DEF vars
<1>. QED
  BY <1>1, <1>2, <1>3, <1>4, <1>5, <1>6, <1>7, <1>8, <1>9, <1>10, <1>11, <1>12, <1>13, <1>14, <1>15,
     <1>16, <1>17, <1>18, <1>19, <1>20, <1>21, <1>22, <1>23, <1>24, <1>25, <1>26, <1>27, <1>28 DEF Next, Start, Step

\* A live query leaves the manager's list into a hand that closes it, and leaves that
\* hand closed.
LEMMA DrainStep ==
  ASSUME TypeInv, CallInv, OpenInv, LockInv, DrainReachesAll, [Next]_vars
  PROVE  DrainReachesAll'
<1>. USE Kinds, HandlesAssumption DEF TypeInv, CallInv, OpenInv, LockInv, DrainReachesAll, TypeOK, Verbs, Opening, UnderWay,
         At, Goto, Return, clients, handles, calls, history
<1>1. ASSUME Connect PROVE DrainReachesAll'
  BY <1>1 DEF Connect
<1>2. ASSUME Disconnect PROVE DrainReachesAll'
  BY <1>2 DEF Disconnect
<1>3. ASSUME CloseConnection PROVE DrainReachesAll'
  BY <1>3 DEF CloseConnection
<1>4. ASSUME NEW c \in Caller, NEW h \in Handle, Open(c, h) PROVE DrainReachesAll'
  BY <1>4 DEF Open
<1>5. ASSUME NEW c \in Caller, Opened(c) PROVE DrainReachesAll'
  BY <1>5 DEF Opened
<1>6. ASSUME NEW c \in Caller, OpenFails(c) PROVE DrainReachesAll'
  BY <1>6 DEF OpenFails, Fault
<1>7. ASSUME NEW c \in Caller, Subscribe(c) PROVE DrainReachesAll'
  BY <1>7 DEF Subscribe
<1>8. ASSUME NEW c \in Caller, SubscribeFails(c) PROVE DrainReachesAll'
  BY <1>8 DEF SubscribeFails, Fault
<1>9. ASSUME NEW c \in Caller, Track(c) PROVE DrainReachesAll'
  BY <1>9 DEF Track
<1>10. ASSUME NEW c \in Caller, NEW h \in Live, Kill(c, h) PROVE DrainReachesAll'
  BY <1>10 DEF Kill
<1>11. ASSUME NEW c \in Caller, DrainAll(c) PROVE DrainReachesAll'
  BY <1>11 DEF DrainAll
<1>12. ASSUME NEW c \in Caller, NEW h \in Live, CloseLive(c, h) PROVE DrainReachesAll'
  BY <1>12 DEF CloseLive
<1>13. ASSUME NEW c \in Caller, CloseQuietly(c) PROVE DrainReachesAll'
  BY <1>13 DEF CloseQuietly, Proceed
<1>14. ASSUME NEW c \in Caller, SendKill(c) PROVE DrainReachesAll'
  BY <1>14 DEF SendKill
<1>15. ASSUME NEW c \in Caller, Killed(c) PROVE DrainReachesAll'
  BY <1>15 DEF Killed, Proceed
<1>16. ASSUME NEW c \in Caller, KillFails(c) PROVE DrainReachesAll'
  <2>1. PICK h \in todo[c] : /\ At(c, "kill") /\ lock[h] = c /\ Proceed(c, h)
                             /\ UNCHANGED <<local, tracked, server>>
    BY <1>16 DEF KillFails
  <2>2. local[h] # "open"
    BY <2>1
  <2>3. CASE todo[c] = {h}
    BY <2>1, <2>2, <2>3 DEF Proceed
  <2>4. CASE todo[c] # {h}
    BY <2>1, <2>2, <2>4 DEF Proceed
  <2>. QED
    BY <2>3, <2>4
<1>17. ASSUME NEW c \in Caller, NEW h \in Session, Detach(c, h) PROVE DrainReachesAll'
  BY <1>17 DEF Detach
<1>18. ASSUME NEW c \in Caller, Detached(c) PROVE DrainReachesAll'
  BY <1>18 DEF Detached, Fault
<1>19. ASSUME NEW c \in Caller, NEW h \in Session, Signin(c, h) PROVE DrainReachesAll'
  BY <1>19 DEF Signin
<1>20. ASSUME NEW c \in Caller, SignedIn(c) PROVE DrainReachesAll'
  BY <1>20 DEF SignedIn, Serves
<1>21. ASSUME NEW c \in Caller, StoreToken(c) PROVE DrainReachesAll'
  BY <1>21 DEF StoreToken
<1>22. ASSUME NEW c \in Caller, NEW h \in Tx, NEW v \in Verbs, Finalise(c, h, v) PROVE DrainReachesAll'
  BY <1>22 DEF Finalise
<1>23. ASSUME NEW c \in Caller, Finalised(c) PROVE DrainReachesAll'
  BY <1>23 DEF Finalised, Serves
<1>24. ASSUME NEW c \in Caller, FinaliseFails(c) PROVE DrainReachesAll'
  BY <1>24 DEF FinaliseFails, Fault, Serves
<1>25. ASSUME NEW c \in Caller, NEW h \in Tx \union Session, Query(c, h) PROVE DrainReachesAll'
  BY <1>25 DEF Query
<1>26. ASSUME NEW c \in Caller, Queried(c) PROVE DrainReachesAll'
  BY <1>26 DEF Queried
<1>27. ASSUME NEW h \in Handle, Forget(h) PROVE DrainReachesAll'
  BY <1>27 DEF Forget
<1>28. CASE UNCHANGED vars
  BY <1>28 DEF vars
<1>. QED
  BY <1>1, <1>2, <1>3, <1>4, <1>5, <1>6, <1>7, <1>8, <1>9, <1>10, <1>11, <1>12, <1>13, <1>14, <1>15,
     <1>16, <1>17, <1>18, <1>19, <1>20, <1>21, <1>22, <1>23, <1>24, <1>25, <1>26, <1>27, <1>28 DEF Next, Start, Step

-----------------------------------------------------------------------------
IInv == TypeInv /\ CallInv /\ OpenInv /\ LockInv /\ CloseInv /\ LeakInv /\ DrainReachesAll

\* Nothing is open, under way or at the server at the start.
LEMMA InitInv == Init => IInv
<1>. SUFFICES ASSUME Init PROVE IInv
  OBVIOUS
<1>. USE HandlesAssumption DEF Init
<1>1. TypeInv
  BY DEF TypeInv, TypeOK, Places
<1>2. CallInv /\ OpenInv
  BY DEF CallInv, OpenInv, Verbs, At
<1>3. LockInv /\ CloseInv
  BY DEF LockInv, CloseInv
<1>4. LeakInv /\ DrainReachesAll
  BY Kinds DEF LeakInv, DrainReachesAll, Serves
<1>. QED
  BY <1>1, <1>2, <1>3, <1>4 DEF IInv

\* The invariant is inductive.
LEMMA StepInv == IInv /\ [Next]_vars => IInv'
BY TypeStep, CallStep, OpenStep, LockStep, CloseStep, LeakStep, DrainStep DEF IInv

LEMMA Invariant == Spec => []IInv
BY InitInv, StepInv, PTL DEF Spec

\* Type correctness: a mutex that is held is held by the call that has the handle
\* in hand and is at its RPC, and only a detached session whose sign-in was
\* overtaken keeps a token.
THEOREM TypeCorrect == Spec => []TypeOK
BY Invariant, PTL DEF IInv, TypeInv

\* However many goroutines close a live query, detach a session or finalise a
\* transaction, one closing RPC is sent for it (Close, Detach, Commit, Rollback).
THEOREM ClosedAtMostOnce == Spec => []ClosedOnce
<1>1. IInv => ClosedOnce
  BY DEF IInv, CloseInv, ClosedOnce
<1>. QED
  BY <1>1, Invariant, PTL

\* What the server holds on the client's connection belongs to a handle that is
\* open or in the hand of a call, unless an RPC for it failed or was misdirected.
THEOREM NothingIsLeftBehind == Spec => []NothingLeaks
<1>1. IInv => NothingLeaks
  BY DEF IInv, LeakInv, NothingLeaks, InHand, UnderWay
<1>. QED
  BY <1>1, Invariant, PTL

\* An open live query is in the manager's list or in the hand of a Spawn, a Kill,
\* a Close or a DrainAll, for any overlap of them.
THEOREM DrainMissesNothing == Spec => []DrainReachesAll
BY Invariant, PTL DEF IInv
=============================================================================
