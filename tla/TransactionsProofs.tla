------------------------- MODULE TransactionsProofs -------------------------
(***************************************************************************)
(* Theorems about Transactions, for any number of tasks, connections and   *)
(* statements, on either database.                                         *)
(*                                                                         *)
(* IInv is the inductive invariant.  A connection is in one place: the     *)
(* pool, one transaction, one query, or none of them while its ROLLBACK is *)
(* queued (Apart).  The writes that are uncommitted on the connection of a *)
(* transaction are those of its task (CleanConnections).  Numbers of       *)
(* statements are not used twice (Counts), so what a closure commits on    *)
(* the pool is never taken for a part of its transaction (Atomic).         *)
(***************************************************************************)
EXTENDS Transactions, TLAPS

InClosure == {"closure", "query", "querying", "commit"}

Shape ==
  \A t \in Tasks :
    /\ conn[t] # NoConn <=> pc[t] \in InClosure
    /\ aux[t] # NoConn <=> pc[t] = "querying"
    /\ outcome[t] # "none" <=> pc[t] = "ended"
    /\ pc[t] \in {"start", "begin"} => issued[t] = {}

Apart ==
  /\ \A t \in Tasks : conn[t] \notin idle /\ aux[t] \notin idle
  /\ \A t, u \in Tasks : conn[t] # NoConn => conn[t] # aux[u]
  /\ \A t, u \in Tasks : t # u /\ conn[t] # NoConn => conn[t] # conn[u]
  /\ \A t, u \in Tasks : t # u /\ aux[t] # NoConn => aux[t] # aux[u]

Counts ==
  /\ \A t \in Tasks :
       /\ \A n \in issued[t] : n <= step[t]
       /\ pc[t] \in {"query", "querying"} => step[t] \in Statements \ issued[t]
  /\ \A w \in store : w[2] <= step[w[1]]

Atomic ==
  \A t \in Tasks :
    /\ Visible(t) \in {{}, issued[t]}
    /\ outcome[t] \in {"none", "err"} => Visible(t) = {}

IInv == TypeOK /\ Shape /\ Apart /\ Counts /\ Atomic /\ CleanConnections

-----------------------------------------------------------------------------
LEMMA InitIInv == Init => IInv
<1> SUFFICES ASSUME Init PROVE IInv
  OBVIOUS
<1> USE TransactionsAssumption
<1>1. TypeOK
  BY DEF Init, TypeOK, Statements
<1>2. Shape /\ Apart
  BY DEF Init, Shape, Apart, InClosure
<1>3. Counts /\ Atomic
  BY DEF Init, Counts, Atomic, Visible
<1>4. CleanConnections
  BY DEF Init, CleanConnections
<1>5. QED
  BY <1>1, <1>2, <1>3, <1>4 DEF IInv

\* Every step keeps the types.
LEMMA TypeStep == IInv /\ [Next]_vars => TypeOK'
<1> SUFFICES ASSUME IInv, [Next]_vars PROVE TypeOK'
  OBVIOUS
<1> USE TransactionsAssumption DEF IInv, TypeOK, Goto, Returns, DropTx, Statements
<1>1. ASSUME NEW t \in Tasks, Call(t) \/ Begin(t) \/ BeginFails(t) PROVE TypeOK'
  BY <1>1 DEF Call, Begin, BeginFails
<1>2. ASSUME NEW t \in Tasks, Statement(t) PROVE TypeOK'
  BY <1>2 DEF Statement, Shape, InClosure
<1>3. ASSUME NEW t \in Tasks, StatementFails(t) PROVE TypeOK'
  BY <1>3 DEF StatementFails, Shape, InClosure
<1>4. ASSUME NEW t \in Tasks, Query(t) \/ QueryAcquires(t) \/ QueryFails(t) PROVE TypeOK'
  BY <1>4 DEF Query, QueryAcquires, QueryFails
<1>5. ASSUME NEW t \in Tasks, QueryRuns(t) PROVE TypeOK'
  BY <1>5 DEF QueryRuns, Shape, Counts, InClosure
<1>6. ASSUME NEW t \in Tasks, ClosureErr(t) \/ ClosureOk(t) \/ CommitFails(t) PROVE TypeOK'
  BY <1>6 DEF ClosureErr, ClosureOk, CommitFails
<1>7. ASSUME NEW t \in Tasks, Commit(t) \/ CommitUnanswered(t) PROVE TypeOK'
  BY <1>7 DEF Commit, CommitUnanswered, Publish, Release, Shape, InClosure
<1>8. ASSUME NEW t \in Tasks, Dropped(t) PROVE TypeOK'
  BY <1>8 DEF Dropped, Publish, Shape, Counts, InClosure
<1>9. ASSUME NEW c \in Conns, Rollback(c) PROVE TypeOK'
  BY <1>9 DEF Rollback
<1>10. ASSUME Disconnect \/ Disconnected \/ Finished \/ UNCHANGED vars PROVE TypeOK'
  BY <1>10 DEF Disconnect, Disconnected, Finished, vars
<1>11. QED
  BY <1>1, <1>2, <1>3, <1>4, <1>5, <1>6, <1>7, <1>8, <1>9, <1>10 DEF Next, TaskStep

\* A task holds connections exactly where its program counter says so.
LEMMA ShapeStep == IInv /\ [Next]_vars => Shape'
<1> SUFFICES ASSUME IInv, [Next]_vars PROVE Shape'
  OBVIOUS
<1> USE TransactionsAssumption DEF IInv, TypeOK, Shape, InClosure, Goto, Returns, DropTx
<1>1. ASSUME NEW t \in Tasks, Call(t) \/ Begin(t) \/ BeginFails(t) PROVE Shape'
  BY <1>1 DEF Call, Begin, BeginFails
<1>2. ASSUME NEW t \in Tasks, Statement(t) \/ StatementFails(t) PROVE Shape'
  BY <1>2 DEF Statement, StatementFails
<1>3. ASSUME NEW t \in Tasks, Query(t) \/ QueryAcquires(t) \/ QueryRuns(t) \/ QueryFails(t)
      PROVE Shape'
  BY <1>3 DEF Query, QueryAcquires, QueryRuns, QueryFails
<1>4. ASSUME NEW t \in Tasks, ClosureErr(t) \/ ClosureOk(t) \/ CommitFails(t) PROVE Shape'
  BY <1>4 DEF ClosureErr, ClosureOk, CommitFails
<1>5. ASSUME NEW t \in Tasks, Commit(t) \/ CommitUnanswered(t) PROVE Shape'
  BY <1>5 DEF Commit, CommitUnanswered, Release
<1>6. ASSUME NEW t \in Tasks, Dropped(t) PROVE Shape'
  BY <1>6 DEF Dropped
<1>7. ASSUME NEW c \in Conns, Rollback(c) PROVE Shape'
  BY <1>7 DEF Rollback
<1>8. ASSUME Disconnect \/ Disconnected \/ Finished \/ UNCHANGED vars PROVE Shape'
  BY <1>8 DEF Disconnect, Disconnected, Finished, vars
<1>9. QED
  BY <1>1, <1>2, <1>3, <1>4, <1>5, <1>6, <1>7, <1>8 DEF Next, TaskStep

\* No two tasks, and no task and the pool, have the same connection.
LEMMA ApartStep == IInv /\ [Next]_vars => Apart'
<1> SUFFICES ASSUME IInv, [Next]_vars PROVE Apart'
  OBVIOUS
<1> USE TransactionsAssumption DEF IInv, TypeOK, Apart, Goto, Returns, DropTx
<1>1. ASSUME NEW t \in Tasks, Call(t) \/ BeginFails(t) PROVE Apart'
  BY <1>1 DEF Call, BeginFails
<1>2. ASSUME NEW t \in Tasks, Begin(t) PROVE Apart'
  BY <1>2 DEF Begin, Shape, InClosure
<1>3. ASSUME NEW t \in Tasks, Statement(t) \/ StatementFails(t) PROVE Apart'
  BY <1>3 DEF Statement, StatementFails
<1>4. ASSUME NEW t \in Tasks, Query(t) \/ QueryAcquires(t) PROVE Apart'
  BY <1>4 DEF Query, QueryAcquires
<1>5. ASSUME NEW t \in Tasks, QueryRuns(t) PROVE Apart'
  BY <1>5 DEF QueryRuns, Shape, InClosure
<1>6. ASSUME NEW t \in Tasks, QueryFails(t) PROVE Apart'
  BY <1>6 DEF QueryFails
<1>7. ASSUME NEW t \in Tasks, ClosureErr(t) \/ ClosureOk(t) \/ CommitFails(t) PROVE Apart'
  BY <1>7 DEF ClosureErr, ClosureOk, CommitFails
<1>8. ASSUME NEW t \in Tasks, Commit(t) \/ CommitUnanswered(t) PROVE Apart'
  BY <1>8 DEF Commit, CommitUnanswered, Release, Shape, InClosure
<1>9. ASSUME NEW t \in Tasks, Dropped(t) PROVE Apart'
  BY <1>9 DEF Dropped
<1>10. ASSUME NEW c \in Conns, Rollback(c) PROVE Apart'
  BY <1>10 DEF Rollback, Held
<1>11. ASSUME Disconnect \/ Disconnected \/ Finished \/ UNCHANGED vars PROVE Apart'
  BY <1>11 DEF Disconnect, Disconnected, Finished, vars
<1>12. QED
  BY <1>1, <1>2, <1>3, <1>4, <1>5, <1>6, <1>7, <1>8, <1>9, <1>10, <1>11 DEF Next, TaskStep

\* What is uncommitted on a connection belongs to the task that holds it.
LEMMA CleanStep == IInv /\ [Next]_vars => CleanConnections'
<1> SUFFICES ASSUME IInv, [Next]_vars PROVE CleanConnections'
  OBVIOUS
<1> USE TransactionsAssumption DEF IInv, TypeOK, CleanConnections, Goto, Returns, DropTx
<1>1. ASSUME NEW t \in Tasks, Call(t) \/ BeginFails(t) PROVE CleanConnections'
  BY <1>1 DEF Call, BeginFails
<1>2. ASSUME NEW t \in Tasks, Begin(t) PROVE CleanConnections'
  BY <1>2 DEF Begin, Shape
<1>3. ASSUME NEW t \in Tasks, Statement(t) PROVE CleanConnections'
  <2>1. conn[t] \in Conns /\ conn[t] # NoConn
    BY <1>3 DEF Statement, Shape, InClosure
  <2>2. buffer'[conn[t]] = {t} \X issued'[t]
    BY <1>3, <2>1 DEF Statement
  <2>3. \A u \in Tasks \ {t} : conn[u] # NoConn => buffer'[conn[u]] = {u} \X issued'[u]
    BY <1>3, <2>1 DEF Statement, Apart
  <2>4. \A c \in idle \cup {aux[u] : u \in Tasks} :
            c # NoConn => buffer'[c] = {} /\ c \notin poisoned
    BY <1>3, <2>1 DEF Statement, Apart
  <2>5. QED
    BY <1>3, <2>2, <2>3, <2>4 DEF Statement
<1>4. ASSUME NEW t \in Tasks, StatementFails(t) PROVE CleanConnections'
  <2>1. conn[t] \in Conns /\ conn[t] # NoConn
    BY <1>4 DEF StatementFails, Shape, InClosure
  <2>2. \A c \in idle \cup {aux[u] : u \in Tasks} : c # NoConn => c \notin poisoned'
    BY <1>4, <2>1 DEF StatementFails, Apart
  <2>3. QED
    BY <1>4, <2>2 DEF StatementFails
<1>5. ASSUME NEW t \in Tasks, Query(t) \/ QueryAcquires(t) PROVE CleanConnections'
  BY <1>5 DEF Query, QueryAcquires
<1>6. ASSUME NEW t \in Tasks, QueryRuns(t) \/ QueryFails(t) PROVE CleanConnections'
  BY <1>6 DEF QueryRuns, QueryFails
<1>7. ASSUME NEW t \in Tasks, ClosureErr(t) \/ ClosureOk(t) \/ CommitFails(t)
      PROVE CleanConnections'
  BY <1>7 DEF ClosureErr, ClosureOk, CommitFails
<1>8. ASSUME NEW t \in Tasks, Commit(t) \/ CommitUnanswered(t) PROVE CleanConnections'
  <2>1. conn[t] \in Conns /\ conn[t] # NoConn
    BY <1>8 DEF Commit, CommitUnanswered, Shape, InClosure
  <2>2. \A u \in Tasks : conn'[u] # NoConn => buffer'[conn'[u]] = {u} \X issued'[u]
    BY <1>8, <2>1 DEF Commit, CommitUnanswered, Release, Apart
  <2>3. \A c \in idle' \cup {aux'[u] : u \in Tasks} :
            c # NoConn => buffer'[c] = {} /\ c \notin poisoned'
    BY <1>8, <2>1 DEF Commit, CommitUnanswered, Release, Apart
  <2>4. QED
    BY <2>2, <2>3
<1>9. ASSUME NEW t \in Tasks, Dropped(t) PROVE CleanConnections'
  <2>1. pc[t] = "commit" => conn[t] \in Conns /\ conn[t] # NoConn
    BY DEF Shape, InClosure
  <2>2. \A u \in Tasks : conn'[u] # NoConn => buffer'[conn'[u]] = {u} \X issued'[u]
    BY <1>9, <2>1 DEF Dropped, Apart
  <2>3. \A c \in idle' \cup {aux'[u] : u \in Tasks} :
            c # NoConn => buffer'[c] = {} /\ c \notin poisoned'
    BY <1>9, <2>1 DEF Dropped, Apart
  <2>4. QED
    BY <2>2, <2>3
<1>10. ASSUME NEW c \in Conns, Rollback(c) PROVE CleanConnections'
  BY <1>10 DEF Rollback, Held
<1>11. ASSUME Disconnect \/ Disconnected \/ Finished \/ UNCHANGED vars PROVE CleanConnections'
  BY <1>11 DEF Disconnect, Disconnected, Finished, vars
<1>12. QED
  BY <1>1, <1>2, <1>3, <1>4, <1>5, <1>6, <1>7, <1>8, <1>9, <1>10, <1>11 DEF Next, TaskStep

-----------------------------------------------------------------------------
(* What a step may do to the committed writes                              *)

\* The statements a transaction has run are counted, and a query of the
\* closure has a number of its own.
LEMMA CountsStep == IInv /\ [Next]_vars => Counts'
<1> SUFFICES ASSUME IInv, [Next]_vars PROVE Counts'
  OBVIOUS
<1> USE TransactionsAssumption DEF IInv, TypeOK, Counts, Goto, Returns, DropTx, Statements
<1>1. ASSUME NEW t \in Tasks, Call(t) \/ Begin(t) \/ BeginFails(t) PROVE Counts'
  BY <1>1 DEF Call, Begin, BeginFails
<1>2. ASSUME NEW t \in Tasks, Statement(t) \/ StatementFails(t) PROVE Counts'
  BY <1>2 DEF Statement, StatementFails
<1>3. ASSUME NEW t \in Tasks, Query(t) \/ QueryAcquires(t) \/ QueryFails(t) PROVE Counts'
  BY <1>3 DEF Query, QueryAcquires, QueryFails
<1>4. ASSUME NEW t \in Tasks, QueryRuns(t) PROVE Counts'
  BY <1>4 DEF QueryRuns
<1>5. ASSUME NEW t \in Tasks, ClosureErr(t) \/ ClosureOk(t) \/ CommitFails(t) PROVE Counts'
  BY <1>5 DEF ClosureErr, ClosureOk, CommitFails
<1>6. ASSUME NEW t \in Tasks, Commit(t) \/ CommitUnanswered(t) PROVE Counts'
  BY <1>6 DEF Commit, CommitUnanswered, Publish, Release, Shape, InClosure, CleanConnections
<1>7. ASSUME NEW t \in Tasks, Dropped(t) PROVE Counts'
  BY <1>7 DEF Dropped, Publish, Shape, InClosure, CleanConnections
<1>8. ASSUME NEW c \in Conns, Rollback(c) PROVE Counts'
  BY <1>8 DEF Rollback
<1>9. ASSUME Disconnect \/ Disconnected \/ Finished \/ UNCHANGED vars PROVE Counts'
  BY <1>9 DEF Disconnect, Disconnected, Finished, vars
<1>10. QED
  BY <1>1, <1>2, <1>3, <1>4, <1>5, <1>6, <1>7, <1>8, <1>9 DEF Next, TaskStep

\* A transaction that is published becomes visible, and no other one.
LEMMA Published ==
  ASSUME IInv, NEW t \in Tasks, pc[t] = "commit", Publish(t), issued' = issued
  PROVE  /\ store' = store \cup ({t} \X issued[t])
         /\ Visible(t)' = issued[t]
         /\ \A u \in Tasks \ {t} : Visible(u)' = Visible(u)
<1>1. store' = store \cup ({t} \X issued[t])
  BY DEF IInv, TypeOK, Shape, InClosure, CleanConnections, Publish
<1>2. QED
  BY <1>1 DEF Visible

\* A query that is committed on the pool is no part of a transaction.
LEMMA QueryInvisible ==
  ASSUME IInv, NEW t \in Tasks, pc[t] = "querying",
         store' = store \cup {<<t, step[t]>>}, issued' = issued
  PROVE  \A u \in Tasks : Visible(u)' = Visible(u)
BY DEF IInv, Counts, Visible

\* A statement of a transaction has a number nobody has seen.
LEMMA StatementInvisible ==
  ASSUME IInv, NEW t \in Tasks, Statement(t)
  PROVE  \A u \in Tasks : Visible(u)' = Visible(u)
<1>1. <<t, step[t] + 1>> \notin store
  <2>1. step[t] \in Nat
    BY TransactionsAssumption DEF IInv, TypeOK
  <2>2. QED
    BY <2>1 DEF IInv, Counts
<1>2. QED
  BY <1>1 DEF Statement, IInv, TypeOK, Visible

\* Nothing, or all of it.
LEMMA AtomicStep == IInv /\ [Next]_vars => Atomic'
<1> SUFFICES ASSUME IInv, [Next]_vars PROVE Atomic'
  OBVIOUS
<1> USE DEF IInv, TypeOK, Atomic, Goto, Returns, DropTx
<1>1. ASSUME UNCHANGED <<issued, store, outcome>> PROVE Atomic'
  BY <1>1 DEF Visible
<1>2. ASSUME NEW t \in Tasks, NEW o, outcome[t] = "none",
             outcome' = [outcome EXCEPT ![t] = o], UNCHANGED <<issued, store>>
      PROVE  Atomic'
  BY <1>2 DEF Visible
<1>3. ASSUME NEW t \in Tasks, NEW o \in {"ok", "commit_err", "dropped"}, pc[t] = "commit",
             outcome' = [outcome EXCEPT ![t] = o], Publish(t), issued' = issued
      PROVE  Atomic'
  BY <1>3, Published
<1>4. ASSUME NEW t \in Tasks, Statement(t) PROVE Atomic'
  BY <1>4, StatementInvisible DEF Statement, Shape
<1>5. ASSUME NEW t \in Tasks, QueryRuns(t) PROVE Atomic'
  BY <1>5, QueryInvisible DEF QueryRuns
<1>6. ASSUME NEW t \in Tasks, Dropped(t) PROVE Atomic'
  <2>1. outcome[t] = "none" /\ outcome' = [outcome EXCEPT ![t] = "dropped"] /\ issued' = issued
    BY <1>6 DEF Dropped, Shape
  <2>2. CASE store' = store
    BY <2>1, <2>2, <1>2
  <2>3. CASE pc[t] = "querying" /\ store' = store \cup {<<t, step[t]>>}
    BY <2>1, <2>3, QueryInvisible
  <2>4. CASE pc[t] = "commit" /\ Publish(t)
    BY <2>1, <2>4, <1>3
  <2>5. QED
    BY <1>6, <2>2, <2>3, <2>4 DEF Dropped
<1>7. ASSUME NEW t \in Tasks, BeginFails(t) \/ ClosureErr(t) \/ CommitFails(t) PROVE Atomic'
  <2>1. outcome[t] = "none" /\ UNCHANGED <<issued, store>>
    BY <1>7 DEF BeginFails, ClosureErr, CommitFails, Shape
  <2>2. \E o : outcome' = [outcome EXCEPT ![t] = o]
    BY <1>7 DEF BeginFails, ClosureErr, CommitFails
  <2>3. QED
    BY <2>1, <2>2, <1>2
<1>8. ASSUME NEW t \in Tasks, StatementFails(t) \/ QueryFails(t) PROVE Atomic'
  <2>1. outcome[t] = "none" /\ UNCHANGED <<issued, store>>
    BY <1>8 DEF StatementFails, QueryFails, Shape
  <2>2. outcome' = outcome \/ \E o : outcome' = [outcome EXCEPT ![t] = o]
    BY <1>8 DEF StatementFails, QueryFails
  <2>3. QED
    BY <2>1, <2>2, <1>1, <1>2
<1>9. ASSUME NEW t \in Tasks, Commit(t) \/ CommitUnanswered(t) PROVE Atomic'
  <2>1. pc[t] = "commit" /\ outcome[t] = "none" /\ issued' = issued
    BY <1>9 DEF Commit, CommitUnanswered, Shape
  <2>2. PICK o \in {"ok", "commit_err"} : outcome' = [outcome EXCEPT ![t] = o]
    BY <1>9 DEF Commit, CommitUnanswered
  <2>3. store' = store \/ Publish(t)
    BY <1>9 DEF Commit, CommitUnanswered
  <2>4. QED
    BY <2>1, <2>2, <2>3, <1>2, <1>3
<1>10. ASSUME NEW t \in Tasks,
              Call(t) \/ Begin(t) \/ Query(t) \/ QueryAcquires(t) \/ ClosureOk(t)
       PROVE  Atomic'
  BY <1>1, <1>10 DEF Call, Begin, Query, QueryAcquires, ClosureOk
<1>11. ASSUME \/ \E c \in Conns : Rollback(c)
              \/ Disconnect \/ Disconnected \/ Finished \/ UNCHANGED vars
       PROVE  Atomic'
  BY <1>1, <1>11 DEF Rollback, Disconnect, Disconnected, Finished, vars
<1>12. QED
  BY <1>4, <1>5, <1>6, <1>7, <1>8, <1>9, <1>10, <1>11 DEF Next, TaskStep

-----------------------------------------------------------------------------
LEMMA StepIInv == IInv /\ [Next]_vars => IInv'
BY TypeStep, ShapeStep, ApartStep, CleanStep, CountsStep, AtomicStep DEF IInv

LEMMA IInvAlways == Spec => []IInv
BY InitIInv, StepIInv, PTL DEF Spec

\* Every variable keeps its type.
THEOREM TransactionTypes == Spec => []TypeOK
<1>1. IInv => TypeOK
  BY DEF IInv
<1>2. QED
  BY <1>1, IInvAlways, PTL

\* A transaction is visible as a whole or not at all, and not before its
\* task has its answer.
THEOREM TransactionsAreAtomic == Spec => []AllOrNothing
<1>1. IInv => AllOrNothing
  BY DEF IInv, TypeOK, Shape, Atomic, AllOrNothing
<1>2. QED
  BY <1>1, IInvAlways, PTL

\* A caller that is told its closure failed finds nothing of it.
THEOREM ErrorsRollBack == Spec => []ErrMeansRolledBack
<1>1. IInv => ErrMeansRolledBack
  BY DEF IInv, Atomic, ErrMeansRolledBack
<1>2. QED
  BY <1>1, IInvAlways, PTL

\* No connection is handed out with a transaction open on it.
THEOREM ConnectionsAreClean == Spec => []CleanConnections
<1>1. IInv => CleanConnections
  BY DEF IInv
<1>2. QED
  BY <1>1, IInvAlways, PTL
-----------------------------------------------------------------------------
(* The promise of AtomicTransactions.  On PostgreSQL it needs closures that *)
(* return the error of a statement: a closure that swallows it is told Ok   *)
(* for a COMMIT that was answered with ROLLBACK.                            *)

ErrorsReturned == ~ (Postgres /\ Swallows)

Committed ==
  ErrorsReturned =>
    \A t \in Tasks : /\ conn[t] \notin poisoned
                     /\ outcome[t] = "ok" => Visible(t) = issued[t]

\* Without swallowed errors no closure goes on in an aborted transaction.
LEMMA CommittedStep == IInv /\ Committed /\ [Next]_vars => Committed'
<1> SUFFICES ASSUME IInv, Committed, [Next]_vars, ErrorsReturned
             PROVE  \A t \in Tasks : /\ conn'[t] \notin poisoned'
                                     /\ outcome'[t] = "ok" => Visible(t)' = issued'[t]
  BY DEF Committed
<1> DEFINE Goal == \A t \in Tasks : /\ conn'[t] \notin poisoned'
                                    /\ outcome'[t] = "ok" => Visible(t)' = issued'[t]
<1>0. NoConn \notin poisoned
  BY TransactionsAssumption DEF IInv, TypeOK
<1> USE DEF IInv, TypeOK, Committed, ErrorsReturned, Goto, Returns, DropTx
<1>1. ASSUME NEW t \in Tasks, Begin(t) PROVE Goal
  <2>1. \A c \in idle : c \notin poisoned
    BY TransactionsAssumption DEF CleanConnections
  <2>2. \A u \in Tasks : conn'[u] \notin poisoned'
    BY <1>1, <2>1 DEF Begin
  <2>3. \A u \in Tasks : outcome'[u] = "ok" => Visible(u)' = issued'[u]
    BY <1>1 DEF Begin, Visible
  <2>4. QED
    BY <2>2, <2>3
<1>2. ASSUME NEW t \in Tasks, Statement(t) PROVE Goal
  BY <1>2, StatementInvisible DEF Statement, Shape
<1>3. ASSUME NEW t \in Tasks, StatementFails(t) PROVE Goal
  <2>1. conn[t] \in Conns /\ conn[t] # NoConn
    BY <1>3 DEF StatementFails, Shape, InClosure
  <2>2. \A u \in Tasks : conn'[u] \notin poisoned'
    BY <1>0, <1>3, <2>1 DEF StatementFails, Apart
  <2>3. QED
    BY <1>3, <2>2 DEF StatementFails, Visible
<1>4. ASSUME NEW t \in Tasks, QueryRuns(t) PROVE Goal
  BY <1>4, QueryInvisible DEF QueryRuns
<1>5. ASSUME NEW t \in Tasks, Commit(t) PROVE Goal
  <2>1. Publish(t) /\ pc[t] = "commit" /\ issued' = issued
    BY <1>5 DEF Commit
  <2>2. \A u \in Tasks : outcome'[u] = "ok" => Visible(u)' = issued'[u]
    BY <1>5, <2>1, Published DEF Commit
  <2>3. \A u \in Tasks : conn'[u] \notin poisoned'
    BY <1>0, <1>5 DEF Commit, Release
  <2>4. QED
    BY <2>2, <2>3
<1>6. ASSUME NEW t \in Tasks, CommitUnanswered(t) PROVE Goal
  <2>1. Publish(t) /\ pc[t] = "commit" /\ issued' = issued
    BY <1>6 DEF CommitUnanswered
  <2>2. \A u \in Tasks : outcome'[u] = "ok" => Visible(u)' = issued'[u]
    BY <1>6, <2>1, Published DEF CommitUnanswered
  <2>3. \A u \in Tasks : conn'[u] \notin poisoned'
    BY <1>0, <1>6 DEF CommitUnanswered, Release
  <2>4. QED
    BY <2>2, <2>3
<1>7. ASSUME NEW t \in Tasks, Dropped(t) PROVE Goal
  <2>1. \A u \in Tasks : conn'[u] \notin poisoned'
    BY <1>0, <1>7 DEF Dropped
  <2>2. issued' = issued /\ \A u \in Tasks : outcome'[u] = "ok" => u # t /\ outcome[u] = "ok"
    BY <1>7 DEF Dropped
  <2>3. CASE store' = store
    BY <2>1, <2>2, <2>3 DEF Visible
  <2>4. CASE pc[t] = "querying" /\ store' = store \cup {<<t, step[t]>>}
    BY <2>1, <2>2, <2>4, QueryInvisible
  <2>5. CASE pc[t] = "commit" /\ Publish(t)
    BY <2>1, <2>2, <2>5, Published
  <2>6. QED
    BY <1>7, <2>3, <2>4, <2>5 DEF Dropped
<1>8. ASSUME NEW t \in Tasks,
             BeginFails(t) \/ QueryFails(t) \/ ClosureErr(t) \/ CommitFails(t)
      PROVE  Goal
  BY <1>0, <1>8 DEF BeginFails, QueryFails, ClosureErr, CommitFails, Visible
<1>9. ASSUME NEW t \in Tasks, Call(t) \/ Query(t) \/ QueryAcquires(t) \/ ClosureOk(t)
      PROVE  Goal
  BY <1>9 DEF Call, Query, QueryAcquires, ClosureOk, Visible
<1>10. ASSUME \/ \E c \in Conns : Rollback(c)
              \/ Disconnect \/ Disconnected \/ Finished \/ UNCHANGED vars
       PROVE  Goal
  BY <1>10 DEF Rollback, Disconnect, Disconnected, Finished, vars, Visible
<1>11. QED
  BY <1>1, <1>2, <1>3, <1>4, <1>5, <1>6, <1>7, <1>8, <1>9, <1>10 DEF Next, TaskStep

LEMMA CommittedAlways == Spec => [](IInv /\ Committed)
<1>1. Init => Committed
  BY TransactionsAssumption DEF Init, Committed
<1>2. QED
  BY <1>1, InitIInv, StepIInv, CommittedStep, PTL DEF Spec

\* A caller that is told Ok finds all its transaction wrote.
THEOREM OkIsCommitted == Spec => [](ErrorsReturned => OkMeansCommitted)
<1>1. Committed => (ErrorsReturned => OkMeansCommitted)
  BY DEF Committed, OkMeansCommitted
<1>2. QED
  BY <1>1, CommittedAlways, PTL
-----------------------------------------------------------------------------
(* The refinement                                                          *)

Written == {w \in store : w[2] \in issued[w[1]]}

\* Publishing a transaction installs it.
LEMMA InstallRefines ==
  ASSUME IInv, NEW t \in Tasks, NEW o \in {"ok", "commit_err", "dropped"},
         pc[t] = "commit", Publish(t), issued' = issued, outcome' = [outcome EXCEPT ![t] = o]
  PROVE  Promise!Next
<1>1. store' = store \cup ({t} \X issued[t])
  BY Published
<1>2. Written' = Written \cup ({t} \X issued[t])
  BY <1>1 DEF Written
<1>3. outcome[t] = "none"
  BY DEF IInv, Shape
<1>4. Promise!Install(t)
  BY <1>2, <1>3 DEF Promise!Install, Promise!All, Written
<1>5. QED
  BY <1>4 DEF Promise!Next

\* Giving one up discards it.
LEMMA DiscardRefines ==
  ASSUME IInv, NEW t \in Tasks, NEW o \in {"err", "commit_err", "dropped"},
         outcome[t] = "none", outcome' = [outcome EXCEPT ![t] = o],
         issued' = issued, Written' = Written
  PROVE  Promise!Next
<1>1. Promise!Discard(t)
  BY DEF Promise!Discard, Written
<1>2. QED
  BY <1>1 DEF Promise!Next

\* A statement of a transaction is issued, and not yet visible.
LEMMA StatementRefines ==
  ASSUME IInv, NEW t \in Tasks, Statement(t)
  PROVE  Promise!Next
<1>1. step[t] + 1 \in Statements /\ step[t] \in Nat
  BY TransactionsAssumption DEF Statement, IInv, TypeOK, Statements
<1>2. <<t, step[t] + 1>> \notin store
  BY <1>1 DEF IInv, Counts
<1>3. Written' = Written
  BY <1>2 DEF Statement, Written, IInv, TypeOK
<1>4. Promise!Issue(t)
  BY <1>1, <1>3 DEF Statement, Promise!Issue, Promise!Statements, Statements, Written, IInv, Shape
<1>5. QED
  BY <1>4 DEF Promise!Next

\* A query on the pool is not part of what was promised.
LEMMA QueryStutters ==
  ASSUME IInv, NEW t \in Tasks, pc[t] = "querying",
         store' = store \cup {<<t, step[t]>>}, issued' = issued
  PROVE  Written' = Written
BY DEF IInv, Counts, Written

LEMMA DroppedRefines ==
  ASSUME IInv, NEW t \in Tasks, Dropped(t)
  PROVE  Promise!Next
<1>1. outcome[t] = "none" /\ outcome' = [outcome EXCEPT ![t] = "dropped"] /\ issued' = issued
  BY DEF Dropped, IInv, Shape, DropTx, Returns
<1>2. CASE store' = store
  BY <1>1, <1>2, DiscardRefines DEF Written
<1>3. CASE pc[t] = "querying" /\ store' = store \cup {<<t, step[t]>>}
  BY <1>1, <1>3, QueryStutters, DiscardRefines
<1>4. CASE pc[t] = "commit" /\ Publish(t)
  BY <1>1, <1>4, InstallRefines
<1>5. QED
  BY <1>2, <1>3, <1>4 DEF Dropped

LEMMA StepRefines ==
  ErrorsReturned /\ IInv /\ Committed /\ [Next]_vars => [Promise!Next]_(Promise!vars)
<1> SUFFICES ASSUME ErrorsReturned, IInv, Committed, [Next]_vars
             PROVE  Promise!Next \/ UNCHANGED Promise!vars
  OBVIOUS
<1> DEFINE Goal == Promise!Next \/ UNCHANGED Promise!vars
<1> USE DEF Goto, Returns, DropTx
<1>1. ASSUME UNCHANGED <<issued, store, outcome>> PROVE Goal
  BY <1>1 DEF Promise!vars
<1>2. ASSUME NEW t \in Tasks, Statement(t) PROVE Goal
  BY <1>2, StatementRefines
<1>3. ASSUME NEW t \in Tasks, Dropped(t) PROVE Goal
  BY <1>3, DroppedRefines
<1>4. ASSUME NEW t \in Tasks, QueryRuns(t) PROVE Goal
  <2>1. Written' = Written /\ UNCHANGED <<issued, outcome>>
    BY <1>4, QueryStutters DEF QueryRuns
  <2>2. QED
    BY <2>1 DEF Promise!vars, Written
<1>5. ASSUME NEW t \in Tasks, Commit(t) \/ CommitUnanswered(t) PROVE Goal
  <2>1. pc[t] = "commit" /\ Publish(t) /\ issued' = issued
    BY <1>5 DEF Commit, CommitUnanswered, Committed
  <2>2. PICK o \in {"ok", "commit_err", "dropped"} : outcome' = [outcome EXCEPT ![t] = o]
    BY <1>5 DEF Commit, CommitUnanswered
  <2>3. QED
    BY <2>1, <2>2, InstallRefines
<1>6. ASSUME NEW t \in Tasks, BeginFails(t) \/ ClosureErr(t) \/ CommitFails(t) PROVE Goal
  <2>1. outcome[t] = "none" /\ issued' = issued /\ Written' = Written
    BY <1>6 DEF BeginFails, ClosureErr, CommitFails, IInv, Shape, Written
  <2>2. PICK o \in {"err", "commit_err", "dropped"} : outcome' = [outcome EXCEPT ![t] = o]
    BY <1>6 DEF BeginFails, ClosureErr, CommitFails
  <2>3. QED
    BY <2>1, <2>2, DiscardRefines
<1>7. ASSUME NEW t \in Tasks, StatementFails(t) \/ QueryFails(t) PROVE Goal
  <2>1. outcome[t] = "none" /\ UNCHANGED <<issued, store>> /\ Written' = Written
    BY <1>7 DEF StatementFails, QueryFails, IInv, Shape, Written
  <2>2. CASE outcome' = outcome
    BY <1>1, <2>1, <2>2
  <2>3. CASE outcome' = [outcome EXCEPT ![t] = "err"]
    BY <2>1, <2>3, DiscardRefines
  <2>4. QED
    BY <1>7, <2>2, <2>3 DEF StatementFails, QueryFails
<1>8. ASSUME NEW t \in Tasks,
             Call(t) \/ Begin(t) \/ Query(t) \/ QueryAcquires(t) \/ ClosureOk(t)
      PROVE  Goal
  BY <1>1, <1>8 DEF Call, Begin, Query, QueryAcquires, ClosureOk
<1>9. ASSUME \/ \E c \in Conns : Rollback(c)
             \/ Disconnect \/ Disconnected \/ Finished \/ UNCHANGED vars
      PROVE  Goal
  BY <1>1, <1>9 DEF Rollback, Disconnect, Disconnected, Finished, vars
<1>10. QED
  BY <1>2, <1>3, <1>4, <1>5, <1>6, <1>7, <1>8, <1>9 DEF Next, TaskStep

\* run_transaction implements its promise wherever an error of a statement
\* ends the closure, or does not abort the transaction.
THEOREM TransactionsKeepTheirPromise ==
  ASSUME ErrorsReturned
  PROVE  Spec => ImplementsPromise
<1>1. Init => Promise!Init
  BY DEF Init, Promise!Init
<1>2. IInv /\ Committed /\ [Next]_vars => [Promise!Next]_(Promise!vars)
  BY StepRefines
<1>3. QED
  BY <1>1, <1>2, CommittedAlways, PTL DEF Spec, ImplementsPromise, Promise!Spec
=============================================================================
