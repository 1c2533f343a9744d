---------------------------- MODULE Transactions ----------------------------
(***************************************************************************)
(* ferriorm-runtime/src/transaction.rs and the pool behind                 *)
(* ferriorm-runtime/src/client.rs.                                         *)
(*                                                                         *)
(* Tasks of one process call run_transaction on the same DatabaseClient.   *)
(* Each takes a connection of the pool for the whole closure.  The closure *)
(* runs statements on its transaction, and may also run a query of the     *)
(* generated client: such a query only knows the DatabaseClient, so it     *)
(* takes a second connection of the same pool and commits by itself.       *)
(*                                                                         *)
(* The pool (sqlx) is external and modelled from its use: pool.begin()     *)
(* waits at most acquire_timeout for a connection; dropping a Transaction  *)
(* queues a ROLLBACK, and the connection is back in the pool only after    *)
(* it; pool.close() refuses new acquires and waits for the rest.           *)
(***************************************************************************)
EXTENDS Naturals, FiniteSets

CONSTANTS
    Tasks,          \* concurrent callers of run_transaction
    Conns,          \* the pool: one element per connection of max_connections
    NoConn,
    MaxStatements,  \* bound: statements one closure runs
    Postgres,       \* TRUE: DatabaseClient::Postgres, FALSE: Sqlite
    Swallows        \* TRUE: a closure may return Ok after a failed statement

ASSUME TransactionsAssumption ==
    /\ NoConn \notin Conns
    /\ MaxStatements \in Nat
    /\ Postgres \in BOOLEAN
    /\ Swallows \in BOOLEAN

VARIABLES
    pc,         \* where each task is
    conn,       \* the connection its TransactionClient holds
    aux,        \* the connection a generated query inside the closure holds
    step,       \* statements the closure has run so far
    issued,     \* those of them that succeeded on the transaction
    outcome,    \* what run_transaction returned
    idle,       \* connections in the pool
    buffer,     \* uncommitted writes of the transaction open on a connection
    poisoned,   \* PostgreSQL: connections whose transaction is aborted
    store,      \* committed writes, <<task, statement>>
    pool        \* "open", "closing" or "closed"

vars == <<pc, conn, aux, step, issued, outcome, idle, buffer, poisoned, store, pool>>

Statements == 1 .. MaxStatements

Init ==
    /\ pc = [t \in Tasks |-> "start"]
    /\ conn = [t \in Tasks |-> NoConn]
    /\ aux = [t \in Tasks |-> NoConn]
    /\ step = [t \in Tasks |-> 0]
    /\ issued = [t \in Tasks |-> {}]
    /\ outcome = [t \in Tasks |-> "none"]
    /\ idle = Conns
    /\ buffer = [c \in Conns |-> {}]
    /\ poisoned = {}
    /\ store = {}
    /\ pool = "open"

Goto(t, label) == pc' = [pc EXCEPT ![t] = label]
Returns(t, o) == Goto(t, "ended") /\ outcome' = [outcome EXCEPT ![t] = o]

-----------------------------------------------------------------------------
(* pool.begin().await?                                                     *)

Call(t) ==
    /\ pc[t] = "start"
    /\ Goto(t, "begin")
    /\ UNCHANGED <<conn, aux, step, issued, outcome, idle, buffer, poisoned, store, pool>>

\* A connection is free: BEGIN is sent on it and the closure starts.
Begin(t) ==
    /\ pc[t] = "begin"
    /\ pool = "open"
    /\ \E c \in idle :
         /\ conn' = [conn EXCEPT ![t] = c]
         /\ idle' = idle \ {c}
    /\ Goto(t, "closure")
    /\ UNCHANGED <<aux, step, issued, outcome, buffer, poisoned, store, pool>>

\* None came free within acquire_timeout, or the pool is closed: the `?`
\* returns before the closure was called.
BeginFails(t) ==
    /\ pc[t] = "begin"
    /\ idle = {} \/ pool # "open"
    /\ Returns(t, "err")
    /\ UNCHANGED <<conn, aux, step, issued, idle, buffer, poisoned, store, pool>>

-----------------------------------------------------------------------------
(* f(tx_client).await                                                      *)

\* A failed statement ends the closure with its `?`, unless it is swallowed.
\* The TransactionClient is then dropped: ROLLBACK is queued, the caller has
\* its error at once, and the connection is neither held nor idle.
DropTx(t, o) ==
    /\ Returns(t, o)
    /\ conn' = [conn EXCEPT ![t] = NoConn]

Statement(t) ==
    /\ pc[t] = "closure"
    /\ step[t] < MaxStatements
    /\ conn[t] \notin poisoned
    /\ step' = [step EXCEPT ![t] = @ + 1]
    /\ issued' = [issued EXCEPT ![t] = @ \cup {step[t] + 1}]
    /\ buffer' = [buffer EXCEPT ![conn[t]] = @ \cup {<<t, step[t] + 1>>}]
    /\ UNCHANGED <<pc, conn, aux, outcome, idle, poisoned, store, pool>>

\* PostgreSQL aborts the transaction: every later statement fails too.
\* SQLite only undoes the statement.
StatementFails(t) ==
    /\ pc[t] = "closure"
    /\ step[t] < MaxStatements
    /\ step' = [step EXCEPT ![t] = @ + 1]
    /\ poisoned' = IF Postgres THEN poisoned \cup {conn[t]} ELSE poisoned
    /\ \/ DropTx(t, "err")
       \/ Swallows /\ UNCHANGED <<pc, conn, outcome>>
    /\ UNCHANGED <<aux, issued, idle, buffer, store, pool>>

\* client.user().create(..): a query of the generated client in the closure.
Query(t) ==
    /\ pc[t] = "closure"
    /\ step[t] < MaxStatements
    /\ step' = [step EXCEPT ![t] = @ + 1]
    /\ Goto(t, "query")
    /\ UNCHANGED <<conn, aux, issued, outcome, idle, buffer, poisoned, store, pool>>

QueryAcquires(t) ==
    /\ pc[t] = "query"
    /\ pool = "open"
    /\ \E c \in idle :
         /\ aux' = [aux EXCEPT ![t] = c]
         /\ idle' = idle \ {c}
    /\ Goto(t, "querying")
    /\ UNCHANGED <<conn, step, issued, outcome, buffer, poisoned, store, pool>>

\* Mutant: the query joins the transaction of its task, and commits it.
QueryCommitsAll(t) ==
    /\ pc[t] = "querying"
    /\ store' = store \cup buffer[conn[t]] \cup {<<t, step[t]>>}
    /\ idle' = idle \cup {aux[t]}
    /\ aux' = [aux EXCEPT ![t] = NoConn]
    /\ Goto(t, "closure")
    /\ UNCHANGED <<conn, step, issued, outcome, buffer, poisoned, pool>>

\* fetch_one_pg(pool) and its siblings: one statement, committed by itself.
QueryRuns(t) ==
    /\ pc[t] = "querying"
    /\ store' = store \cup {<<t, step[t]>>}
    /\ idle' = idle \cup {aux[t]}
    /\ aux' = [aux EXCEPT ![t] = NoConn]
    /\ Goto(t, "closure")
    /\ UNCHANGED <<conn, step, issued, outcome, buffer, poisoned, pool>>

\* Mutant: a query waits for its connection without a timeout.
QueryWaits(t) ==
    /\ pc[t] = "query"
    /\ pool # "open"
    /\ \/ DropTx(t, "err")
       \/ Swallows /\ Goto(t, "closure") /\ UNCHANGED <<conn, outcome>>
    /\ UNCHANGED <<aux, step, issued, idle, buffer, poisoned, store, pool>>

\* Mutant: a query that got no connection gives one back.
QueryReturnsNothing(t) ==
    /\ pc[t] = "query"
    /\ idle = {} \/ pool # "open"
    /\ DropTx(t, "err")
    /\ idle' = idle \cup {aux[t]}
    /\ UNCHANGED <<aux, step, issued, buffer, poisoned, store, pool>>

\* Every task of the pool may be waiting like this one: only acquire_timeout
\* gets them out.
QueryFails(t) ==
    /\ pc[t] = "query"
    /\ idle = {} \/ pool # "open"
    /\ \/ DropTx(t, "err")
       \/ Swallows /\ Goto(t, "closure") /\ UNCHANGED <<conn, outcome>>
    /\ UNCHANGED <<aux, step, issued, idle, buffer, poisoned, store, pool>>

\* Mutant: the transaction is committed whatever the closure returned.
CommitOnErr(t) ==
    /\ pc[t] = "closure"
    /\ DropTx(t, "err")
    /\ store' = store \cup buffer[conn[t]]
    /\ UNCHANGED <<aux, step, issued, idle, buffer, poisoned, pool>>

ClosureErr(t) ==
    /\ pc[t] = "closure"
    /\ DropTx(t, "err")
    /\ UNCHANGED <<aux, step, issued, idle, buffer, poisoned, store, pool>>

ClosureOk(t) ==
    /\ pc[t] = "closure"
    /\ Goto(t, "commit")
    /\ UNCHANGED <<conn, aux, step, issued, outcome, idle, buffer, poisoned, store, pool>>
-----------------------------------------------------------------------------
(* tx_client.commit().await?                                               *)

Publish(t) == store' = store \cup buffer[conn[t]]

\* The connection of t comes back clean: the transaction on it is over.
Release(t) ==
    /\ idle' = idle \cup {conn[t]}
    /\ buffer' = [buffer EXCEPT ![conn[t]] = {}]
    /\ poisoned' = poisoned \ {conn[t]}
    /\ conn' = [conn EXCEPT ![t] = NoConn]

\* PostgreSQL answers COMMIT in an aborted transaction with ROLLBACK, which is
\* not an error, and the answer is not looked at.
Commit(t) ==
    /\ pc[t] = "commit"
    /\ IF conn[t] \in poisoned THEN UNCHANGED store ELSE Publish(t)
    /\ Release(t)
    /\ Returns(t, "ok")
    /\ UNCHANGED <<aux, step, issued, pool>>

\* Mutant: the transaction of a refused COMMIT is never given up.
KeepRefused(t) ==
    /\ pc[t] = "commit"
    /\ Returns(t, "commit_err")
    /\ UNCHANGED <<conn, aux, step, issued, idle, buffer, poisoned, store, pool>>

\* COMMIT is refused: the Transaction is dropped with the error.
CommitFails(t) ==
    /\ pc[t] = "commit"
    /\ DropTx(t, "commit_err")
    /\ UNCHANGED <<aux, step, issued, idle, buffer, poisoned, store, pool>>

\* COMMIT took effect but the connection broke before the answer: the error
\* is the same, and the pool opens another connection.
CommitUnanswered(t) ==
    /\ pc[t] = "commit"
    /\ conn[t] \notin poisoned
    /\ Publish(t)
    /\ Release(t)
    /\ Returns(t, "commit_err")
    /\ UNCHANGED <<aux, step, issued, pool>>

-----------------------------------------------------------------------------
(* The future of run_transaction is dropped at an await (a timeout or a    *)
(* select! around it, a panic in the closure).                             *)

\* A query or a COMMIT under way may still take effect.
Dropped(t) ==
    /\ pc[t] \in {"begin", "closure", "query", "querying", "commit"}
    /\ \/ UNCHANGED <<store, buffer>>
       \/ /\ pc[t] = "querying"
          /\ store' = store \cup {<<t, step[t]>>}
          /\ UNCHANGED buffer
       \/ /\ pc[t] = "commit" /\ conn[t] \notin poisoned
          /\ Publish(t)
          /\ buffer' = [buffer EXCEPT ![conn[t]] = {}]
    /\ idle' = idle \cup ({aux[t]} \ {NoConn})
    /\ aux' = [aux EXCEPT ![t] = NoConn]
    /\ DropTx(t, "dropped")
    /\ UNCHANGED <<step, issued, poisoned, pool>>

-----------------------------------------------------------------------------
(* The pool                                                                *)

Held == {conn[t] : t \in Tasks} \cup {aux[t] : t \in Tasks}

\* Mutant: the connection goes back without its ROLLBACK.
HandBack(c) ==
    /\ c \notin idle \cup Held
    /\ idle' = idle \cup {c}
    /\ UNCHANGED <<pc, conn, aux, step, issued, outcome, buffer, poisoned, store, pool>>

\* The queued ROLLBACK of a dropped Transaction runs, then the connection is
\* handed back.
Rollback(c) ==
    /\ c \notin idle \cup Held
    /\ buffer' = [buffer EXCEPT ![c] = {}]
    /\ poisoned' = poisoned \ {c}
    /\ idle' = idle \cup {c}
    /\ UNCHANGED <<pc, conn, aux, step, issued, outcome, store, pool>>

\* DatabaseClient::disconnect: pool.close().await.
Disconnect ==
    /\ pool = "open"
    /\ pool' = "closing"
    /\ UNCHANGED <<pc, conn, aux, step, issued, outcome, idle, buffer, poisoned, store>>

Disconnected ==
    /\ pool = "closing"
    /\ idle = Conns
    /\ pool' = "closed"
    /\ UNCHANGED <<pc, conn, aux, step, issued, outcome, idle, buffer, poisoned, store>>

\* The program need not disconnect.
Finished ==
    /\ \A t \in Tasks : pc[t] = "ended"
    /\ UNCHANGED vars

\* What the code of a task does when it is polled.
TaskStep(t) ==
    \/ Begin(t) \/ BeginFails(t)
    \/ Statement(t) \/ StatementFails(t)
    \/ Query(t) \/ QueryAcquires(t) \/ QueryRuns(t) \/ QueryFails(t)
    \/ ClosureErr(t) \/ ClosureOk(t)
    \/ Commit(t) \/ CommitFails(t) \/ CommitUnanswered(t)

Next ==
    \/ \E t \in Tasks : Call(t) \/ TaskStep(t) \/ Dropped(t)
    \/ \E c \in Conns : Rollback(c)
    \/ Disconnect \/ Disconnected \/ Finished

Spec == Init /\ [][Next]_vars

\* The runtime polls every task and every clean-up task of the pool, and the
\* timer of acquire_timeout fires.  Nobody has to call or to disconnect.
Fairness ==
    /\ \A t \in Tasks : WF_vars(TaskStep(t))
    /\ \A c \in Conns : WF_vars(Rollback(c))
    /\ WF_vars(Disconnected)

FairSpec == Spec /\ Fairness

-----------------------------------------------------------------------------
(* Properties                                                              *)

TypeOK ==
    /\ pc \in [Tasks -> {"start", "begin", "closure", "query", "querying",
                         "commit", "ended"}]
    /\ conn \in [Tasks -> Conns \cup {NoConn}]
    /\ aux \in [Tasks -> Conns \cup {NoConn}]
    /\ step \in [Tasks -> 0 .. MaxStatements]
    /\ issued \in [Tasks -> SUBSET Statements]
    /\ outcome \in [Tasks -> {"none", "ok", "err", "commit_err", "dropped"}]
    /\ idle \subseteq Conns
    /\ buffer \in [Conns -> SUBSET (Tasks \X Statements)]
    /\ poisoned \subseteq Conns
    /\ store \subseteq Tasks \X Statements
    /\ pool \in {"open", "closing", "closed"}

\* The statements of t's transaction that everybody sees.
Visible(t) == {n \in issued[t] : <<t, n>> \in store}

\* What was written on a transaction is visible as a whole or not at all,
\* whatever happened to the task (a closure that failed, a COMMIT that failed
\* or was not answered, a dropped future), and nothing of it while the closure
\* runs, also when the closure commits other statements on the pool.
AllOrNothing ==
    \A t \in Tasks :
        /\ Visible(t) \in {{}, issued[t]}
        /\ pc[t] # "ended" => Visible(t) = {}

\* "automatically committed on success": a caller told Ok finds what its
\* transaction wrote.
OkMeansCommitted == \A t \in Tasks : outcome[t] = "ok" => Visible(t) = issued[t]

\* "or rolled back on error": when the closure returned Err, nothing of the
\* transaction is visible, then or later.
ErrMeansRolledBack == \A t \in Tasks : outcome[t] = "err" => Visible(t) = {}

\* A connection is handed out with no transaction left open on it: what is
\* uncommitted on the connection of a task is its own, and nothing is
\* uncommitted on a connection of the pool or of a single query.
CleanConnections ==
    /\ \A t \in Tasks : conn[t] # NoConn => buffer[conn[t]] = {t} \X issued[t]
    /\ \A c \in idle \cup {aux[t] : t \in Tasks} :
           c # NoConn => buffer[c] = {} /\ c \notin poisoned

\* run_transaction returns, also when every connection is held by a task that
\* waits for a second one.
EveryCallReturns == \A t \in Tasks : pc[t] = "begin" ~> pc[t] = "ended"

\* disconnect() returns: no path leaves a connection outside the pool.
DisconnectReturns == pool = "closing" ~> pool = "closed"

\* The refinement: of what is committed, the part that was written on the
\* transactions, and what the callers were told.
Promise == INSTANCE AtomicTransactions WITH
    Tasks <- Tasks,
    MaxStatements <- MaxStatements,
    issued <- issued,
    store <- {w \in store : w[2] \in issued[w[1]]},
    outcome <- outcome

\* run_transaction implements its promise.
ImplementsPromise == Promise!Spec
=============================================================================
