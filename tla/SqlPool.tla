------------------------------- MODULE SqlPool -------------------------------
(***************************************************************************)
(* The connection pool of sql_db (services/sql_db.py), which the threads   *)
(* of a wave, of other asks and of the endpoints share: connections are    *)
(* taken and given back under the pool's lock and used outside it, and a   *)
(* statement whose connection breaks is sent again on another one.         *)
(***************************************************************************)
EXTENDS Sequences, FiniteSets, Naturals

CONSTANTS
    Clients,    \* the threads that use the pool
    Conns,      \* the connections that can exist at a time
    NoConn,
    MaxPool,    \* _max_pool
    Attempts    \* the tries of _run: 3

ASSUME PoolAssumption ==
    /\ NoConn \notin Conns
    /\ MaxPool \in Nat
    /\ Attempts \in Nat \ {0}

VARIABLES
    pool,       \* _pool, the connections nobody uses; the last is taken first
    open,       \* connections that are open
    stmt        \* the statement of every thread

poolVars == <<pool, open, stmt>>

Verdicts == {"none", "ok", "sql_error"}
Statements == [at : {"idle", "acquire", "create", "execute", "release", "dedicated"},
               conn : Conns \cup {NoConn}, tries : 0..Attempts,
               effects : Nat, breaks : Nat, verdict : Verdicts]
NoStatement == [at |-> "idle", conn |-> NoConn, tries |-> 0,
                effects |-> 0, breaks |-> 0, verdict |-> "none"]

Pooled == {pool[i] : i \in DOMAIN pool}
InUse == {stmt[t].conn : t \in Clients} \ {NoConn}

PoolTypeOK ==
    /\ pool \in Seq(Conns)
    /\ open \subseteq Conns
    /\ stmt \in [Clients -> Statements]

PoolInit ==
    /\ pool = <<>> /\ open = {}
    /\ stmt = [t \in Clients |-> NoStatement]

Move(t, h) == stmt' = [stmt EXCEPT ![t] = h]

\* Mutation: the attempts are not counted.
AgainForever(h) == [h EXCEPT !.at = "acquire", !.conn = NoConn]

\* The record of h after an attempt that ended without its connection.
Again(h) == IF h.tries + 1 = Attempts
              THEN NoStatement
              ELSE [h EXCEPT !.at = "acquire", !.conn = NoConn, !.tries = @ + 1]

Execute(t) ==
    /\ stmt[t].at = "idle"
    /\ Move(t, [NoStatement EXCEPT !.at = "acquire"])
    /\ UNCHANGED <<pool, open>>

\* _acquire: the last n connections are too old or were idle too long.
Acquire(t) ==
    /\ stmt[t].at = "acquire"
    /\ \E n \in 0..Len(pool) :
        LET kept == Len(pool) - n IN
        /\ open' = open \ {pool[i] : i \in kept + 1 .. Len(pool)}
        /\ IF kept > 0
             THEN /\ pool' = SubSeq(pool, 1, kept - 1)
                  /\ Move(t, [stmt[t] EXCEPT !.at = "execute", !.conn = pool[kept]])
             ELSE /\ pool' = <<>>
                  /\ Move(t, [stmt[t] EXCEPT !.at = "create"])

\* _create_connection: a driver error is one attempt less, another exception
\* (a token that cannot be had) is the caller's.
Create(t) ==
    /\ stmt[t].at = "create"
    /\ \/ /\ open # Conns
          /\ LET c == CHOOSE c \in Conns : c \notin open IN
             /\ open' = open \cup {c}
             /\ Move(t, [stmt[t] EXCEPT !.at = "execute", !.conn = c])
       \/ Move(t, Again(stmt[t])) /\ UNCHANGED open
       \/ Move(t, NoStatement) /\ UNCHANGED open
    /\ UNCHANGED pool

\* cursor.execute and the fetch: an answer, or an error of the statement.
Answer(t) ==
    /\ stmt[t].at = "execute"
    /\ \E v \in {"ok", "sql_error"} :
        Move(t, [stmt[t] EXCEPT !.at = "release", !.verdict = v,
                                !.effects = IF v = "ok" THEN @ + 1 ELSE @])
    /\ UNCHANGED <<pool, open>>

\* The connection breaks under the statement, which may have taken effect.
Break(t) ==
    /\ stmt[t].at = "execute"
    /\ \E done \in {0, 1} :
        Move(t, Again([stmt[t] EXCEPT !.effects = @ + done, !.breaks = @ + 1]))
    /\ open' = open \ {stmt[t].conn}
    /\ UNCHANGED pool

\* Any other exception goes to the caller; the connection, which nothing
\* refers to any more, is closed when it is collected.
Drop(t) ==
    /\ stmt[t].at = "execute"
    /\ Move(t, NoStatement)
    /\ open' = open \ {stmt[t].conn}
    /\ UNCHANGED pool

\* Mutation: a connection that finds the pool full stays open.
ReleaseFull(t) ==
    /\ stmt[t].at = "release"
    /\ pool' = IF Len(pool) < MaxPool THEN Append(pool, stmt[t].conn) ELSE pool
    /\ Move(t, NoStatement)
    /\ UNCHANGED open

\* Mutation: a statement that was answered is tried again.
ReleaseRetries(t) ==
    /\ stmt[t].at = "release"
    /\ IF Len(pool) < MaxPool THEN pool' = Append(pool, stmt[t].conn) /\ UNCHANGED open
                              ELSE UNCHANGED pool /\ open' = open \ {stmt[t].conn}
    /\ Move(t, Again([stmt[t] EXCEPT !.verdict = "none"]))

\* _release
Release(t) ==
    /\ stmt[t].at = "release"
    /\ IF Len(pool) < MaxPool THEN pool' = Append(pool, stmt[t].conn) /\ UNCHANGED open
                              ELSE UNCHANGED pool /\ open' = open \ {stmt[t].conn}
    /\ Move(t, NoStatement)

\* open_dedicated_connection, and the close that its caller owes.
OpenDedicated(t) ==
    /\ stmt[t].at = "idle" /\ open # Conns
    /\ LET c == CHOOSE c \in Conns : c \notin open IN
       /\ open' = open \cup {c}
       /\ Move(t, [NoStatement EXCEPT !.at = "dedicated", !.conn = c])
    /\ UNCHANGED pool

CloseDedicated(t) ==
    /\ stmt[t].at = "dedicated"
    /\ open' = open \ {stmt[t].conn}
    /\ Move(t, NoStatement)
    /\ UNCHANGED pool

\* close, which leaves the connections in use alone.
ClosePool ==
    /\ pool # <<>>
    /\ open' = open \ Pooled
    /\ pool' = <<>>
    /\ UNCHANGED stmt

StatementStep(t) ==
    Acquire(t) \/ Create(t) \/ Answer(t) \/ Break(t) \/ Drop(t) \/ Release(t) \/ CloseDedicated(t)

PoolNext == ClosePool \/ \E t \in Clients : Execute(t) \/ OpenDedicated(t) \/ StatementStep(t)

PoolSpec == PoolInit /\ [][PoolNext]_poolVars

-----------------------------------------------------------------------------
(* Properties                                                               *)

\* A connection is used by one thread at a time (pyodbc's are not thread-safe)
\* and none is lost: every open one is in the pool, once, or with one thread.
OneHolderEach ==
    /\ \A i, j \in DOMAIN pool : pool[i] = pool[j] => i = j
    /\ \A t, u \in Clients : stmt[t].conn = stmt[u].conn /\ stmt[t].conn # NoConn => t = u
    /\ Pooled \cap InUse = {}
    /\ open = Pooled \cup InUse
    /\ Len(pool) <= MaxPool

\* What a caller may rely on although broken connections are retried: a
\* statement that succeeded took effect, and one took effect more than once,
\* or took effect and was refused, only if a connection broke under it.
EffectsExplained ==
    \A t \in Clients :
        /\ stmt[t].verdict = "ok" => stmt[t].effects \in 1 .. stmt[t].breaks + 1
        /\ stmt[t].verdict = "sql_error" => stmt[t].effects <= stmt[t].breaks
=============================================================================
