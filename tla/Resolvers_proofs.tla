--------------------------- MODULE Resolvers_proofs ---------------------------
(***************************************************************************)
(* Proofs about the pool, the tokens and the calls that the threads of     *)
(* Resolvers share, for any number of threads, connections, tokens and     *)
(* callbacks and for all sizes, times and delays.                          *)
(***************************************************************************)
EXTENDS Resolvers, SequenceTheorems, TLAPS

-----------------------------------------------------------------------------
(* The pool                                                                 *)

Holding == {"execute", "release", "dedicated"}

StatementSound(t) ==
    /\ stmt[t].conn # NoConn <=> stmt[t].at \in Holding
    /\ stmt[t].verdict # "none" => stmt[t].at = "release"
    /\ stmt[t].verdict = "ok" => stmt[t].effects \in 1 .. stmt[t].breaks + 1
    /\ stmt[t].verdict # "ok" => stmt[t].effects <= stmt[t].breaks
    /\ stmt[t].tries < Attempts

PoolInv == PoolTypeOK /\ OneHolderEach /\ \A t \in Clients : StatementSound(t)

\* A thread moves to the record h, which no other thread and no place of the
\* pool shares the connection of, and what is open is what is held.
LEMMA MoveStep ==
    ASSUME PoolInv, NEW t \in Clients, NEW h \in Statements, Move(t, h),
           pool' \in Seq(Conns), open' \subseteq Conns, Len(pool') <= MaxPool,
           \A i, j \in DOMAIN pool' : pool'[i] = pool'[j] => i = j,
           h.conn # NoConn => /\ \A u \in Clients \ {t} : stmt[u].conn # h.conn
                              /\ \A i \in DOMAIN pool' : pool'[i] # h.conn,
           \A u \in Clients \ {t} : \A i \in DOMAIN pool' : pool'[i] # stmt[u].conn,
           open' = {pool'[i] : i \in DOMAIN pool'}
                     \cup (({h.conn} \cup {stmt[u].conn : u \in Clients \ {t}}) \ {NoConn}),
           h.conn # NoConn <=> h.at \in Holding,
           h.verdict # "none" => h.at = "release",
           h.verdict = "ok" => h.effects \in 1 .. h.breaks + 1,
           h.verdict # "ok" => h.effects <= h.breaks,
           h.tries < Attempts
    PROVE  PoolInv'
<1>1. \A u \in Clients : stmt'[u] = IF u = t THEN h ELSE stmt[u]
  BY DEF Move, PoolInv, PoolTypeOK
<1>2. PoolTypeOK'
  BY DEF Move, PoolInv, PoolTypeOK
<1>3. \A u \in Clients : StatementSound(u)'
  BY <1>1 DEF StatementSound, PoolInv
<1>4. OneHolderEach'
  <2>1. InUse' = ({h.conn} \cup {stmt[u].conn : u \in Clients \ {t}}) \ {NoConn}
    BY <1>1 DEF InUse
  <2>2. \A i \in DOMAIN pool' : pool'[i] \in Conns
    OBVIOUS
  <2>3. Pooled' \cap InUse' = {}
    BY <2>1, <2>2 DEF Pooled
  <2>4. open' = Pooled' \cup InUse'
    BY <2>1 DEF Pooled
  <2>5. ASSUME NEW u \in Clients, NEW v \in Clients, stmt'[u].conn = stmt'[v].conn, stmt'[u].conn # NoConn
        PROVE  u = v
    BY <1>1, <2>5 DEF PoolInv, OneHolderEach
  <2> QED BY <2>3, <2>4, <2>5 DEF OneHolderEach
<1> QED BY <1>2, <1>3, <1>4 DEF PoolInv

\* What is open, around one thread.
LEMMA Around ==
    ASSUME PoolInv, NEW t \in Clients
    PROVE  /\ open = Pooled \cup (({stmt[t].conn} \cup {stmt[u].conn : u \in Clients \ {t}}) \ {NoConn})
           /\ \A u \in Clients : \A i \in DOMAIN pool : pool[i] # stmt[u].conn
           /\ stmt[t].conn # NoConn => \A u \in Clients \ {t} : stmt[u].conn # stmt[t].conn
           /\ \A u \in Clients : stmt[u] \in Statements
<1>1. \A i \in DOMAIN pool : pool[i] \in Conns /\ pool[i] # NoConn
  BY PoolAssumption DEF PoolInv, PoolTypeOK
<1> QED BY <1>1 DEF PoolInv, OneHolderEach, PoolTypeOK, Pooled, InUse

\* A thread gives up its connection, which is closed, and starts over or ends.
LEMMA GiveUpStep ==
    ASSUME PoolInv, NEW t \in Clients, NEW h \in Statements, Move(t, h), h.conn = NoConn, UNCHANGED pool,
           open' = open \ {stmt[t].conn}, h.at \notin Holding, h.verdict = "none", h.effects <= h.breaks,
           h.tries < Attempts
    PROVE  PoolInv'
<1>1. open' = Pooled \cup ({stmt[u].conn : u \in Clients \ {t}} \ {NoConn})
  BY Around DEF Pooled
<1> QED BY <1>1, Around, MoveStep DEF Pooled, PoolInv, OneHolderEach, PoolTypeOK
LEMMA NoStatementTyped ==
    /\ NoStatement \in Statements /\ NoStatement.at = "idle" /\ NoStatement.conn = NoConn
    /\ NoStatement.verdict = "none" /\ NoStatement.effects = 0 /\ NoStatement.breaks = 0
    /\ NoStatement.tries = 0 /\ 0 < Attempts
  BY PoolAssumption DEF NoStatement, Statements, Verdicts

\* A failed attempt leaves a record without a connection.
LEMMA AgainTyped ==
    ASSUME NEW h \in Statements, h.tries < Attempts, h.verdict = "none", h.effects <= h.breaks
    PROVE  /\ Again(h) \in Statements /\ Again(h).conn = NoConn /\ Again(h).at \in {"idle", "acquire"}
           /\ Again(h).verdict = "none" /\ Again(h).effects <= Again(h).breaks
           /\ Again(h).tries < Attempts
<1>1. CASE h.tries + 1 = Attempts
  BY <1>1, NoStatementTyped DEF Again
<1>2. CASE h.tries + 1 # Attempts
  <2>1. Again(h) = [at |-> "acquire", conn |-> NoConn, tries |-> h.tries + 1,
                    effects |-> h.effects, breaks |-> h.breaks, verdict |-> h.verdict]
    BY <1>2 DEF Again, Statements
  <2>2. h.tries + 1 \in 0..Attempts /\ h.tries + 1 < Attempts
    BY <1>2, PoolAssumption DEF Statements
  <2> QED BY <2>1, <2>2 DEF Statements
<1> QED BY <1>1, <1>2

LEMMA ExecuteStep == ASSUME PoolInv, NEW t \in Clients, Execute(t) PROVE PoolInv'
<1> DEFINE h == [NoStatement EXCEPT !.at = "acquire"]
<1>1. h \in Statements /\ h.conn = NoConn /\ h.at = "acquire" /\ h.verdict = "none"
      /\ h.effects <= h.breaks /\ h.tries < Attempts
  BY NoStatementTyped DEF NoStatement, Statements
<1>2. stmt[t].conn = NoConn /\ open = open \ {NoConn}
  BY PoolAssumption DEF Execute, PoolInv, StatementSound, Holding, PoolTypeOK
<1> HIDE DEF h
<1>3. Move(t, h) /\ UNCHANGED <<pool, open>>
  BY DEF Execute, h
<1> QED BY <1>1, <1>2, <1>3, GiveUpStep DEF Holding

LEMMA AcquireStep == ASSUME PoolInv, NEW t \in Clients, Acquire(t) PROVE PoolInv'
<1>1. PICK n \in 0..Len(pool) :
        /\ open' = open \ {pool[i] : i \in (Len(pool) - n) + 1 .. Len(pool)}
        /\ IF Len(pool) - n > 0
             THEN /\ pool' = SubSeq(pool, 1, (Len(pool) - n) - 1)
                  /\ Move(t, [stmt[t] EXCEPT !.at = "execute", !.conn = pool[Len(pool) - n]])
             ELSE /\ pool' = <<>>
                  /\ Move(t, [stmt[t] EXCEPT !.at = "create"])
  BY DEF Acquire
<1>2. /\ stmt[t] \in Statements /\ stmt[t].at = "acquire" /\ stmt[t].conn = NoConn
      /\ stmt[t].verdict = "none" /\ stmt[t].effects <= stmt[t].breaks /\ stmt[t].tries < Attempts
  BY Around DEF Acquire, PoolInv, StatementSound, Holding
<1>3. /\ pool \in Seq(Conns) /\ Len(pool) \in Nat /\ DOMAIN pool = 1..Len(pool) /\ Len(pool) <= MaxPool
      /\ \A i \in 1..Len(pool) : pool[i] \in Conns
      /\ \A i, j \in 1..Len(pool) : pool[i] = pool[j] => i = j
      /\ MaxPool \in Nat
  BY PoolAssumption DEF PoolInv, PoolTypeOK, OneHolderEach
<1>4. open = {pool[i] : i \in 1..Len(pool)} \cup ({stmt[u].conn : u \in Clients \ {t}} \ {NoConn})
  BY <1>2, <1>3, Around DEF Pooled
<1>5. CASE Len(pool) - n > 0
  <2> DEFINE k == Len(pool) - n
             h == [stmt[t] EXCEPT !.at = "execute", !.conn = pool[k]]
  <2>1. k \in 1..Len(pool)
    BY <1>3, <1>5
  <2>2. h \in Statements /\ h.conn = pool[k] /\ h.at = "execute" /\ h.verdict = "none"
        /\ h.effects <= h.breaks /\ h.tries < Attempts
    BY <1>2, <1>3, <2>1 DEF Statements
  <2>3. /\ pool' \in Seq(Conns) /\ DOMAIN pool' = 1 .. k - 1 /\ Len(pool') = k - 1
        /\ \A i \in 1 .. k - 1 : pool'[i] = pool[i]
    <3>1. pool' = SubSeq(pool, 1, k - 1)
      BY <1>1, <1>5
    <3> HIDE DEF k
    <3>2. k \in Nat /\ 1 <= k /\ k <= Len(pool)
      BY <1>3, <2>1
    <3>3. DOMAIN pool' = 1 .. k - 1
      BY <1>3, <3>1, <3>2
    <3>4. Len(pool') = k - 1
      BY <1>3, <3>1, <3>2
    <3>5. \A i \in 1 .. k - 1 : pool'[i] = pool[i]
      BY <1>3, <3>1, <3>2
    <3>6. pool' \in Seq(Conns)
      BY <1>3, <3>1, <3>2, SubSeqProperties
    <3> QED BY <3>3, <3>4, <3>5, <3>6
  <2>4. Move(t, h) /\ open' = open \ {pool[i] : i \in k + 1 .. Len(pool)}
    BY <1>1, <1>5
  <2> HIDE DEF h, k
  <2>5. \A u \in Clients : \A i \in 1..Len(pool) : pool[i] # stmt[u].conn
    BY <1>3, Around
  <2>6. open' = {pool'[i] : i \in DOMAIN pool'}
                  \cup (({h.conn} \cup {stmt[u].conn : u \in Clients \ {t}}) \ {NoConn})
    <3>1. pool[k] # NoConn
      BY <1>3, <2>1, PoolAssumption
    <3>2. \A c : c \in open' <=> \/ \E i \in 1..k : c = pool[i]
                                 \/ c \in {stmt[u].conn : u \in Clients \ {t}} \ {NoConn}
      BY <1>3, <1>4, <2>1, <2>4, <2>5
    <3>3. \A c : (\E i \in 1..k : c = pool[i]) <=> c = pool[k] \/ \E i \in 1 .. k - 1 : c = pool[i]
      BY <2>1, <1>3
    <3>4. \A c : (\E i \in DOMAIN pool' : c = pool'[i]) <=> \E i \in 1 .. k - 1 : c = pool[i]
      BY <2>3
    <3>5. \A c : c \in open' <=> \/ \E i \in DOMAIN pool' : c = pool'[i]
                                 \/ c = pool[k]
                                 \/ c \in {stmt[u].conn : u \in Clients \ {t}} \ {NoConn}
      <4> SUFFICES ASSUME NEW c PROVE c \in open' <=> \/ \E i \in DOMAIN pool' : c = pool'[i]
                                                     \/ c = pool[k]
                                                     \/ c \in {stmt[u].conn : u \in Clients \ {t}} \ {NoConn}
        OBVIOUS
      <4>1. c \in open' <=> \/ \E i \in 1..k : c = pool[i]
                            \/ c \in {stmt[u].conn : u \in Clients \ {t}} \ {NoConn}
        BY <3>2
      <4>2. (\E i \in 1..k : c = pool[i]) <=> c = pool[k] \/ \E i \in 1 .. k - 1 : c = pool[i]
        BY <3>3
      <4>3. (\E i \in DOMAIN pool' : c = pool'[i]) <=> \E i \in 1 .. k - 1 : c = pool[i]
        BY <3>4
      <4> QED BY <4>1, <4>2, <4>3
    <3> QED BY <2>2, <3>1, <3>5
  <2>7. \A i, j \in DOMAIN pool' : pool'[i] = pool'[j] => i = j
    BY <1>3, <2>1, <2>3
  <2>8. /\ \A u \in Clients \ {t} : stmt[u].conn # h.conn
        /\ \A i \in DOMAIN pool' : pool'[i] # h.conn
        /\ \A u \in Clients \ {t} : \A i \in DOMAIN pool' : pool'[i] # stmt[u].conn
    BY <1>3, <2>1, <2>2, <2>3, <2>5
  <2>9. Len(pool') <= MaxPool /\ open' \subseteq Conns /\ h.conn # NoConn /\ h.at \in Holding
    BY <1>3, <2>1, <2>2, <2>3, <2>4, PoolAssumption DEF PoolInv, PoolTypeOK, Holding
  <2> QED BY <2>2, <2>3, <2>4, <2>6, <2>7, <2>8, <2>9, MoveStep
<1>6. CASE ~(Len(pool) - n > 0)
  <2> DEFINE h == [stmt[t] EXCEPT !.at = "create"]
  <2>1. h \in Statements /\ h.conn = NoConn /\ h.at = "create" /\ h.verdict = "none"
        /\ h.effects <= h.breaks /\ h.tries < Attempts
    BY <1>2 DEF Statements
  <2>2. Move(t, h) /\ pool' = <<>> /\ open' = open \ {pool[i] : i \in 1..Len(pool)}
    BY <1>1, <1>3, <1>6
  <2> HIDE DEF h
  <2>3. \A u \in Clients : \A i \in 1..Len(pool) : pool[i] # stmt[u].conn
    BY <1>3, Around
  <2>4. open' = {stmt[u].conn : u \in Clients \ {t}} \ {NoConn}
    BY <1>4, <2>2, <2>3
  <2>5. DOMAIN pool' = {} /\ pool' \in Seq(Conns) /\ Len(pool') = 0
    BY <2>2
  <2>6. open' \subseteq Conns
    BY <2>2 DEF PoolInv, PoolTypeOK
  <2>7. open' = {pool'[i] : i \in DOMAIN pool'}
                  \cup (({h.conn} \cup {stmt[u].conn : u \in Clients \ {t}}) \ {NoConn})
    BY <2>1, <2>4, <2>5
  <2> QED BY <1>3, <2>1, <2>2, <2>5, <2>6, <2>7, MoveStep DEF Holding
<1> QED BY <1>5, <1>6

\* A connection is made for a thread that has none.
LEMMA OpenStep ==
    ASSUME PoolInv, NEW t \in Clients, NEW c \in Conns \ open, NEW h \in Statements, Move(t, h), h.conn = c,
           stmt[t].conn = NoConn, UNCHANGED pool, open' = open \cup {c}, h.at \in Holding,
           h.verdict = "none", h.effects <= h.breaks, h.tries < Attempts
    PROVE  PoolInv'
<1>1. c # NoConn /\ open' \subseteq Conns
  BY PoolAssumption DEF PoolInv, PoolTypeOK
<1>2. \A u \in Clients \ {t} : stmt[u].conn # c
  BY <1>1, Around
<1>3. \A i \in DOMAIN pool : pool[i] # c
  BY Around DEF Pooled
<1>4. open' = {pool'[i] : i \in DOMAIN pool'}
                \cup (({h.conn} \cup {stmt[u].conn : u \in Clients \ {t}}) \ {NoConn})
  BY <1>1, Around DEF Pooled
<1> QED BY <1>1, <1>2, <1>3, <1>4, Around, MoveStep DEF PoolInv, OneHolderEach, PoolTypeOK

LEMMA CreateStep == ASSUME PoolInv, NEW t \in Clients, Create(t) PROVE PoolInv'
<1>1. /\ stmt[t] \in Statements /\ stmt[t].conn = NoConn /\ stmt[t].at = "create"
      /\ stmt[t].verdict = "none" /\ stmt[t].effects <= stmt[t].breaks /\ stmt[t].tries < Attempts
      /\ open \ {NoConn} = open /\ pool' = pool
  BY Around, PoolAssumption DEF Create, PoolInv, StatementSound, Holding, PoolTypeOK
<1>2. CASE /\ open # Conns
           /\ LET c == CHOOSE c \in Conns : c \notin open IN
              /\ open' = open \cup {c}
              /\ Move(t, [stmt[t] EXCEPT !.at = "execute", !.conn = c])
  <2>1. PICK c \in Conns \ open : /\ open' = open \cup {c}
                                  /\ Move(t, [stmt[t] EXCEPT !.at = "execute", !.conn = c])
    BY <1>2 DEF PoolInv, PoolTypeOK
  <2> DEFINE h == [stmt[t] EXCEPT !.at = "execute", !.conn = c]
  <2>2. h \in Statements /\ h.conn = c /\ h.at = "execute" /\ h.verdict = "none"
        /\ h.effects <= h.breaks /\ h.tries < Attempts
    BY <1>1 DEF Statements
  <2> QED BY <1>1, <2>1, <2>2, OpenStep DEF Holding
<1>3. CASE Move(t, Again(stmt[t])) /\ UNCHANGED open
  BY <1>1, <1>3, AgainTyped, GiveUpStep DEF Holding
<1>4. CASE Move(t, NoStatement) /\ UNCHANGED open
  BY <1>1, <1>4, NoStatementTyped, GiveUpStep DEF Holding
<1> QED BY <1>2, <1>3, <1>4 DEF Create

LEMMA AnswerStep == ASSUME PoolInv, NEW t \in Clients, Answer(t) PROVE PoolInv'
<1>1. PICK v \in {"ok", "sql_error"} :
        Move(t, [stmt[t] EXCEPT !.at = "release", !.verdict = v,
                                !.effects = IF v = "ok" THEN @ + 1 ELSE @])
  BY DEF Answer
<1> DEFINE h == [stmt[t] EXCEPT !.at = "release", !.verdict = v,
                                !.effects = IF v = "ok" THEN @ + 1 ELSE @]
<1>2. /\ stmt[t] \in Statements /\ stmt[t].conn # NoConn /\ stmt[t].effects <= stmt[t].breaks
      /\ stmt[t].tries < Attempts /\ UNCHANGED <<pool, open>>
  BY Around DEF Answer, PoolInv, StatementSound, Holding
<1>3. /\ h \in Statements /\ h.conn = stmt[t].conn /\ h.at = "release" /\ h.tries < Attempts
      /\ h.verdict = "ok" => h.effects \in 1 .. h.breaks + 1
      /\ h.verdict # "ok" => h.effects <= h.breaks
  <2>2. stmt[t].effects \in Nat /\ stmt[t].breaks \in Nat
    BY <1>2 DEF Statements
  <2> DEFINE g == [stmt[t] EXCEPT !.at = "release", !.verdict = v]
             e == IF v = "ok" THEN stmt[t].effects + 1 ELSE stmt[t].effects
  <2>1. g \in Statements
    BY <1>2 DEF Statements, Verdicts
  <2>3. h = [g EXCEPT !.effects = e] /\ e \in Nat
    BY <1>2, <2>2 DEF Statements
  <2>4. g.conn = stmt[t].conn /\ g.at = "release" /\ g.tries = stmt[t].tries /\ g.verdict = v
        /\ g.breaks = stmt[t].breaks
    BY <1>2 DEF Statements
  <2> HIDE DEF g, h
  <2>5. h \in Statements /\ h.effects = e /\ h.conn = g.conn /\ h.at = g.at /\ h.tries = g.tries
        /\ h.verdict = g.verdict /\ h.breaks = g.breaks
    BY <2>1, <2>3 DEF Statements
  <2> QED BY <1>2, <2>2, <2>4, <2>5
<1> HIDE DEF h
<1>4. Move(t, h)
  BY <1>1 DEF h
<1>5. open' = {pool'[i] : i \in DOMAIN pool'}
                \cup (({h.conn} \cup {stmt[u].conn : u \in Clients \ {t}}) \ {NoConn})
  BY <1>2, <1>3, Around DEF Pooled
<1> QED BY <1>2, <1>3, <1>4, <1>5, Around, MoveStep DEF Holding, PoolInv, OneHolderEach, PoolTypeOK

LEMMA LostStep == ASSUME PoolInv, NEW t \in Clients, Break(t) \/ Drop(t) \/ CloseDedicated(t) PROVE PoolInv'
<1>1. /\ stmt[t] \in Statements /\ stmt[t].tries < Attempts /\ pool' = pool
      /\ open' = open \ {stmt[t].conn}
  BY Around DEF Break, Drop, CloseDedicated, PoolInv, StatementSound
<1>2. CASE Break(t)
  <2>1. PICK done \in {0, 1} : Move(t, Again([stmt[t] EXCEPT !.effects = @ + done, !.breaks = @ + 1]))
    BY <1>2 DEF Break
  <2> DEFINE h == [stmt[t] EXCEPT !.effects = @ + done, !.breaks = @ + 1]
  <2>2. stmt[t].verdict = "none" /\ stmt[t].effects <= stmt[t].breaks
    BY <1>2 DEF Break, PoolInv, StatementSound
  <2>3. h \in Statements /\ h.tries < Attempts /\ h.verdict = "none" /\ h.effects <= h.breaks
    <3>2. stmt[t].effects \in Nat /\ stmt[t].breaks \in Nat
      BY <1>1 DEF Statements
    <3>1. /\ h.tries = stmt[t].tries /\ h.verdict = stmt[t].verdict
          /\ h.effects = stmt[t].effects + done /\ h.breaks = stmt[t].breaks + 1
      BY <1>1 DEF Statements
    <3>3. stmt[t].effects + done \in Nat /\ stmt[t].breaks + 1 \in Nat
      BY <3>2
    <3>4. h \in Statements
      <4> DEFINE g == [stmt[t] EXCEPT !.effects = stmt[t].effects + done]
      <4>1. g \in Statements
        BY <1>1, <3>3 DEF Statements
      <4>2. h = [g EXCEPT !.breaks = stmt[t].breaks + 1]
        BY <1>1 DEF Statements
      <4> HIDE DEF g, h
      <4> QED BY <3>3, <4>1, <4>2 DEF Statements
    <3> HIDE DEF h
    <3> QED BY <1>1, <2>2, <3>1, <3>2, <3>4
  <2> HIDE DEF h
  <2>4. Move(t, Again(h))
    BY <2>1 DEF h
  <2> QED BY <1>1, <2>3, <2>4, AgainTyped, GiveUpStep DEF Holding
<1>3. CASE Drop(t) \/ CloseDedicated(t)
  <2>1. Move(t, NoStatement)
    BY <1>3 DEF Drop, CloseDedicated
  <2> QED BY <1>1, <2>1, NoStatementTyped, GiveUpStep DEF Holding
<1> QED BY <1>2, <1>3

LEMMA ReleaseStep == ASSUME PoolInv, NEW t \in Clients, Release(t) PROVE PoolInv'
<1>1. Move(t, NoStatement) /\ stmt[t].conn \in Conns /\ stmt[t] \in Statements
  BY Around DEF Release, PoolInv, StatementSound, Holding, Statements
<1>2. CASE Len(pool) < MaxPool
  <2>1. pool' = Append(pool, stmt[t].conn) /\ open' = open
    BY <1>2 DEF Release
  <2>2. /\ pool \in Seq(Conns) /\ Len(pool) \in Nat /\ DOMAIN pool = 1..Len(pool)
        /\ \A i, j \in 1..Len(pool) : pool[i] = pool[j] => i = j
        /\ \A u \in Clients : \A i \in 1..Len(pool) : pool[i] # stmt[u].conn
    BY Around DEF PoolInv, PoolTypeOK, OneHolderEach
  <2>3. /\ pool' \in Seq(Conns) /\ Len(pool') = Len(pool) + 1 /\ DOMAIN pool' = 1 .. Len(pool) + 1
        /\ \A i \in 1..Len(pool) : pool'[i] = pool[i]
        /\ pool'[Len(pool) + 1] = stmt[t].conn
    BY <1>1, <2>1, <2>2
  <2>4. Len(pool') <= MaxPool
    BY <1>2, <2>2, <2>3, PoolAssumption
  <2>5. \A i, j \in DOMAIN pool' : pool'[i] = pool'[j] => i = j
    BY <2>2, <2>3
  <2>6. \A u \in Clients \ {t} : \A i \in DOMAIN pool' : pool'[i] # stmt[u].conn
    BY <1>1, <2>2, <2>3, Around, PoolAssumption
  <2>7. open' = {pool'[i] : i \in DOMAIN pool'}
                  \cup (({NoConn} \cup {stmt[u].conn : u \in Clients \ {t}}) \ {NoConn})
    <3>1. \A c : (\E i \in DOMAIN pool' : c = pool'[i]) <=>
                 c = stmt[t].conn \/ \E i \in DOMAIN pool : c = pool[i]
      BY <2>2, <2>3
    <3>2. stmt[t].conn # NoConn
      BY <1>1, PoolAssumption
    <3> QED BY <2>1, <3>1, <3>2, Around DEF Pooled
  <2>8. open' \subseteq Conns
    BY <2>1 DEF PoolInv, PoolTypeOK
  <2> QED BY <1>1, <2>3, <2>4, <2>5, <2>6, <2>7, <2>8, NoStatementTyped, MoveStep DEF Holding
<1>3. CASE ~(Len(pool) < MaxPool)
  BY <1>1, <1>3, NoStatementTyped, GiveUpStep DEF Release, Holding
<1> QED BY <1>2, <1>3

LEMMA OpenDedicatedStep == ASSUME PoolInv, NEW t \in Clients, OpenDedicated(t) PROVE PoolInv'
<1>1. PICK c \in Conns \ open : /\ open' = open \cup {c}
                                /\ Move(t, [NoStatement EXCEPT !.at = "dedicated", !.conn = c])
  BY DEF OpenDedicated, PoolInv, PoolTypeOK
<1> DEFINE h == [NoStatement EXCEPT !.at = "dedicated", !.conn = c]
<1>2. h \in Statements /\ h.conn = c /\ h.at = "dedicated" /\ h.verdict = "none"
      /\ h.effects <= h.breaks /\ h.tries < Attempts
  <2> DEFINE g == [NoStatement EXCEPT !.at = "dedicated"]
  <2>1. g \in Statements /\ g.at = "dedicated" /\ g.verdict = "none" /\ g.effects = 0
        /\ g.breaks = 0 /\ g.tries = 0
    BY NoStatementTyped DEF Statements
  <2>2. h = [g EXCEPT !.conn = c]
    BY DEF NoStatement
  <2> HIDE DEF g, h
  <2> QED BY <2>1, <2>2, NoStatementTyped DEF Statements
<1>3. stmt[t].conn = NoConn /\ pool' = pool
  BY Around DEF OpenDedicated, PoolInv, StatementSound, Holding
<1> QED BY <1>1, <1>2, <1>3, OpenStep DEF Holding

LEMMA ClosePoolStep == ASSUME PoolInv, ClosePool PROVE PoolInv'
<1>1. UNCHANGED stmt /\ pool' = <<>> /\ open' = open \ Pooled
  BY DEF ClosePool
<1>2. DOMAIN pool' = {} /\ pool' \in Seq(Conns) /\ Len(pool') = 0 /\ Pooled' = {} /\ InUse' = InUse
  BY <1>1 DEF Pooled, InUse
<1>3. open' = InUse
  BY <1>1 DEF PoolInv, OneHolderEach
<1> QED BY <1>1, <1>2, <1>3, PoolAssumption DEF PoolInv, PoolTypeOK, OneHolderEach, StatementSound
LEMMA PoolNextInv == ASSUME PoolInv, PoolNext \/ UNCHANGED poolVars PROVE PoolInv'
<1>1. CASE UNCHANGED poolVars
  <2>1. UNCHANGED <<pool, open, stmt>> /\ Pooled' = Pooled /\ InUse' = InUse
    BY <1>1 DEF poolVars, Pooled, InUse
  <2> QED BY <2>1 DEF PoolInv, PoolTypeOK, OneHolderEach, StatementSound
<1>2. CASE PoolNext
  BY <1>2, ExecuteStep, AcquireStep, CreateStep, AnswerStep, LostStep, ReleaseStep, OpenDedicatedStep,
     ClosePoolStep DEF PoolNext, StatementStep
<1> QED BY <1>1, <1>2

LEMMA PoolInitInv == PoolInit => PoolInv
<1> SUFFICES ASSUME PoolInit PROVE PoolInv
  OBVIOUS
<1>1. /\ pool = <<>> /\ open = {} /\ \A t \in Clients : stmt[t] = NoStatement
      /\ stmt = [t \in Clients |-> NoStatement]
  BY DEF PoolInit
<1>2. DOMAIN pool = {} /\ pool \in Seq(Conns) /\ Len(pool) = 0
  BY <1>1
<1>3. Pooled = {} /\ InUse = {}
  BY <1>1, <1>2, NoStatementTyped DEF Pooled, InUse
<1>4. PoolTypeOK
  BY <1>1, <1>2, NoStatementTyped DEF PoolTypeOK
<1>5. \A t \in Clients : StatementSound(t)
  BY <1>1, NoStatementTyped DEF StatementSound, Holding
<1>6. OneHolderEach
  <2>1. \A t \in Clients : stmt[t].conn = NoConn
    BY <1>1, NoStatementTyped
  <2>2. Len(pool) <= MaxPool
    BY <1>2, PoolAssumption
  <2> QED BY <1>1, <1>2, <1>3, <2>1, <2>2 DEF OneHolderEach
<1> QED BY <1>4, <1>5, <1>6 DEF PoolInv

-----------------------------------------------------------------------------
(* The tokens                                                               *)

TokenInv ==
    /\ TokenTypeOK
    /\ NoCallbackMissed
    /\ \A t \in Threads : canceller[t].at # "no" => canceller[t].token \in Tokens

\* The steps of one thread's cancel, and on_cancelled.
LEMMA TokenStep ==
    ASSUME TokenInv, TokenNext \/ UNCHANGED tokenVars
    PROVE  TokenInv' /\ raised \subseteq raised'
<1>1. CASE UNCHANGED tokenVars
  BY <1>1 DEF tokenVars, TokenInv, TokenTypeOK, NoCallbackMissed
<1>2. ASSUME NEW t \in Threads, NEW k \in Tokens, CancelBegin(t, k) PROVE TokenInv' /\ raised \subseteq raised'
  <2>1. \A u \in Threads : canceller'[u] = IF u = t THEN [at |-> "set", token |-> k, todo |-> {}] ELSE canceller[u]
    BY <1>2 DEF CancelBegin, TokenInv, TokenTypeOK
  <2>2. TokenTypeOK'
    BY <1>2 DEF CancelBegin, TokenInv, TokenTypeOK, Cancelling
  <2>3. canceller[t].at = "no" /\ canceller[t].token = NoToken
    BY <1>2 DEF CancelBegin, NotCancelling
  <2>4. NoCallbackMissed'
    BY <1>2, <2>1, <2>3, TokenAssumption DEF CancelBegin, NoCallbackMissed, TokenInv, TokenTypeOK
  <2> QED BY <1>2, <2>1, <2>2, <2>4 DEF CancelBegin, TokenInv
<1>3. ASSUME NEW t \in Threads, CancelSet(t) PROVE TokenInv' /\ raised \subseteq raised'
  <2>1. /\ canceller[t] \in Cancelling /\ canceller[t].at = "set"
        /\ raised' = raised \cup {canceller[t].token} /\ UNCHANGED <<callbacks, ran>>
    BY <1>3 DEF CancelSet, TokenInv, TokenTypeOK
  <2>2. /\ canceller'[t].at = "copy" /\ canceller'[t].token = canceller[t].token
        /\ canceller'[t].todo = canceller[t].todo
        /\ \A u \in Threads \ {t} : canceller'[u] = canceller[u]
    BY <1>3, <2>1 DEF CancelSet, TokenInv, TokenTypeOK, Cancelling
  <2>3. canceller' \in [Threads -> Cancelling]
    BY <1>3, <2>1 DEF CancelSet, TokenInv, TokenTypeOK, Cancelling
  <2>4. ASSUME NEW k \in raised', NEW c \in callbacks'[k] \ ran'
        PROVE  \E u \in Threads : canceller'[u].token = k /\ (canceller'[u].at = "copy" \/ c \in canceller'[u].todo)
    <3>1. CASE k = canceller[t].token
      BY <2>2, <3>1
    <3>2. CASE k # canceller[t].token
      <4>1. PICK u \in Threads : canceller[u].token = k /\ (canceller[u].at = "copy" \/ c \in canceller[u].todo)
        BY <2>1, <2>4, <3>2 DEF TokenInv, NoCallbackMissed
      <4> QED BY <2>2, <3>2, <4>1
    <3> QED BY <3>1, <3>2
  <2>5. raised' \subseteq Tokens
    BY <2>1 DEF TokenInv, TokenTypeOK
  <2> QED BY <2>1, <2>2, <2>3, <2>4, <2>5 DEF TokenInv, TokenTypeOK, NoCallbackMissed
<1>4. ASSUME NEW t \in Threads, CancelCopy(t) PROVE TokenInv' /\ raised \subseteq raised'
  <2>1. /\ canceller[t] \in Cancelling /\ canceller[t].at = "copy" /\ canceller[t].token \in Tokens
        /\ UNCHANGED <<raised, callbacks, ran>>
    BY <1>4 DEF CancelCopy, TokenInv, TokenTypeOK
  <2>2. /\ canceller'[t].at = "run" /\ canceller'[t].token = canceller[t].token
        /\ canceller'[t].todo = callbacks[canceller[t].token]
        /\ \A u \in Threads \ {t} : canceller'[u] = canceller[u]
    BY <1>4, <2>1 DEF CancelCopy, TokenInv, TokenTypeOK, Cancelling
  <2>3. canceller' \in [Threads -> Cancelling]
    BY <1>4, <2>1 DEF CancelCopy, TokenInv, TokenTypeOK, Cancelling
  <2>4. ASSUME NEW k \in raised', NEW c \in callbacks'[k] \ ran'
        PROVE  \E u \in Threads : canceller'[u].token = k /\ (canceller'[u].at = "copy" \/ c \in canceller'[u].todo)
    <3>1. PICK u \in Threads : canceller[u].token = k /\ (canceller[u].at = "copy" \/ c \in canceller[u].todo)
      BY <2>1, <2>4 DEF TokenInv, NoCallbackMissed
    <3> QED BY <2>1, <2>2, <2>4, <3>1
  <2> QED BY <2>1, <2>2, <2>3, <2>4 DEF TokenInv, TokenTypeOK, NoCallbackMissed
<1>5. ASSUME NEW t \in Threads, RunCallback(t) PROVE TokenInv' /\ raised \subseteq raised'
  <2>1. PICK c \in canceller[t].todo :
          /\ ran' = ran \cup {c} /\ UNCHANGED <<raised, callbacks>>
          /\ canceller' = [canceller EXCEPT ![t].todo = @ \ {c}]
    BY <1>5 DEF RunCallback
  <2>2. canceller[t] \in Cancelling /\ c \in Callbacks
    BY DEF TokenInv, TokenTypeOK, Cancelling
  <2>3. /\ canceller'[t].at = canceller[t].at /\ canceller'[t].token = canceller[t].token
        /\ canceller'[t].todo = canceller[t].todo \ {c}
        /\ \A u \in Threads \ {t} : canceller'[u] = canceller[u]
    BY <2>1, <2>2 DEF TokenInv, TokenTypeOK, Cancelling
  <2>4. canceller' \in [Threads -> Cancelling]
    BY <2>1, <2>2 DEF TokenInv, TokenTypeOK, Cancelling
  <2>5. ASSUME NEW k \in raised', NEW d \in callbacks'[k] \ ran'
        PROVE  \E u \in Threads : canceller'[u].token = k /\ (canceller'[u].at = "copy" \/ d \in canceller'[u].todo)
    <3>1. PICK u \in Threads : canceller[u].token = k /\ (canceller[u].at = "copy" \/ d \in canceller[u].todo)
      BY <2>1, <2>5 DEF TokenInv, NoCallbackMissed
    <3> QED BY <2>1, <2>3, <2>5, <3>1
  <2> QED BY <2>1, <2>2, <2>3, <2>4, <2>5 DEF TokenInv, TokenTypeOK, NoCallbackMissed
<1>6. ASSUME NEW t \in Threads, CancelEnd(t) PROVE TokenInv' /\ raised \subseteq raised'
  <2>1. /\ canceller[t].at = "run" /\ canceller[t].todo = {} /\ UNCHANGED <<raised, callbacks, ran>>
        /\ canceller' = [canceller EXCEPT ![t] = NotCancelling]
    BY <1>6 DEF CancelEnd
  <2>2. \A u \in Threads : canceller'[u] = IF u = t THEN NotCancelling ELSE canceller[u]
    BY <2>1 DEF TokenInv, TokenTypeOK
  <2>3. NotCancelling \in Cancelling /\ NotCancelling.at = "no"
    BY DEF NotCancelling, Cancelling
  <2>4. ASSUME NEW k \in raised', NEW c \in callbacks'[k] \ ran'
        PROVE  \E u \in Threads : canceller'[u].token = k /\ (canceller'[u].at = "copy" \/ c \in canceller'[u].todo)
    <3>1. PICK u \in Threads : canceller[u].token = k /\ (canceller[u].at = "copy" \/ c \in canceller[u].todo)
      BY <2>1, <2>4 DEF TokenInv, NoCallbackMissed
    <3> QED BY <2>1, <2>2, <3>1
  <2> QED BY <2>1, <2>2, <2>3, <2>4 DEF TokenInv, TokenTypeOK, NoCallbackMissed
<1>7. ASSUME NEW t \in Threads, NEW k \in Tokens, NEW c \in Callbacks, OnCancelled(t, k, c)
      PROVE  TokenInv' /\ raised \subseteq raised'
  <2>1. UNCHANGED <<raised, canceller>>
    BY <1>7 DEF OnCancelled
  <2>2. CASE k \in raised
    BY <1>7, <2>1, <2>2 DEF OnCancelled, TokenInv, TokenTypeOK, NoCallbackMissed
  <2>3. CASE k \notin raised
    BY <1>7, <2>1, <2>3 DEF OnCancelled, TokenInv, TokenTypeOK, NoCallbackMissed
  <2> QED BY <2>2, <2>3
<1> QED BY <1>1, <1>2, <1>3, <1>4, <1>5, <1>6, <1>7 DEF TokenNext, CancelStep

-----------------------------------------------------------------------------
(* The calls                                                                *)

CallSound(t) ==
    LET h == fetch[t] IN
    /\ h.left >= 0 \/ (h.at = "reply" /\ h.left >= -h.spent)
    /\ h.at = "wait" => h.pause <= h.left
    /\ h.late <= 1
    /\ h.late = 1 => h.at # "post" /\ Cancelled(t)

FetchInv == FetchTypeOK /\ \A t \in Threads : CallSound(t)

Calls == [at : FetchSteps, token : Tokens \cup {NoToken}, mode : {"search", "browse"},
          left : Int, transient : 0..MaxRetries, spent : 0..PostTime, pause : Nat, late : Nat]

\* A call moves to the record h, which keeps its token.
LEMMA CallStep ==
    ASSUME FetchInv, NEW t \in Threads, NEW h \in Calls, fetch' = [fetch EXCEPT ![t] = h],
           raised' = raised,
           h.left >= 0 \/ (h.at = "reply" /\ h.left >= -h.spent),
           h.at = "wait" => h.pause <= h.left,
           h.late <= 1,
           h.late = 1 => h.at # "post" /\ h.token # NoToken /\ IsCancelled(h.token)
    PROVE  FetchInv'
<1>1. \A u \in Threads : fetch'[u] = IF u = t THEN h ELSE fetch[u]
  BY DEF FetchInv, FetchTypeOK
<1>2. FetchTypeOK'
  BY DEF FetchInv, FetchTypeOK, Calls
<1>3. \A k : IsCancelled(k)' = IsCancelled(k)
  BY DEF IsCancelled, Ancestors
<1>4. ASSUME NEW u \in Threads PROVE CallSound(u)'
  BY <1>1, <1>3 DEF FetchInv, CallSound, Cancelled
<1> QED BY <1>2, <1>4 DEF FetchInv

LEMMA NoFetchTyped ==
    /\ NoFetch \in Calls /\ NoFetch.left = 0 /\ NoFetch.at = "idle" /\ NoFetch.late = 0
    /\ NoFetch.token = NoToken
  BY FetchAssumption DEF NoFetch, Calls, FetchSteps

LEMMA DoneStep == ASSUME FetchInv, NEW t \in Threads, Done(t), raised' = raised PROVE FetchInv'
<1>1. /\ NoFetch \in Calls /\ NoFetch.left >= 0 /\ NoFetch.at # "wait" /\ NoFetch.late <= 1
      /\ NoFetch.late # 1
  BY NoFetchTyped
<1>2. fetch' = [fetch EXCEPT ![t] = NoFetch]
  BY DEF Done
<1> QED BY <1>1, <1>2, CallStep

LEMMA FetchBegin ==
    ASSUME FetchInv, NEW t \in Threads, NEW mode \in {"search", "browse"}, NEW k \in CallTokens,
           Fetch(t, mode, k), raised' = raised
    PROVE  FetchInv'
<1>1. PICK h : /\ h = [NoFetch EXCEPT !.at = "check", !.mode = mode, !.token = k,
                         !.left = IF mode = "browse" THEN BrowseTime ELSE SearchTime]
               /\ fetch' = [fetch EXCEPT ![t] = h]
  BY DEF Fetch
<1>2. h = [at |-> "check", token |-> k, mode |-> mode,
           left |-> IF mode = "browse" THEN BrowseTime ELSE SearchTime,
           transient |-> 0, spent |-> 0, pause |-> 0, late |-> 0]
  BY <1>1 DEF NoFetch
<1>3. h \in Calls
  BY <1>2, FetchAssumption DEF Calls, FetchSteps
<1>4. h.left >= 0 /\ h.at # "wait" /\ h.late <= 1 /\ h.late # 1
  BY <1>2, FetchAssumption
<1>5. fetch' = [fetch EXCEPT ![t] = h]
  BY <1>1
<1> QED BY <1>3, <1>4, <1>5, CallStep

LEMMA CheckStep == ASSUME FetchInv, NEW t \in Threads, Check(t), raised' = raised PROVE FetchInv'
<1>1. CASE Cancelled(t)
  BY <1>1, DoneStep DEF Check
<1>2. CASE ~Cancelled(t)
  <2>1. PICK h : h = [fetch[t] EXCEPT !.at = "post"] /\ fetch' = [fetch EXCEPT ![t] = h]
    BY <1>2 DEF Check
  <2>2. fetch[t] \in Calls /\ fetch[t].at = "check" /\ CallSound(t)
    BY DEF FetchInv, FetchTypeOK, Calls, Check
  <2>3. /\ h \in Calls /\ h.at = "post" /\ h.left = fetch[t].left /\ h.late = fetch[t].late
        /\ fetch[t].left >= 0 /\ fetch[t].late # 1 /\ fetch[t].late <= 1
    BY <1>2, <2>1, <2>2 DEF CallSound, Calls, FetchSteps
  <2>4. h.left >= 0 /\ h.at # "wait" /\ h.late <= 1 /\ h.late # 1
    BY <2>3
  <2> QED BY <2>1, <2>3, <2>4, CallStep
<1> QED BY <1>1, <1>2

LEMMA PostStep == ASSUME FetchInv, NEW t \in Threads, Post(t), raised' = raised PROVE FetchInv'
<1>1. fetch[t] \in Calls /\ fetch[t].at = "post" /\ CallSound(t)
  BY DEF FetchInv, FetchTypeOK, Calls, Post
<1>2. fetch[t].left >= 0 /\ fetch[t].late = 0
  BY <1>1 DEF CallSound, Calls
<1> DEFINE late == IF Cancelled(t) THEN 1 ELSE 0
           f == [fetch[t] EXCEPT !.at = "reply"]
           g == [f EXCEPT !.spent = 0]
<1>0. f \in Calls /\ f.at = "reply" /\ f.left = fetch[t].left /\ f.token = fetch[t].token /\ f.late = 0
  BY <1>1, <1>2 DEF Calls, FetchSteps
<1>3. /\ g \in Calls /\ g.at = "reply" /\ g.left = fetch[t].left /\ g.token = fetch[t].token
      /\ g.late = 0 /\ g.spent = 0
  <2> HIDE DEF f
  <2> QED BY <1>0, FetchAssumption DEF Calls, FetchSteps
<1>4. PICK h : h = [g EXCEPT !.late = late] /\ fetch' = [fetch EXCEPT ![t] = h]
  <2>1. fetch' = [fetch EXCEPT ![t] = [fetch[t] EXCEPT !.at = "reply", !.spent = 0,
                                      !.late = IF Cancelled(t) THEN fetch[t].late + 1 ELSE fetch[t].late]]
    BY <1>1 DEF Post, Calls
  <2>2. (IF Cancelled(t) THEN fetch[t].late + 1 ELSE fetch[t].late) = late
    BY <1>2
  <2> QED BY <2>1, <2>2
<1> HIDE DEF f, g
<1>5. /\ h \in Calls /\ h.at = "reply" /\ h.left = fetch[t].left /\ h.token = fetch[t].token
      /\ h.late = late
  BY <1>3, <1>4 DEF Calls
<1>6. h.late = 1 => h.at # "post" /\ h.token # NoToken /\ IsCancelled(h.token)
  BY <1>5 DEF Cancelled
<1>7. h.left >= 0 /\ h.at # "wait" /\ h.late <= 1
  BY <1>2, <1>5
<1> QED BY <1>4, <1>5, <1>6, <1>7, CallStep

\* A wait that fits into the time that is left.
LEMMA WaitBegin ==
    ASSUME FetchInv, NEW t \in Threads, NEW h \in Calls, NEW delay \in Nat, Wait(t, h, delay), raised' = raised,
           h.late = fetch[t].late, h.token = fetch[t].token
    PROVE  FetchInv'
<1>1. CASE h.left <= 0 \/ delay > h.left
  BY <1>1, DoneStep DEF Wait
<1>2. CASE ~(h.left <= 0 \/ delay > h.left)
  <2>1. PICK g : g = [h EXCEPT !.at = "wait", !.pause = delay] /\ fetch' = [fetch EXCEPT ![t] = g]
    BY <1>2 DEF Wait
  <2>2. /\ g \in Calls /\ g.at = "wait" /\ g.pause = delay /\ g.left = h.left /\ g.late = h.late
        /\ g.token = h.token
    BY <2>1 DEF Calls, FetchSteps
  <2>3. h.left >= 0 /\ delay <= h.left
    BY <1>2 DEF Calls
  <2>4. h.late <= 1 /\ (h.late = 1 => h.token # NoToken /\ IsCancelled(h.token))
    BY DEF FetchInv, CallSound, Cancelled
  <2> QED BY <2>1, <2>2, <2>3, <2>4, CallStep
<1> QED BY <1>1, <1>2

LEMMA ReplyStep == ASSUME FetchInv, NEW t \in Threads, Reply(t), raised' = raised PROVE FetchInv'
<1>1. fetch[t] \in Calls
  BY DEF FetchInv, FetchTypeOK, Calls
<1>2. CASE Done(t)
  BY <1>2, DoneStep
<1>3. ASSUME fetch[t].transient < MaxRetries, NEW delay \in Delays \cup {Backoff(fetch[t].transient)},
             Wait(t, [fetch[t] EXCEPT !.transient = @ + 1], delay)
      PROVE  FetchInv'
  <2> DEFINE h == [fetch[t] EXCEPT !.transient = @ + 1]
  <2>1. h \in Calls /\ h.late = fetch[t].late /\ h.token = fetch[t].token
    BY <1>1, <1>3, FetchAssumption DEF Calls
  <2>2. fetch[t].transient \in Nat
    BY <1>1, FetchAssumption DEF Calls
  <2>3. delay \in Nat
    <3>1. Backoff(fetch[t].transient) \in Nat
      BY <2>2 DEF Backoff
    <3> QED BY <1>3, <3>1, FetchAssumption
  <2> QED BY <1>3, <2>1, <2>3, WaitBegin
<1>4. ASSUME NEW delay \in Delays, Wait(t, fetch[t], delay) PROVE FetchInv'
  BY <1>1, <1>4, WaitBegin, FetchAssumption
<1> QED BY <1>2, <1>3, <1>4 DEF Reply

LEMMA WaitStepInv == ASSUME FetchInv, NEW t \in Threads, WaitStep(t), raised' = raised PROVE FetchInv'
<1>1. CASE Done(t)
  BY <1>1, DoneStep
<1>2. CASE fetch[t].pause = 0 /\ fetch' = [fetch EXCEPT ![t].at = "check"]
  <2>1. PICK h : h = [fetch[t] EXCEPT !.at = "check"] /\ fetch' = [fetch EXCEPT ![t] = h]
    BY <1>2
  <2>2. fetch[t] \in Calls /\ fetch[t].at = "wait" /\ CallSound(t)
    BY DEF FetchInv, FetchTypeOK, Calls, WaitStep
  <2>3. /\ h \in Calls /\ h.at = "check" /\ h.left = fetch[t].left /\ h.late = fetch[t].late
        /\ h.token = fetch[t].token /\ fetch[t].left >= 0
    BY <2>1, <2>2 DEF CallSound, Calls, FetchSteps
  <2> QED BY <2>1, <2>2, <2>3, CallStep DEF CallSound, Cancelled
<1> QED BY <1>1, <1>2 DEF WaitStep

LEMMA TickStep == ASSUME FetchInv, Tick, raised' = raised PROVE FetchInv'
<1>1. \A k : IsCancelled(k)' = IsCancelled(k)
  BY DEF IsCancelled, Ancestors
<1>2. ASSUME NEW t \in Threads PROVE fetch'[t] \in Calls /\ CallSound(t)'
  <2>1. fetch[t] \in Calls /\ CallSound(t)
    BY DEF FetchInv, FetchTypeOK, Calls
  <2>2. CASE fetch[t].at = "idle"
    <3>1. fetch'[t] = fetch[t]
      BY <2>2 DEF Tick
    <3> QED BY <1>1, <2>1, <3>1 DEF CallSound, Cancelled
  <2>3. CASE fetch[t].at = "wait"
    <3>1. fetch[t].pause > 0
      BY <2>3 DEF Tick, Passing
    <3>2. fetch'[t] = [fetch[t] EXCEPT !.left = @ - 1, !.pause = @ - 1]
      BY <2>3 DEF Tick
    <3>3. /\ fetch'[t].left = fetch[t].left - 1 /\ fetch'[t].pause = fetch[t].pause - 1
          /\ fetch'[t].at = "wait" /\ fetch'[t].late = fetch[t].late /\ fetch'[t].token = fetch[t].token
      BY <2>1, <2>3, <3>2 DEF Calls
    <3>4. fetch'[t] \in Calls
      <4> DEFINE g == [fetch[t] EXCEPT !.left = fetch[t].left - 1]
      <4>1. g \in Calls /\ g.pause = fetch[t].pause
        BY <2>1 DEF Calls
      <4>2. fetch'[t] = [g EXCEPT !.pause = fetch[t].pause - 1]
        BY <2>1, <3>2 DEF Calls
      <4>3. fetch[t].pause - 1 \in Nat
        BY <2>1, <3>1 DEF Calls
      <4> HIDE DEF g
      <4> QED BY <4>1, <4>2, <4>3 DEF Calls
    <3>5. fetch[t].pause \in Nat /\ fetch[t].left \in Int /\ fetch[t].pause <= fetch[t].left
      BY <2>1, <2>3 DEF Calls, CallSound
    <3> QED BY <1>1, <2>1, <3>1, <3>3, <3>4, <3>5 DEF CallSound, Cancelled
  <2>4. CASE fetch[t].at \notin {"idle", "wait"}
    <3>1. fetch[t].at = "reply" /\ fetch[t].spent < PostTime
      BY <2>4 DEF Tick, Passing
    <3>2. fetch'[t] = [fetch[t] EXCEPT !.left = @ - 1, !.spent = @ + 1]
      BY <2>4 DEF Tick
    <3>3. /\ fetch'[t].left = fetch[t].left - 1 /\ fetch'[t].spent = fetch[t].spent + 1
          /\ fetch'[t].at = "reply" /\ fetch'[t].late = fetch[t].late /\ fetch'[t].token = fetch[t].token
      BY <2>1, <3>1, <3>2 DEF Calls
    <3>4. fetch'[t] \in Calls
      <4> DEFINE g == [fetch[t] EXCEPT !.left = fetch[t].left - 1]
      <4>1. g \in Calls
        BY <2>1 DEF Calls
      <4>2. fetch'[t] = [g EXCEPT !.spent = fetch[t].spent + 1]
        BY <2>1, <3>2 DEF Calls
      <4>3. fetch[t].spent + 1 \in 0..PostTime
        BY <2>1, <3>1, FetchAssumption DEF Calls
      <4> HIDE DEF g
      <4> QED BY <4>1, <4>2, <4>3 DEF Calls
    <3>5. fetch[t].spent \in Nat /\ fetch[t].left \in Int /\ fetch[t].left >= -fetch[t].spent
      BY <2>1, FetchAssumption DEF Calls, CallSound
    <3> QED BY <1>1, <2>1, <3>1, <3>3, <3>4, <3>5 DEF CallSound, Cancelled
  <2> QED BY <2>2, <2>3, <2>4
<1>3. fetch' \in [Threads -> Calls]
  BY <1>2 DEF Tick
<1> QED BY <1>2, <1>3 DEF FetchInv, FetchTypeOK, Calls

\* A cancellation does not disturb a call, and is never taken back.
LEMMA CallKept == ASSUME FetchInv, UNCHANGED fetch, raised \subseteq raised' PROVE FetchInv'
<1>1. \A k : IsCancelled(k) => IsCancelled(k)'
  BY DEF IsCancelled, Ancestors
<1> QED BY <1>1 DEF FetchInv, FetchTypeOK, CallSound, Cancelled

-----------------------------------------------------------------------------
Inv == PoolInv /\ TokenInv /\ FetchInv

LEMMA InitInv == Init => Inv
<1> SUFFICES ASSUME Init PROVE Inv
  OBVIOUS
<1>1. PoolInv
  BY PoolInitInv DEF Init
<1>2. TokenInv
  BY DEF Init, TokenInit, TokenInv, TokenTypeOK, NoCallbackMissed, NotCancelling, Cancelling
<1>3. FetchInv
  BY NoFetchTyped DEF Init, FetchInit, FetchInv, FetchTypeOK, CallSound, Calls
<1> QED BY <1>1, <1>2, <1>3 DEF Inv

LEMMA NextInv == Inv /\ [Next]_vars => Inv'
<1> SUFFICES ASSUME Inv, [Next]_vars PROVE Inv'
  OBVIOUS
<1> USE DEF Inv
<1>1. ASSUME PoolNext \/ UNCHANGED poolVars, UNCHANGED <<tokenVars, fetch>> PROVE Inv'
  BY <1>1, PoolNextInv, TokenStep, CallKept DEF tokenVars
<1>2. ASSUME TokenNext, UNCHANGED <<poolVars, fetch>> PROVE Inv'
  BY <1>2, PoolNextInv, TokenStep, CallKept
<1>3. ASSUME FetchInv', UNCHANGED <<poolVars, tokenVars>> PROVE Inv'
  BY <1>3, PoolNextInv, TokenStep
<1>4. raised' = raised \/ ~UNCHANGED tokenVars
  BY DEF tokenVars
<1>5. ASSUME NEW t \in Threads, Begin(t) PROVE Inv'
  <2>1. ASSUME Execute(t) \/ OpenDedicated(t) PROVE PoolNext
    BY <2>1, OneSetOfThreads DEF PoolNext
  <2>2. ASSUME NEW k \in Tokens, CancelBegin(t, k) \/ \E c \in Callbacks : OnCancelled(t, k, c) PROVE TokenNext
    BY <2>2 DEF TokenNext
  <2>3. ASSUME NEW mode \in {"search", "browse"}, NEW k \in CallTokens, Fetch(t, mode, k), raised' = raised
        PROVE  FetchInv'
    BY <2>3, FetchBegin
  <2> QED BY <1>1, <1>2, <1>3, <1>4, <1>5, <2>1, <2>2, <2>3 DEF Begin
<1>6. ASSUME NEW t \in Threads, Advance(t) PROVE Inv'
  <2>1. StatementStep(t) => PoolNext
    BY OneSetOfThreads DEF PoolNext
  <2>2. CancelStep(t) => TokenNext
    BY DEF TokenNext
  <2>3. FetchStep(t) /\ raised' = raised => FetchInv'
    BY CheckStep, PostStep, ReplyStep, WaitStepInv DEF FetchStep
  <2> QED BY <1>1, <1>2, <1>3, <1>4, <1>6, <2>1, <2>2, <2>3 DEF Advance
<1>7. ASSUME ClosePool, UNCHANGED <<tokenVars, fetch>> PROVE Inv'
  BY <1>1, <1>7 DEF PoolNext
<1>8. ASSUME Tick, UNCHANGED <<poolVars, tokenVars>> PROVE Inv'
  BY <1>3, <1>4, <1>8, TickStep
<1>9. CASE UNCHANGED vars
  BY <1>1, <1>9 DEF vars
<1> QED BY <1>5, <1>6, <1>7, <1>8, <1>9 DEF Next

\* No connection is shared or lost, for any number of threads and any size of
\* the pool.
THEOREM ConnectionsAccounted == Spec => []OneHolderEach
<1>1. Inv => OneHolderEach
  BY DEF Inv, PoolInv
<1> QED BY <1>1, InitInv, NextInv, PTL DEF Spec

\* The effects of a statement are explained by its answer and by the
\* connections that broke, whatever the number of attempts.
THEOREM EffectsAccounted == Spec => []EffectsExplained
<1>1. Inv => EffectsExplained
  BY OneSetOfThreads DEF Inv, PoolInv, StatementSound, EffectsExplained
<1> QED BY <1>1, InitInv, NextInv, PTL DEF Spec

\* A callback registered on a token whose own cancel is called has run once the
\* thread that copied it is done with it, for any number of threads and
\* callbacks.  Cancellation by an ancestor is not meant: it calls no callbacks
\* of a child (CancelledTokensCall is violated).
THEOREM CallbacksRun == Spec => []NoCallbackMissed
<1>1. Inv => NoCallbackMissed
  BY DEF Inv, TokenInv
<1> QED BY <1>1, InitInv, NextInv, PTL DEF Spec

\* A call never overruns its time by more than one post.
THEOREM CallsKeepTime == Spec => []OverrunsByOnePost
<1>1. Inv => OverrunsByOnePost
  <2> SUFFICES ASSUME Inv, NEW t \in Threads PROVE fetch[t].left >= -PostTime
    BY DEF OverrunsByOnePost
  <2>1. fetch[t] \in Calls /\ CallSound(t)
    BY DEF Inv, FetchInv, FetchTypeOK, Calls
  <2>2. /\ fetch[t].left \in Int /\ fetch[t].spent \in Nat /\ fetch[t].spent <= PostTime
        /\ PostTime \in Nat
    BY <2>1, FetchAssumption DEF Calls
  <2> QED BY <2>1, <2>2 DEF CallSound
<1> QED BY <1>1, InitInv, NextInv, PTL DEF Spec

\* A cancelled call sends one request at most.
THEOREM CallsStop == Spec => []CancelStopsPosting
<1>1. Inv => CancelStopsPosting
  BY DEF Inv, FetchInv, CallSound, CancelStopsPosting
<1> QED BY <1>1, InitInv, NextInv, PTL DEF Spec
=============================================================================
