---------------------------- MODULE AskRun_proofs ----------------------------
(***************************************************************************)
(* Proofs about AskRun, and about RunViewer on top of it, for every set of *)
(* asks, every number of stages, every combination of faults and every     *)
(* number of selections and retries.                                       *)
(***************************************************************************)
EXTENDS RunViewer, TLAPS

LEMMA StageRowTyped ==
    ASSUME NEW S, NEW N, NEW f \in [S -> [N -> States]], NEW r \in S, NEW n, NEW x \in States
    PROVE  [f EXCEPT ![r][n] = x] \in [S -> [N -> States]]
<1>1. f[r] \in [N -> States]
    OBVIOUS
<1>2. [f[r] EXCEPT ![n] = x] \in [N -> States]
    BY <1>1
<1> QED BY <1>2

LEMMA StageEndTyped ==
    ASSUME TypeOK, NEW r \in Runs, StageDone(r) \/ StageRaises(r)
    PROVE  TypeOK'
<1>1. PICK state \in Ended :
        rows' = [rows EXCEPT ![r][stage[r]] = IF @ = "none" THEN "none" ELSE state] \/ rows' = rows
    BY DEF StageDone, StageRaises, FinishStageRow, Write, Ended
<1>2. rows' \in [Runs -> [1..Stages -> States]]
  <2>1. CASE rows' = rows
      BY <2>1 DEF TypeOK
  <2>2. CASE rows' = [rows EXCEPT ![r][stage[r]] = IF @ = "none" THEN "none" ELSE state]
    <3> DEFINE x == IF rows[r][stage[r]] = "none" THEN "none" ELSE state
    <3>1. x \in States
        BY DEF States, Ended
    <3>2. rows' = [rows EXCEPT ![r][stage[r]] = x]
        BY <2>2
    <3> HIDE DEF x
    <3> QED BY <3>1, <3>2, StageRowTyped DEF TypeOK
  <2> QED BY <1>1, <2>1, <2>2
<1>3. lost' \subseteq Runs
    BY DEF StageDone, StageRaises, FinishStageRow, Write, TypeOK
<1>4. /\ at' = [at EXCEPT ![r] = "between"] /\ failed' \in [Runs -> BOOLEAN]
      /\ UNCHANGED <<stage, pool, run, node>>
    BY DEF StageDone, StageRaises, TypeOK
<1> QED BY <1>2, <1>3, <1>4 DEF TypeOK

LEMMA TypeKept == ASSUME TypeOK, [Next]_vars PROVE TypeOK'
<1> USE DEF TypeOK, States, Ended, main, record
<1>1. CASE Crash
    BY <1>1 DEF Crash
<1>2. ASSUME NEW r \in Runs, Open(r) PROVE TypeOK'
    BY <1>2 DEF Open, StartRow, Write
<1>3. ASSUME NEW r \in Runs, Spawn(r) PROVE TypeOK'
    BY <1>3 DEF Spawn
<1>4. ASSUME NEW r \in Runs, BeginStage(r) PROVE TypeOK'
  <2>1. stage[r] \in 0..Stages /\ stage[r] # Stages
      BY <1>4 DEF BeginStage, Over
  <2>2. stage[r] + 1 \in 0..Stages
      BY <2>1, ConstantsOK
  <2>3. stage' \in [Runs -> 0..Stages]
      BY <1>4, <2>2 DEF BeginStage
  <2>4. rows' \in [Runs -> [1..Stages -> States]]
    <3>1. CASE rows' = [rows EXCEPT ![r][stage[r] + 1] = "running"]
        BY <3>1, StageRowTyped
    <3>2. CASE UNCHANGED rows
        BY <3>2
    <3> QED BY <1>4, <3>1, <3>2 DEF BeginStage, StartStageRow, Write
  <2>5. lost' \subseteq Runs
      BY <1>4 DEF BeginStage, StartStageRow, Write
  <2> QED BY <1>4, <2>3, <2>4, <2>5 DEF BeginStage
<1>5. ASSUME NEW r \in Runs, BeginNode(r) PROVE TypeOK'
    BY <1>5 DEF BeginNode, StartRow, Write
<1>6. ASSUME NEW r \in Runs, FinishNode(r) PROVE TypeOK'
    BY <1>6 DEF FinishNode, FinishRow, Write
<1>7. ASSUME NEW r \in Runs, StageDone(r) \/ StageRaises(r) PROVE TypeOK'
    BY <1>7, StageEndTyped
<1>8. ASSUME NEW r \in Runs, OutputRaises(r) PROVE TypeOK'
    BY <1>8 DEF OutputRaises
<1>9. ASSUME NEW r \in Runs, Close(r) PROVE TypeOK'
    BY <1>9 DEF Close, FinishRow, Write
<1>10. CASE UNCHANGED vars
    BY <1>10 DEF vars
<1> QED BY <1>1, <1>2, <1>3, <1>4, <1>5, <1>6, <1>7, <1>8, <1>9, <1>10 DEF Next, Ask

\* Every variable keeps its type: in particular no stage follows the last.
THEOREM TypeCorrect == Spec => []TypeOK
<1>1. Init => TypeOK
    BY ConstantsOK DEF Init, TypeOK, States
<1> QED BY <1>1, TypeKept, PTL DEF Spec

-----------------------------------------------------------------------------
(* Nothing is written once a run is closed.                                  *)

\* A run is closed by the last step of its ask, when its threads are gone.
Quiet ==
    \A r \in Runs :
        /\ run[r] \in Ended => at[r] = "ended"
        /\ pool[r] = "busy" => at[r] \in {"working", "dead"}

KeepsClosed ==
    \A r \in Runs : run[r] \in Ended =>
        run'[r] = run[r] /\ rows'[r] = rows[r] /\ node'[r] = node[r]

LEMMA QuietKept ==
    ASSUME TypeOK, Quiet, [Next]_vars
    PROVE  Quiet' /\ KeepsClosed
<1> USE DEF TypeOK, States, Quiet, KeepsClosed, Ended, main, record
<1>1. CASE Crash
    BY <1>1 DEF Crash
<1>2. ASSUME NEW r \in Runs, Open(r) PROVE Quiet' /\ KeepsClosed
    BY <1>2 DEF Open, StartRow, Write
<1>3. ASSUME NEW r \in Runs, Spawn(r) PROVE Quiet' /\ KeepsClosed
    BY <1>3 DEF Spawn
<1>4. ASSUME NEW r \in Runs, BeginStage(r) PROVE Quiet' /\ KeepsClosed
    BY <1>4 DEF BeginStage, StartStageRow, Write
<1>5. ASSUME NEW r \in Runs, BeginNode(r) PROVE Quiet' /\ KeepsClosed
    BY <1>5 DEF BeginNode, StartRow, Write
<1>6. ASSUME NEW r \in Runs, FinishNode(r) PROVE Quiet' /\ KeepsClosed
    BY <1>6 DEF FinishNode, FinishRow, Write
<1>7. ASSUME NEW r \in Runs, StageDone(r) PROVE Quiet' /\ KeepsClosed
    BY <1>7 DEF StageDone, FinishStageRow, Write, PoolReturned
<1>8. ASSUME NEW r \in Runs, StageRaises(r) PROVE Quiet' /\ KeepsClosed
    BY <1>8 DEF StageRaises, FinishStageRow, Write, PoolReturned
<1>9. ASSUME NEW r \in Runs, OutputRaises(r) PROVE Quiet' /\ KeepsClosed
    BY <1>9 DEF OutputRaises, PoolReturned
<1>10. ASSUME NEW r \in Runs, Close(r) PROVE Quiet' /\ KeepsClosed
    BY <1>10 DEF Close, FinishRow, Write
<1>11. CASE UNCHANGED vars
    BY <1>11 DEF vars
<1> QED BY <1>1, <1>2, <1>3, <1>4, <1>5, <1>6, <1>7, <1>8, <1>9, <1>10, <1>11 DEF Next, Ask

LEMMA QuietInit == ASSUME Init PROVE Quiet
BY DEF Init, Quiet, Ended

THEOREM QuietAlways == Spec => []Quiet
BY QuietInit, QuietKept, TypeCorrect, PTL DEF Spec

\* What the record of a run says once it is closed, it says for good.
THEOREM ClosedStaysClosed == Spec => ClosedForGood
<1>1. TypeOK /\ Quiet /\ [Next]_vars =>
        [\A r \in Runs : run[r] \in Ended =>
            run'[r] = run[r] /\ rows'[r] = rows[r] /\ node'[r] = node[r]]_vars
    BY QuietKept DEF KeepsClosed
<1> QED BY <1>1, TypeCorrect, QuietAlways, PTL DEF Spec, ClosedForGood

-----------------------------------------------------------------------------
(* Unless a write was lost, the rows tell how far the ask is.                *)

Progress(r) ==
    /\ \A s \in 1..Stages : s < stage[r] => rows[r][s] = "done"
    /\ \A s \in 1..Stages : s > stage[r] => rows[r][s] = "none"
    /\ at[r] \in {"idle", "opened"} => stage[r] = 0
    /\ stage[r] = 0 => ~failed[r] /\ at[r] # "working"
    /\ stage[r] # 0 => rows[r][stage[r]] \in {"running", "done", "failed"}
    /\ at[r] = "working" => rows[r][stage[r]] = "running" /\ ~failed[r]
    /\ at[r] \in {"between", "ended"} /\ stage[r] # 0 =>
           rows[r][stage[r]] \in (IF failed[r] THEN {"running", "failed"} ELSE {"done"})
    /\ run[r] = "done" => ~failed[r] /\ stage[r] = Stages
    /\ run[r] = "failed" => failed[r]

Fragments(r) ==
    /\ node[r] # "none" => stage[r] >= Coordinator
    /\ node[r] = "running" => pool[r] = "busy"
    /\ pool[r] = "busy" => stage[r] = Coordinator /\ rows[r][Coordinator] = "running"

Told == \A r \in Runs \ lost : Progress(r) /\ Fragments(r)

\* A step of one ask.
Alone(r) ==
    \A q \in Runs \ {r} :
        /\ q \in lost' => q \in lost
        /\ q \in lost => q \in lost'
        /\ at'[q] = at[q] /\ stage'[q] = stage[q] /\ failed'[q] = failed[q]
        /\ pool'[q] = pool[q] /\ run'[q] = run[q] /\ rows'[q] = rows[q] /\ node'[q] = node[q]

LEMMA ToldByOne ==
    ASSUME Told, NEW r \in Runs, Alone(r), r \in lost' \/ (Progress(r)' /\ Fragments(r)')
    PROVE  Told'
<1>1. ASSUME NEW q \in Runs, q # r, q \notin lost' PROVE Progress(q)' /\ Fragments(q)'
    BY <1>1 DEF Told, Alone, Progress, Fragments
<1> QED BY <1>1 DEF Told

LEMMA ToldKept ==
    ASSUME TypeOK, Quiet, Told, [Next]_vars
    PROVE  Told'
<1> USE ConstantsOK DEF TypeOK, main, record
<1>1. CASE Crash
    BY <1>1 DEF Crash, Told, Progress, Fragments
<1>2. ASSUME NEW r \in Runs, Open(r) PROVE Told'
  <2>1. Alone(r)
      BY <1>2 DEF Open, StartRow, Write, Alone
  <2> SUFFICES ASSUME r \notin lost' PROVE Progress(r)' /\ Fragments(r)'
      BY <2>1, ToldByOne
  <2>2. Progress(r) /\ Fragments(r)
      BY <1>2 DEF Told, Open, StartRow, Write
  <2> QED BY <1>2, <2>2 DEF Open, StartRow, Write, Progress, Fragments
<1>3. ASSUME NEW r \in Runs, Spawn(r) PROVE Told'
  <2>1. Alone(r)
      BY <1>3 DEF Spawn, Alone
  <2> SUFFICES ASSUME r \notin lost' PROVE Progress(r)' /\ Fragments(r)'
      BY <2>1, ToldByOne
  <2>2. Progress(r) /\ Fragments(r)
      BY <1>3 DEF Told, Spawn
  <2> QED BY <1>3, <2>2 DEF Spawn, Progress, Fragments
<1>4. ASSUME NEW r \in Runs, BeginStage(r) PROVE Told'
  <2>1. Alone(r)
      BY <1>4 DEF BeginStage, StartStageRow, Write, Alone
  <2> SUFFICES ASSUME r \notin lost' PROVE Progress(r)' /\ Fragments(r)'
      BY <2>1, ToldByOne
  <2>0. Progress(r) /\ Fragments(r)
      BY <1>4 DEF Told, BeginStage, StartStageRow, Write
  <2>2. /\ at[r] = "between" /\ ~failed[r] /\ stage[r] \in 0..Stages - 1
        /\ at'[r] = "working" /\ stage'[r] = stage[r] + 1
        /\ rows'[r] = [rows[r] EXCEPT ![stage[r] + 1] = "running"]
        /\ failed'[r] = failed[r] /\ pool'[r] = pool[r] /\ run'[r] = run[r] /\ node'[r] = node[r]
      BY <1>4 DEF BeginStage, StartStageRow, Write, Over
  <2>3. stage[r] # 0 => rows[r][stage[r]] = "done"
      BY <2>0, <2>2 DEF Progress
  <2>4. pool[r] # "busy" /\ run[r] \notin Ended
      BY <2>2 DEF Quiet
  <2>5. Progress(r)'
    <3>1. /\ \A s \in 1..Stages : s < stage[r] => rows[r][s] = "done"
          /\ \A s \in 1..Stages : s > stage[r] => rows[r][s] = "none"
        BY <2>0 DEF Progress
    <3>2. /\ \A s \in 1..Stages : s # stage[r] + 1 => rows'[r][s] = rows[r][s]
          /\ rows'[r][stage[r] + 1] = "running"
        BY <2>2
    <3>3. \A s \in 1..Stages : s < stage'[r] => rows'[r][s] = "done"
      <4> SUFFICES ASSUME NEW s \in 1..Stages, s < stage'[r] PROVE rows'[r][s] = "done"
          OBVIOUS
      <4>1. s < stage[r] \/ s = stage[r]
          BY <2>2
      <4> QED BY <2>2, <2>3, <3>1, <3>2, <4>1
    <3>4. \A s \in 1..Stages : s > stage'[r] => rows'[r][s] = "none"
        BY <2>2, <3>1, <3>2
    <3>5. /\ rows'[r][stage'[r]] = "running" /\ at'[r] = "working" /\ ~failed'[r]
          /\ stage'[r] # 0 /\ run'[r] \notin Ended
        BY <2>2, <2>4, <3>2
    <3> QED BY <3>3, <3>4, <3>5 DEF Progress, Ended
  <2>6. Fragments(r)'
      BY <2>0, <2>2, <2>4 DEF Fragments
  <2> QED BY <2>5, <2>6
<1>5. ASSUME NEW r \in Runs, BeginNode(r) PROVE Told'
  <2>1. Alone(r)
      BY <1>5 DEF BeginNode, StartRow, Write, Alone
  <2> SUFFICES ASSUME r \notin lost' PROVE Progress(r)' /\ Fragments(r)'
      BY <2>1, ToldByOne
  <2>2. Progress(r) /\ Fragments(r)
      BY <1>5 DEF Told, BeginNode, StartRow, Write
  <2> QED BY <1>5, <2>2 DEF BeginNode, StartRow, Write, Progress, Fragments
<1>6. ASSUME NEW r \in Runs, FinishNode(r) PROVE Told'
  <2>1. Alone(r)
      BY <1>6 DEF FinishNode, FinishRow, Write, Alone
  <2> SUFFICES ASSUME r \notin lost' PROVE Progress(r)' /\ Fragments(r)'
      BY <2>1, ToldByOne
  <2>2. Progress(r) /\ Fragments(r)
      BY <1>6 DEF Told, FinishNode, FinishRow, Write
  <2> QED BY <1>6, <2>2 DEF FinishNode, FinishRow, Write, Progress, Fragments, Ended
<1>7. ASSUME NEW r \in Runs, NEW state \in Ended,
             at[r] = "working", pool[r] # "busy", at' = [at EXCEPT ![r] = "between"],
             failed' = [failed EXCEPT ![r] = (state = "failed")],
             rows' = [rows EXCEPT ![r][stage[r]] = IF @ = "none" THEN "none" ELSE state],
             UNCHANGED <<stage, pool, run, node, lost>>
      PROVE  Told'
  <2>1. Alone(r)
      BY <1>7 DEF Alone
  <2> SUFFICES ASSUME r \notin lost' PROVE Progress(r)' /\ Fragments(r)'
      BY <2>1, ToldByOne
  <2>0. Progress(r) /\ Fragments(r)
      BY <1>7 DEF Told
  <2>2. stage[r] \in 1..Stages /\ rows[r][stage[r]] = "running" /\ ~failed[r]
      BY <1>7, <2>0 DEF Progress
  <2>3. rows'[r] = [rows[r] EXCEPT ![stage[r]] = state] /\ state \in {"done", "failed"}
      BY <1>7, <2>2 DEF Ended
  <2>4. /\ at'[r] = "between" /\ stage'[r] = stage[r] /\ run'[r] = run[r]
        /\ failed'[r] = (state = "failed") /\ run[r] \notin Ended
        /\ pool'[r] = pool[r] /\ node'[r] = node[r]
      BY <1>7 DEF Quiet
  <2>5. Progress(r)'
    <3>1. /\ \A s \in 1..Stages : s # stage[r] => rows'[r][s] = rows[r][s]
          /\ rows'[r][stage[r]] = state
        BY <2>2, <2>3
    <3>2. /\ \A s \in 1..Stages : s < stage'[r] => rows'[r][s] = "done"
          /\ \A s \in 1..Stages : s > stage'[r] => rows'[r][s] = "none"
      <4>1. /\ \A s \in 1..Stages : s < stage[r] => rows[r][s] = "done"
            /\ \A s \in 1..Stages : s > stage[r] => rows[r][s] = "none"
          BY <2>0 DEF Progress
      <4>2. \A s \in 1..Stages : (s < stage[r] => s # stage[r]) /\ (s > stage[r] => s # stage[r])
          BY <2>2
      <4> QED BY <2>4, <3>1, <4>1, <4>2
    <3>3. rows'[r][stage'[r]] = state /\ stage'[r] # 0
        BY <2>2, <2>4, <3>1
    <3>4. rows'[r][stage'[r]] \in (IF failed'[r] THEN {"running", "failed"} ELSE {"done"})
        BY <2>3, <2>4, <3>3
    <3> QED BY <2>3, <2>4, <3>2, <3>3, <3>4 DEF Progress, Ended
  <2>6. Fragments(r)'
      BY <1>7, <2>0, <2>4 DEF Fragments
  <2> QED BY <2>5, <2>6
<1>8. ASSUME NEW r \in Runs, NEW state \in Ended,
             at[r] = "working", PoolReturned(r), at' = [at EXCEPT ![r] = "between"],
             state = "failed" => failed' = [failed EXCEPT ![r] = TRUE],
             state = "done" => failed' = failed,
             FinishStageRow(r, stage[r], state), UNCHANGED <<stage, pool, run, node>>
      PROVE  Told'
  <2>1. Alone(r)
      BY <1>8 DEF FinishStageRow, Write, Alone, Ended
  <2>2. CASE r \in lost'
      BY <2>1, <2>2, ToldByOne
  <2>3. CASE r \notin lost'
    <3>1. ~failed[r] /\ UNCHANGED lost
        BY <1>8, <2>3 DEF FinishStageRow, Write, Told, Progress
    <3>2. failed' = [failed EXCEPT ![r] = (state = "failed")]
        BY <1>8, <3>1 DEF Ended
    <3>3. rows' = [rows EXCEPT ![r][stage[r]] = IF @ = "none" THEN "none" ELSE state]
        BY <1>8, <2>3 DEF FinishStageRow, Write
    <3> QED BY <1>7, <1>8, <3>1, <3>2, <3>3 DEF PoolReturned
  <2> QED BY <2>2, <2>3
<1>9. ASSUME NEW r \in Runs, StageDone(r) \/ StageRaises(r) PROVE Told'
    BY <1>8, <1>9 DEF StageDone, StageRaises, Ended
<1>10. ASSUME NEW r \in Runs, OutputRaises(r) PROVE Told'
  <2>1. Alone(r)
      BY <1>10 DEF OutputRaises, Alone
  <2> SUFFICES ASSUME r \notin lost' PROVE Progress(r)' /\ Fragments(r)'
      BY <2>1, ToldByOne
  <2>2. Progress(r) /\ Fragments(r)
      BY <1>10 DEF Told, OutputRaises
  <2> QED BY <1>10, <2>2 DEF OutputRaises, Progress, Fragments, Quiet, Ended
<1>11. ASSUME NEW r \in Runs, Close(r) PROVE Told'
  <2>1. Alone(r)
      BY <1>11 DEF Close, FinishRow, Write, Alone
  <2> SUFFICES ASSUME r \notin lost' PROVE Progress(r)' /\ Fragments(r)'
      BY <2>1, ToldByOne
  <2>2. Progress(r) /\ Fragments(r)
      BY <1>11 DEF Told, Close, FinishRow, Write
  <2> QED BY <1>11, <2>2 DEF Close, Over, FinishRow, Write, Progress, Fragments
<1>12. CASE UNCHANGED vars
    BY <1>12 DEF vars, Told, Progress, Fragments
<1> QED BY <1>1, <1>2, <1>3, <1>4, <1>5, <1>6, <1>9, <1>10, <1>11, <1>12 DEF Next, Ask

LEMMA ToldInit == ASSUME Init PROVE Told
<1> SUFFICES ASSUME NEW r \in Runs PROVE Progress(r) /\ Fragments(r)
    BY DEF Told
<1>1. /\ at[r] = "idle" /\ stage[r] = 0 /\ ~failed[r] /\ pool[r] = "unused"
      /\ run[r] = "none" /\ node[r] = "none" /\ rows[r] = [s \in 1..Stages |-> "none"]
    BY DEF Init
<1>2. \A s \in 1..Stages : rows[r][s] = "none" /\ ~(s < stage[r])
    BY <1>1, ConstantsOK
<1> QED BY <1>1, <1>2 DEF Progress, Fragments

\* Unless a write was lost, a stage is started only when the one before it is
\* recorded as done, and fragments run only in the coordinator's.
THEOREM StagesAreOrdered == Spec => []StagesInOrder
<1>1. TypeOK /\ Told => StagesInOrder
  <2> SUFFICES ASSUME TypeOK, Told, NEW r \in Runs \ lost
               PROVE  /\ \A s \in 1..Stages - 1 : rows[r][s + 1] # "none" => rows[r][s] = "done"
                      /\ node[r] # "none" => rows[r][Coordinator] # "none"
                      /\ node[r] = "running" => rows[r][Coordinator] = "running"
      BY DEF StagesInOrder
  <2> USE ConstantsOK
  <2>1. stage[r] \in 0..Stages
      BY DEF TypeOK
  <2>2. ASSUME NEW s \in 1..Stages - 1, rows[r][s + 1] # "none" PROVE rows[r][s] = "done"
    <3>1. s \in 1..Stages /\ s + 1 \in 1..Stages
        OBVIOUS
    <3>2. ~(s + 1 > stage[r])
        BY <2>2, <3>1 DEF Told, Progress
    <3>3. s < stage[r]
        BY <2>1, <3>2
    <3> QED BY <3>1, <3>3 DEF Told, Progress
  <2>3. node[r] # "none" => rows[r][Coordinator] # "none"
    <3> SUFFICES ASSUME node[r] # "none" PROVE rows[r][Coordinator] # "none"
        OBVIOUS
    <3>1. stage[r] = Coordinator \/ Coordinator < stage[r]
        BY <2>1 DEF Told, Fragments
    <3>2. CASE Coordinator < stage[r]
      <4>1. rows[r][Coordinator] = "done"
          BY <3>2 DEF Told, Progress
      <4> QED BY <4>1
    <3>3. CASE stage[r] = Coordinator
      <4>1. rows[r][stage[r]] \in {"running", "done", "failed"}
          BY <3>3 DEF Told, Progress
      <4> QED BY <3>3, <4>1
    <3> QED BY <3>1, <3>2, <3>3
  <2>4. node[r] = "running" => rows[r][Coordinator] = "running"
      BY DEF Told, Fragments
  <2> QED BY <2>2, <2>3, <2>4
<1>2. TypeOK /\ Quiet /\ Told /\ [Next]_vars => Told'
    BY ToldKept
<1> QED BY <1>1, <1>2, ToldInit, TypeCorrect, QuietAlways, PTL DEF Spec

\* Unless a write was lost, a closed run agrees with its stages.
THEOREM RunsAgree == Spec => []RunTellsStages
<1>1. TypeOK /\ Quiet /\ Told => RunTellsStages
  <2> SUFFICES ASSUME TypeOK, Quiet, Told, NEW r \in Runs \ lost
               PROVE  /\ run[r] = "done" => \A s \in 1..Stages : rows[r][s] = "done"
                      /\ run[r] = "failed" => \E s \in 1..Stages : rows[r][s] \in {"failed", "running"}
      BY DEF RunTellsStages
  <2> USE ConstantsOK
  <2>1. stage[r] \in 0..Stages /\ (run[r] \in Ended => at[r] = "ended")
      BY DEF TypeOK, Quiet
  <2>2. ASSUME run[r] = "done", NEW s \in 1..Stages PROVE rows[r][s] = "done"
    <3>1. ~failed[r] /\ stage[r] = Stages /\ at[r] = "ended" /\ stage[r] # 0
        BY <2>1, <2>2 DEF Told, Progress, Ended
    <3>2. rows[r][stage[r]] = "done"
        BY <3>1 DEF Told, Progress
    <3>3. s = stage[r] \/ s < stage[r]
        BY <3>1
    <3> QED BY <3>2, <3>3 DEF Told, Progress
  <2>3. ASSUME run[r] = "failed" PROVE \E s \in 1..Stages : rows[r][s] \in {"failed", "running"}
    <3>1. failed[r] /\ at[r] = "ended"
        BY <2>1, <2>3 DEF Told, Progress, Ended
    <3>2. stage[r] \in 1..Stages
        BY <2>1, <3>1 DEF Told, Progress
    <3>3. rows[r][stage[r]] \in {"running", "failed"}
        BY <3>1, <3>2 DEF Told, Progress
    <3> QED BY <3>2, <3>3
  <2> QED BY <2>2, <2>3
<1>2. TypeOK /\ Quiet /\ Told /\ [Next]_vars => Told'
    BY ToldKept
<1> QED BY <1>1, <1>2, ToldInit, TypeCorrect, QuietAlways, PTL DEF Spec

-----------------------------------------------------------------------------
(* The viewer: what three queries read of a run that is being written.       *)

Records == [id : Runs, run : States, rows : [1..Stages -> States], node : States]

\* What a request has read of a run that had ended by its first query is what
\* the record of that run says.
Agrees(h, step) ==
    h.run \in Ended => h.run = run[h.id] /\ (step = "stages" => h.rows = rows[h.id])

Whole(h) == h.run \in Ended => h.run = run[h.id] /\ h.rows = rows[h.id] /\ h.node = node[h.id]

Asking(c) == chains[c].step \in {"sent", "run", "stages"}

ViewInv ==
    /\ TypeOK /\ Quiet
    /\ chains \in [Chains -> [step : {"idle", "sent", "run", "stages", "timer"}, read : Records \cup {NoRun}]]
    /\ \A c \in Chains :
          /\ chains[c].step # "idle" => selected \in Runs
          /\ Asking(c) => chains[c].read \in Records /\ Agrees(chains[c].read, chains[c].step)
    /\ detail # NoRun => detail \in Records /\ Whole(detail)

LEMMA ViewInit == ViewerInit => ViewInv
<1> SUFFICES ASSUME ViewerInit PROVE ViewInv
    OBVIOUS
<1>1. TypeOK /\ Quiet
    BY QuietInit, ConstantsOK DEF ViewerInit, Init, TypeOK, States
<1>2. Idle \in [step : {"idle", "sent", "run", "stages", "timer"}, read : Records \cup {NoRun}]
    BY DEF Idle
<1>3. \A c \in Chains : chains[c] = Idle /\ Idle.step = "idle"
    BY DEF ViewerInit, Idle
<1> QED BY <1>1, <1>2, <1>3 DEF ViewInv, ViewerInit, Asking

\* Rows that are closed stay what was read of them.
LEMMA ReadStays ==
    ASSUME TypeOK, KeepsClosed, NEW h \in Records
    PROVE  /\ \A step : Agrees(h, step) => Agrees(h, step)'
           /\ Whole(h) => Whole(h)'
<1>1. h.id \in Runs
    BY DEF Records
<1> QED BY <1>1 DEF KeepsClosed, Agrees, Whole

LEMMA AsksKeepView == ASSUME ViewInv, Next, UNCHANGED viewer PROVE ViewInv'
<1>1. TypeOK' /\ Quiet' /\ KeepsClosed /\ TypeOK
    BY TypeKept, QuietKept DEF ViewInv
<1>2. ASSUME NEW c \in Chains, Asking(c) PROVE Agrees(chains[c].read, chains[c].step)'
    BY <1>1, <1>2, ReadStays DEF ViewInv, viewer
<1>3. detail # NoRun => Whole(detail)'
    BY <1>1, ReadStays DEF ViewInv, viewer
<1> QED BY <1>1, <1>2, <1>3 DEF ViewInv, viewer, Asking

\* One chain moves on; the rows stay.
LEMMA ChainStep ==
    ASSUME ViewInv, NEW c \in Chains, chains[c].step # "idle", UNCHANGED vars, selected' = selected,
           NEW step \in {"idle", "sent", "run", "stages", "timer"}, NEW h \in Records \cup {NoRun},
           Step(c, step, h), step \in {"sent", "run", "stages"} => h \in Records /\ Agrees(h, step),
           detail' # NoRun => detail' = detail \/ (detail' \in Records /\ Whole(detail'))
    PROVE  ViewInv'
<1>1. UNCHANGED <<run, rows, node>>
    BY DEF vars, record
<1>2. TypeOK' /\ Quiet'
    BY DEF ViewInv, TypeOK, Quiet, vars, main, record
<1>3. /\ chains'[c].step = step /\ chains'[c].read = h
      /\ \A d \in Chains \ {c} : chains'[d] = chains[d]
      /\ chains' \in [Chains -> [step : {"idle", "sent", "run", "stages", "timer"}, read : Records \cup {NoRun}]]
    BY DEF Step, ViewInv
<1>4. \A d \in Chains : chains'[d].step # "idle" => selected' \in Runs
    BY <1>3 DEF ViewInv
<1>5. ASSUME NEW d \in Chains, Asking(d)'
      PROVE  (chains[d].read \in Records /\ Agrees(chains[d].read, chains[d].step))'
    BY <1>1, <1>3, <1>5 DEF ViewInv, Asking, Agrees
<1>6. detail' # NoRun => detail' \in Records /\ Whole(detail)'
    BY <1>1 DEF ViewInv, Whole
<1> QED BY <1>2, <1>3, <1>4, <1>5, <1>6 DEF ViewInv

LEMMA PollStep == ASSUME ViewInv, NEW c \in Chains, Poll(c) PROVE ViewInv'
<1> DEFINE h == chains[c].read
           r == h.id
<1>0. /\ UNCHANGED vars /\ selected' = selected
      /\ run \in [Runs -> States] /\ rows \in [Runs -> [1..Stages -> States]] /\ node \in [Runs -> States]
    BY DEF Poll, ReadRun, ReadStages, RequestFails, Show, Fire, Failed, panel, ViewInv, TypeOK
<1>1. Asking(c) => h \in Records /\ Agrees(h, chains[c].step) /\ r \in Runs
    BY DEF ViewInv, Records
<1>2. ASSUME Failed(c), chains[c].step = "sent" PROVE ViewInv'
  <2>1. detail' = detail /\ (Step(c, "timer", NoRun) \/ Step(c, "idle", NoRun))
      BY <1>2 DEF Failed
  <2> QED BY <1>0, <1>2, <2>1, ChainStep
<1>3. CASE ReadRun(c)
  <2> DEFINE g == [h EXCEPT !.run = run[r]]
  <2>1. chains[c].step = "sent" /\ r \in Runs /\ h \in Records
      BY <1>1, <1>3 DEF ReadRun, Asking
  <2>2. CASE Failed(c)
      BY <1>2, <2>1, <2>2
  <2>3. CASE Step(c, "run", g) /\ UNCHANGED panel
    <3>1. g \in Records /\ g.id = r /\ g.run = run[r]
        BY <1>0, <2>1 DEF Records
    <3>2. Agrees(g, "run")
        BY <3>1 DEF Agrees
    <3> HIDE DEF g
    <3> QED BY <1>0, <2>1, <2>3, <3>1, <3>2, ChainStep DEF panel
  <2> QED BY <1>3, <2>2, <2>3 DEF ReadRun
<1>4. CASE ReadStages(c)
  <2> DEFINE g == [h EXCEPT !.rows = rows[r]]
  <2>1. /\ chains[c].step = "run" /\ r \in Runs /\ h \in Records /\ Agrees(h, "run")
        /\ Step(c, "stages", g) /\ UNCHANGED panel
      BY <1>1, <1>4 DEF ReadStages, Asking
  <2>2. g \in Records /\ g.id = r /\ g.run = h.run /\ g.rows = rows[r]
      BY <1>0, <2>1 DEF Records
  <2>3. Agrees(g, "stages")
      BY <2>1, <2>2 DEF Agrees
  <2> HIDE DEF g
  <2> QED BY <1>0, <2>1, <2>2, <2>3, ChainStep DEF panel
<1>5. CASE RequestFails(c)
    BY <1>2, <1>5 DEF RequestFails
<1>6. CASE Show(c)
  <2>1. chains[c].step = "stages" /\ r \in Runs /\ h \in Records /\ Agrees(h, "stages")
      BY <1>1, <1>6 DEF Show, Asking
  <2>2. /\ Read(c) \in Records /\ Read(c).id = r /\ Read(c).run = h.run
        /\ Read(c).rows = h.rows /\ Read(c).node = node[r]
      BY <1>0, <2>1 DEF Read, Records
  <2>3. Whole(Read(c))
      BY <2>1, <2>2 DEF Agrees, Whole
  <2>4. detail' = Read(c) /\ (Step(c, "timer", NoRun) \/ Step(c, "idle", NoRun))
      BY <1>6 DEF Show
  <2> QED BY <1>0, <2>1, <2>2, <2>3, <2>4, ChainStep
<1>7. CASE Fire(c)
  <2>1. chains[c].step = "timer" /\ selected \in Runs /\ Step(c, "sent", Blank(selected)) /\ detail' = detail
      BY <1>7 DEF Fire, ViewInv
  <2>2. Blank(selected) \in Records /\ Blank(selected).run = "none"
      BY <2>1 DEF Blank, Records, States
  <2>3. Agrees(Blank(selected), "sent")
      BY <2>2 DEF Agrees, Ended
  <2> QED BY <1>0, <2>1, <2>2, <2>3, ChainStep
<1> QED BY <1>3, <1>4, <1>5, <1>6, <1>7 DEF Poll

LEMMA SelectStep == ASSUME ViewInv, NEW r \in Runs, Select(r) PROVE ViewInv'
<1>1. TypeOK' /\ Quiet' /\ UNCHANGED <<run, rows, node>>
    BY DEF Select, ViewInv, TypeOK, Quiet, vars, main, record
<1>2. Blank(r) \in Records /\ Blank(r).run = "none"
    BY DEF Blank, Records, States
<1>3. \A c \in Chains : \/ chains'[c] = [step |-> "sent", read |-> Blank(r)]
                        \/ chains'[c] = [step |-> "idle", read |-> NoRun]
                        \/ chains'[c] = chains[c]
    BY DEF Select, Idle
<1>4. chains' \in [Chains -> [step : {"idle", "sent", "run", "stages", "timer"}, read : Records \cup {NoRun}]]
    BY <1>2 DEF Select, Idle, ViewInv
<1>5. ASSUME NEW c \in Chains, Asking(c)'
      PROVE  (chains[c].read \in Records /\ Agrees(chains[c].read, chains[c].step))'
    BY <1>1, <1>2, <1>3, <1>5 DEF ViewInv, Asking, Agrees, Ended
<1>6. selected' \in Runs /\ detail' = NoRun
    BY DEF Select
<1> QED BY <1>1, <1>4, <1>5, <1>6 DEF ViewInv

\* What the panel shows of a run that has ended is all of its record: the
\* service reads the row of the run first, the asks write it last, and a closed
\* run is not written again.  So the panel may stop polling.
THEOREM EndedRunsShownWhole == ViewerSpec => []ShownWhole
<1>1. ViewInv => ShownWhole
    BY DEF ViewInv, Whole, Records, ShownWhole
<1>2. ViewInv /\ [ViewerNext]_allvars => ViewInv'
  <2> SUFFICES ASSUME ViewInv, [ViewerNext]_allvars PROVE ViewInv'
      OBVIOUS
  <2>1. CASE UNCHANGED allvars
      BY <2>1 DEF allvars, vars, viewer, main, record, ViewInv, TypeOK, Quiet, Asking, Agrees, Whole
  <2> QED BY <2>1, AsksKeepView, SelectStep, PollStep DEF ViewerNext
<1> QED BY <1>1, <1>2, ViewInit, PTL DEF ViewerSpec
=============================================================================
