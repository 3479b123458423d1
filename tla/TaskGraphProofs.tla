--------------------------- MODULE TaskGraphProofs ---------------------------
(***************************************************************************)
(* Proofs about TaskGraph.  The invariant is stated graph by graph (what a *)
(* place of the loop knows of its rows, executors and claims); a step      *)
(* moves one graph, and Untouched carries it over for the others.  Apart   *)
(* (the files) and Results (the chats) are what graphs share.              *)
(***************************************************************************)
EXTENDS TaskGraph, TLAPS

-----------------------------------------------------------------------------
(* The type invariant, in parts that few actions touch together.             *)

RowTypes ==
  /\ estado \in [Node -> Estado \union {"absent"}]
  /\ intentos \in [Node -> Nat] /\ maxIntentos \in [Node -> Nat]
  /\ deps \in [Node -> SUBSET Node] /\ padre \in [Node -> Node \union {Nobody}]
  /\ presupuesto \in [Node -> BOOLEAN]
  /\ chat \in [Node -> {"none", "open", "complete", "partial"}]
DataTypes ==
  /\ grafo \in [Graph -> {"activo", "hecho", "fallado", "cancelado"}]
  /\ verificacion \in [Graph -> [tipo : {"none", "pending", "done"},
                                 firma : SUBSET (Node \X Estado \X Nat)]]
ClaimTypes ==
  /\ claims \in [Node -> SUBSET File]
  /\ pregunta \in [Node -> {"none", "plan", "node", "answered", "superseded", "skipped"}]
  /\ parada \in [Graph -> BOOLEAN]
LoopTypes ==
  /\ loop \in [Graph -> Place] /\ only \in [Graph -> BOOLEAN]
  /\ vueltas \in [Graph -> Nat]
  /\ salida \in [Graph -> BOOLEAN] /\ cut \in [Graph -> BOOLEAN]
HandTypes ==
  /\ cand \in [Graph -> SUBSET (Node \X Nat)]
  /\ cur \in [Graph -> Node \union {Nobody}]
  /\ enCurso \in [Graph -> SUBSET Node] /\ hechas \in [Graph -> SUBSET Node]
RunTypes ==
  /\ run \in [Node -> {"none"} \union Unfinished \union Finished]
  /\ due \in SUBSET Node
  /\ starts \in [Node -> Nat] /\ lost \in [Node -> Nat] /\ effect \in SUBSET Node
UserTypes ==
  /\ cancelling \in [Graph -> {"no", "asked", "idle", "live"}]
  /\ answer \in [Graph -> (Node \X Choice) \union {<<>>}]
  /\ decisions \in Nat /\ stops \in Nat /\ crashes \in Nat

\* The parts together are the type invariant, before and after a step.
LEMMA TypeParts ==
  /\ TypeOK <=> /\ RowTypes /\ DataTypes /\ ClaimTypes /\ LoopTypes /\ HandTypes
                /\ RunTypes /\ UserTypes
  /\ TypeOK' <=> /\ RowTypes' /\ DataTypes' /\ ClaimTypes' /\ LoopTypes' /\ HandTypes'
                 /\ RunTypes' /\ UserTypes'
BY DEF TypeOK, RowTypes, DataTypes, ClaimTypes, LoopTypes, HandTypes, RunTypes, UserTypes

\* A membership is a Boolean: two of presupuesto's updates are conjunctions with one.
LEMMA MembershipType == \A c, d : (c \in d) \in BOOLEAN
OBVIOUS

\* The signature of the rows is a finite table of (row, state, attempts).
LEMMA SignatureType ==
  ASSUME RowTypes, NEW g \in Graph
  PROVE  Firma(g) \in SUBSET (Node \X Estado \X Nat)
BY DEF RowTypes, Firma, Rows

\* A step of the loop keeps the types; it asks of the invariant what it reads by `cur`.
LEMMA LoopStepTypes ==
  ASSUME TypeOK, NEW g \in Graph, LoopStep(g),
         loop[g] \in {"admit", "claim", "rollback", "settle"} => cur[g] \in Node,
         loop[g] = "rollback" => intentos[cur[g]] > 0,
         loop[g] = "verdict" => estado_del_grafo(g) \in {"hecho", "fallado"}
  PROVE  TypeOK'
<1> USE DEF rowVars, dataVars, loopVars, userVars, histVars, Goto
<1>0. /\ RowTypes /\ DataTypes /\ ClaimTypes /\ LoopTypes /\ HandTypes
      /\ RunTypes /\ UserTypes
  BY TypeParts
<1>1. CASE in_workspace(g) BY <1>1 DEF in_workspace, Place, Working, TypeOK
<1>2. CASE release_dead_claims(g) BY <1>2 DEF release_dead_claims, Place, Working, TypeOK
<1>3. CASE Round(g)
  <2>1. RowTypes' /\ DataTypes' /\ ClaimTypes' /\ RunTypes' /\ UserTypes'
    BY <1>0, <1>3 DEF Round, RowTypes, DataTypes, ClaimTypes, RunTypes, UserTypes
  <2>2. LoopTypes'
    BY <1>0, <1>3 DEF Round, LoopTypes, Place, Working
  <2>3. \A S \in elegibles(g) : {<<n, intentos[n]>> : n \in S} \in SUBSET (Node \X Nat)
    BY <1>0 DEF elegibles, listas, Rows, RowTypes
  <2>4. HandTypes'
    BY <1>0, <1>3, <2>3 DEF Round, HandTypes
  <2> QED BY <2>1, <2>2, <2>4, TypeParts
<1>4. CASE Pick(g)
  <2>1. RowTypes' /\ DataTypes' /\ ClaimTypes' /\ RunTypes' /\ UserTypes'
    BY <1>0, <1>4 DEF Pick, RowTypes, DataTypes, ClaimTypes, RunTypes, UserTypes
  <2>2. LoopTypes'
    BY <1>0, <1>4 DEF Pick, LoopTypes, Place, Working
  <2>3. \A c \in cand[g] : c[1] \in Node
    BY <1>0 DEF HandTypes
  <2>4. HandTypes'
    BY <1>0, <1>4, <2>3 DEF Pick, HandTypes
  <2> QED BY <2>1, <2>2, <2>4, TypeParts
<1>5. CASE NoMore(g) BY <1>5 DEF NoMore, Place, Working, TypeOK
<1>6. CASE Admit(g)
  <2>1. DataTypes' /\ ClaimTypes' /\ RunTypes' /\ UserTypes'
    BY <1>0, <1>6 DEF Admit, DataTypes, ClaimTypes, RunTypes, UserTypes
  <2>2. LoopTypes'
    BY <1>0, <1>6 DEF Admit, Leave, LoopTypes, Place, Working
  <2>3. HandTypes'
    BY <1>0, <1>6 DEF Admit, Leave, HandTypes
  <2>4. RowTypes'
    BY <1>0, <1>6 DEF Admit, Leave, RowTypes, Estado
  <2> QED BY <2>1, <2>2, <2>3, <2>4, TypeParts
<1>7. CASE Claim(g)
  <2>1. RowTypes' /\ DataTypes' /\ UserTypes'
    BY <1>0, <1>7 DEF Claim, RowTypes, DataTypes, UserTypes
  <2>2. LoopTypes'
    BY <1>0, <1>7 DEF Claim, Leave, LoopTypes, Place, Working
  <2>3. HandTypes'
    <3>1. CASE HandTypes /\ UNCHANGED <<cand, cur, enCurso, hechas>> BY <3>1 DEF HandTypes
    <3>2. CASE /\ cand' = [cand EXCEPT ![g] = {c \in @ : c[1] # cur[g]}]
               /\ cur' = [cur EXCEPT ![g] = Nobody]
               /\ enCurso' = [enCurso EXCEPT ![g] = @ \union {cur[g]}]
               /\ UNCHANGED hechas /\ cur[g] \in Node
      BY <1>0, <3>2 DEF HandTypes
    <3> QED BY <1>0, <1>7, <3>1, <3>2 DEF Claim, Leave
  <2>4. ClaimTypes' /\ RunTypes'
    BY <1>0, <1>7 DEF Claim, claim_task_files, ClaimTypes, RunTypes, File, Unfinished
  <2> QED BY <2>1, <2>2, <2>3, <2>4, TypeParts
<1>8. CASE ClaimCancelled(g)
  <2>1. RowTypes' /\ DataTypes' /\ HandTypes' /\ RunTypes' /\ UserTypes'
    BY <1>0, <1>8 DEF ClaimCancelled, RowTypes, DataTypes, HandTypes, RunTypes, UserTypes
  <2>2. LoopTypes'
    BY <1>0, <1>8 DEF ClaimCancelled, LoopTypes, Place, Working
  <2>3. ClaimTypes'
    BY <1>0, <1>8 DEF ClaimCancelled, claim_task_files, ClaimTypes, File
  <2> QED BY <2>1, <2>2, <2>3, TypeParts
<1>9. CASE rollback_task_admission(g)
  <2>1. DataTypes' /\ ClaimTypes' /\ RunTypes' /\ UserTypes'
    BY <1>0, <1>9 DEF rollback_task_admission, DataTypes, ClaimTypes, RunTypes, UserTypes
  <2>2. LoopTypes'
    BY <1>0, <1>9 DEF rollback_task_admission, Leave, LoopTypes, Place, Working
  <2>3. HandTypes'
    BY <1>0, <1>9 DEF rollback_task_admission, Leave, HandTypes
  <2>4. RowTypes'
    BY <1>0, <1>9 DEF rollback_task_admission, Leave, RowTypes, Estado
  <2> QED BY <2>1, <2>2, <2>3, <2>4, TypeParts
<1>10. CASE Wake(g) BY <1>10 DEF Wake, Place, Working, TypeOK
<1>11. CASE release_task_files(g) BY <1>11 DEF release_task_files, Place, Working, TypeOK
<1>12. CASE SettleWell(g)
  BY <1>12 DEF SettleWell, Closed, Become, AfterClose, Place, Working, Estado, TypeOK
<1>13. CASE SettleFailure(g)
  <2>1. DataTypes' /\ ClaimTypes' /\ UserTypes'
    BY <1>0, <1>13 DEF SettleFailure, DataTypes, ClaimTypes, UserTypes
  <2>2. LoopTypes'
    BY <1>0, <1>13 DEF SettleFailure, Closed, AfterClose, LoopTypes, Place, Working
  <2>3. HandTypes'
    BY <1>0, <1>13 DEF SettleFailure, Closed, HandTypes
  <2>4. RowTypes'
    <3>1. \A d \in Decisions(g) : d \in {"reintentar", "preguntar", "fallar"}
      BY DEF Decisions
    <3> QED BY <1>0, <1>13, <3>1 DEF SettleFailure, RowTypes, Estado
  <2>5. RunTypes'
    <3>1. due' \in SUBSET Node
      BY <1>0, <1>13 DEF SettleFailure, RunTypes, Finished
    <3>2. run' \in [Node -> {"none"} \union Unfinished \union Finished]
      BY <1>0, <1>13 DEF SettleFailure, RunTypes, Closed, Become
    <3> QED BY <1>0, <1>13, <3>1, <3>2 DEF SettleFailure, RunTypes
  <2> QED BY <2>1, <2>2, <2>3, <2>4, <2>5, TypeParts
<1>14. CASE Block(g)
  BY <1>14 DEF Block, Closed, Become, AfterClose, Place, Working, Estado, TypeOK
<1>15. CASE End(g)
  <2>1. RowTypes' /\ ClaimTypes' /\ HandTypes' /\ RunTypes' /\ UserTypes'
    BY <1>0, <1>15 DEF End, RowTypes, ClaimTypes, HandTypes, RunTypes, UserTypes
  <2>2. LoopTypes'
    BY <1>0, <1>15 DEF End, LoopTypes, Place, Working
  <2>3. DataTypes'
    BY <1>0, <1>15, SignatureType DEF End, DataTypes, Pending
  <2> QED BY <2>1, <2>2, <2>3, TypeParts
<1>16. CASE Verdict(g)
  <2>1. RowTypes' /\ ClaimTypes' /\ HandTypes' /\ RunTypes' /\ UserTypes'
    BY <1>0, <1>16 DEF Verdict, RowTypes, ClaimTypes, HandTypes, RunTypes, UserTypes
  <2>2. LoopTypes'
    BY <1>0, <1>16 DEF Verdict, LoopTypes, Place, Working
  <2>4. verificacion' \in [Graph -> [tipo : {"none", "pending", "done"},
                                     firma : SUBSET (Node \X Estado \X Nat)]]
    BY <1>0, <1>16 DEF Verdict, DataTypes, Record
  <2>5. grafo' \in [Graph -> {"activo", "hecho", "fallado", "cancelado"}]
    BY <1>0, <1>16 DEF Verdict, DataTypes, Unless
  <2> QED BY <2>1, <2>2, <2>4, <2>5, TypeParts DEF DataTypes
<1>17. CASE Continue(g)
  <2>1. ClaimTypes' /\ HandTypes' /\ RunTypes' /\ UserTypes'
    BY <1>0, <1>17 DEF Continue, ClaimTypes, HandTypes, RunTypes, UserTypes
  <2>2. LoopTypes'
    BY <1>0, <1>17 DEF Continue, LoopTypes, Place, Working
  <2>3. DataTypes'
    BY <1>0, <1>17 DEF Continue, DataTypes, Record
  <2>4. RowTypes'
    BY <1>0, <1>17 DEF Continue, RowTypes, Estado
  <2> QED BY <2>1, <2>2, <2>3, <2>4, TypeParts
<1>18. CASE CloseOnly(g)
  <2>1. RowTypes' /\ ClaimTypes' /\ HandTypes' /\ RunTypes' /\ UserTypes'
    BY <1>0, <1>18 DEF CloseOnly, RowTypes, ClaimTypes, HandTypes, RunTypes, UserTypes
  <2>2. LoopTypes'
    BY <1>0, <1>18 DEF CloseOnly, LoopTypes, Place, Working
  <2>3. DataTypes'
    BY <1>0, <1>18, SignatureType DEF CloseOnly, DataTypes, Pending
  <2> QED BY <2>1, <2>2, <2>3, TypeParts
<1>19. CASE OnlyStopped(g) BY <1>19 DEF OnlyStopped, Place, Working, TypeOK
<1>20. CASE Unwind(g) BY <1>20 DEF Unwind, Place, Working, TypeOK
<1>21. CASE Cut(g) BY <1>21 DEF Cut, Place, Working, Unfinished, Finished, TypeOK
<1>22. CASE Last(g) BY <1>22 DEF Last, Place, Working, TypeOK
<1> QED BY <1>1, <1>2, <1>3, <1>4, <1>5, <1>6, <1>7, <1>8, <1>9, <1>10, <1>11, <1>12, <1>13,
           <1>14, <1>15, <1>16, <1>17, <1>18, <1>19, <1>20, <1>21, <1>22 DEF LoopStep

\* So does every other step.
LEMMA OtherStepTypes ==
  ASSUME TypeOK, Next, \A g \in Graph : ~LoopStep(g)
  PROVE  TypeOK'
<1> USE DEF rowVars, dataVars, loopVars, userVars, histVars, Goto
<1>0. /\ RowTypes /\ DataTypes /\ ClaimTypes /\ LoopTypes /\ HandTypes
      /\ RunTypes /\ UserTypes
  BY TypeParts
<1>1. ASSUME NEW g \in Graph, Booted(g) PROVE TypeOK'
  BY <1>1 DEF Booted, Place, TypeOK
<1>2. ASSUME NEW g \in Graph, NEW n \in Node, sanar(g, n) PROVE TypeOK'
  BY <1>2 DEF sanar, Estado, TypeOK
<1>3. ASSUME NEW n \in Node, NodeStep(n) PROVE TypeOK'
  <2>1. CASE Prepare(n) BY <2>1 DEF Prepare, Become, TypeOK, Unfinished
  <2>2. CASE Break(n) BY <2>2 DEF Break, Become, TypeOK, Finished
  <2>3. CASE AskHuman(n) BY <2>3 DEF AskHuman, Become, Asks, TypeOK, Unfinished
  <2>4. CASE Finish(n)
    <3>1. PICK k \in Outcomes \ {"broken"} :
            /\ run' = [run EXCEPT ![n] = k]
            /\ chat' = [chat EXCEPT ![n] = IF k = "ok" THEN "complete" ELSE "partial"]
      BY <2>4 DEF Finish, Become
    <3>2. k \in Finished BY OutcomesAssumption DEF Finished
    <3> QED BY <2>4, <3>1, <3>2 DEF Finish, TypeOK
  <2>5. CASE Split(n) BY <2>5 DEF Split, Become, TypeOK, Unfinished, Estado, Node
  <2> QED BY <1>3, <2>1, <2>2, <2>3, <2>4, <2>5 DEF NodeStep
<1>4. ASSUME NEW n \in Node, preguntar_por_la_tarea(n) PROVE TypeOK'
  BY <1>4 DEF preguntar_por_la_tarea, Asks, TypeOK
<1>5. ASSUME NEW g \in Graph, HandlerStep(g) PROVE TypeOK'
  <2>1. CASE prepare_graph_resume(g)
    <3>1. UNCHANGED <<intentos, deps, padre, chat, verificacion, claims, pregunta, parada,
                      vueltas, cand, cur, enCurso, hechas, salida, cut, userVars, starts, lost,
                      run, due>>
      BY <2>1 DEF prepare_graph_resume
    <3>2. Grant(g) \/ UNCHANGED <<estado, maxIntentos, presupuesto, effect>>
      BY <2>1 DEF prepare_graph_resume
    <3>3. /\ grafo' = grafo \/ grafo' = [grafo EXCEPT ![g] = "activo"]
          /\ \E place \in {"off", "start"} : loop' = [loop EXCEPT ![g] = place]
          /\ only' = only \/ \E b \in BOOLEAN : only' = [only EXCEPT ![g] = b]
      <4> DEFINE closing == verification_pending(g) \/ metadata_close_pending(g)
      <4>1. closing \in BOOLEAN
        BY DEF verification_pending, metadata_close_pending
      <4> HIDE DEF closing
      <4> QED BY <2>1, <4>1 DEF prepare_graph_resume, closing
    <3>4. RowTypes' /\ effect' \in SUBSET Node
      <4>1. CASE UNCHANGED <<estado, maxIntentos, presupuesto, effect>>
        BY <1>0, <3>1, <4>1 DEF RowTypes, RunTypes
      <4>2. CASE Grant(g)
        <5> DEFINE R == Reopened(g)
        <5> HIDE DEF R
        <5>1. /\ estado' = estado \/ estado' = [n \in Node |-> IF n \in R THEN "pendiente" ELSE estado[n]]
              /\ maxIntentos' = maxIntentos \/ maxIntentos' =
                   [n \in Node |-> IF n \in R /\ maxIntentos[n] <= intentos[n]
                                   THEN intentos[n] + 1 ELSE maxIntentos[n]]
              /\ presupuesto' = presupuesto
                   \/ presupuesto' = [n \in Node |-> presupuesto[n] /\ n \notin R]
              /\ effect' = effect \/ effect' = effect \ R
          BY <4>2, Zenon DEF Grant, R
        <5>2. presupuesto' \in [Node -> BOOLEAN]
          BY <1>0, <5>1, Zenon DEF RowTypes
        <5>3. estado' \in [Node -> Estado \union {"absent"}]
          BY <1>0, <5>1 DEF RowTypes, Estado
        <5>4. maxIntentos' \in [Node -> Nat]
          BY <1>0, <5>1 DEF RowTypes
        <5> QED BY <1>0, <3>1, <5>1, <5>2, <5>3, <5>4 DEF RowTypes, RunTypes
      <4> QED BY <3>2, <4>1, <4>2
    <3>5. DataTypes' /\ ClaimTypes' /\ HandTypes' /\ RunTypes' /\ UserTypes'
      BY <1>0, <3>1, <3>3, <3>4 DEF DataTypes, ClaimTypes, HandTypes, RunTypes, UserTypes
    <3>6. LoopTypes'
      BY <1>0, <3>1, <3>3 DEF LoopTypes, Place, Working
    <3> QED BY <3>4, <3>5, <3>6, TypeParts
  <2>2. CASE retomar_grafo_tras_respuesta(g)
    <3>1. answer[g] # <<>> /\ answer[g] \in Node \X Choice
      BY <1>0, <2>2 DEF retomar_grafo_tras_respuesta, UserTypes
    <3>2. PICK n \in Node, choice \in Choice : answer[g][1] = n /\ answer[g][2] = choice
      BY <3>1
    <3>3. UNCHANGED <<intentos, deps, padre, chat, verificacion, claims, pregunta, parada, only,
                      vueltas, cand, cur, enCurso, hechas, salida, decisions, stops, crashes,
                      starts, lost, run, due>>
      BY <2>2 DEF retomar_grafo_tras_respuesta
    <3>4. Apply(n, choice) \/ UNCHANGED <<estado, maxIntentos, presupuesto, effect>>
      BY <2>2, <3>2 DEF retomar_grafo_tras_respuesta
    <3>5. /\ grafo' = grafo \/ grafo' = [grafo EXCEPT ![g] = "activo"]
          /\ loop' = loop \/ loop' = [loop EXCEPT ![g] = "start"]
          /\ answer' = answer \/ answer' = [answer EXCEPT ![g] = <<>>]
          /\ Interrupt(g) \/ UNCHANGED <<cut, cancelling>>
      BY <2>2 DEF retomar_grafo_tras_respuesta
    <3>6. RowTypes' /\ effect' \in SUBSET Node
      <4>1. CASE UNCHANGED <<estado, maxIntentos, presupuesto, effect>>
        BY <1>0, <3>3, <4>1 DEF RowTypes, RunTypes
      <4>2. CASE Apply(n, choice)
        BY <1>0, <3>3, <4>2 DEF Apply, RowTypes, RunTypes, Estado
      <4> QED BY <3>4, <4>1, <4>2
    <3>7. cut' \in [Graph -> BOOLEAN] /\ cancelling' \in [Graph -> {"no", "asked", "idle", "live"}]
      <4>1. Live(g) \in BOOLEAN BY MembershipType, Zenon DEF Live
      <4>2. CASE UNCHANGED <<cut, cancelling>> BY <1>0, <4>2 DEF LoopTypes, UserTypes
      <4>3. CASE Interrupt(g)
        <5>1. cut' \in [Graph -> BOOLEAN]
          BY <1>0, <4>1, <4>3 DEF Interrupt, LoopTypes
        <5>2. cancelling' \in [Graph -> {"no", "asked", "idle", "live"}]
          BY <1>0, <4>3 DEF Interrupt, UserTypes
        <5> QED BY <5>1, <5>2
      <4> QED BY <3>5, <4>2, <4>3
    <3>8. DataTypes' /\ ClaimTypes' /\ LoopTypes' /\ HandTypes' /\ RunTypes'
      BY <1>0, <3>3, <3>5, <3>6, <3>7
         DEF DataTypes, ClaimTypes, LoopTypes, HandTypes, RunTypes, Place, Working
    <3>9. UserTypes'
      BY <1>0, <3>3, <3>5, <3>7 DEF UserTypes
    <3> QED BY <3>6, <3>8, <3>9, TypeParts
  <2>3. CASE FinishCancel(g) BY <2>3 DEF FinishCancel, Interrupt, TypeOK, Live, Working
  <2>4. CASE CancelDone(g)
    BY <2>4, SignatureType, TypeParts DEF CancelDone, Pending, TypeOK
  <2> QED BY <1>5, <2>1, <2>2, <2>3, <2>4 DEF HandlerStep
<1>6. CASE PersonStep
  <2>1. ASSUME NEW g \in Graph, Resume(g) PROVE TypeOK'
    BY <2>1 DEF Resume, Decide, Place, Working, TypeOK
  <2>2. ASSUME NEW g \in Graph, Pause(g) PROVE TypeOK'
    BY <2>2 DEF Pause, Stop, TypeOK
  <2>3. ASSUME NEW g \in Graph, Unpause(g) PROVE TypeOK'
    BY <2>3 DEF Unpause, TypeOK
  <2>4. ASSUME NEW g \in Graph, graphs_cancel(g) PROVE TypeOK'
    BY <2>4 DEF graphs_cancel, Stop, TypeOK
  <2>5. ASSUME NEW n \in Node, skip_expert_question(n) PROVE TypeOK'
    BY <2>5 DEF skip_expert_question, Decide, TypeOK
  <2>6. ASSUME NEW n \in Node, NEW choice \in Choice, Answer(n, choice) PROVE TypeOK'
    <3>0. <<n, choice>> \in Node \X Choice OBVIOUS
    <3>a. answer' \in [Graph -> (Node \X Choice) \union {<<>>}]
      BY <1>0, <2>6, <3>0 DEF Answer, UserTypes
    <3>1. UserTypes' /\ ClaimTypes'
      BY <1>0, <2>6, <3>a DEF Answer, Decide, UserTypes, ClaimTypes
    <3>2. RowTypes' /\ DataTypes' /\ LoopTypes' /\ HandTypes' /\ RunTypes'
      BY <1>0, <2>6 DEF Answer, RowTypes, DataTypes, LoopTypes, HandTypes, RunTypes
    <3> QED BY <3>1, <3>2, TypeParts
  <2> QED BY <1>6, <2>1, <2>2, <2>3, <2>4, <2>5, <2>6 DEF PersonStep
<1>7. CASE Crash
  BY <1>7 DEF Crash, Place, TypeOK
<1> QED BY <1>1, <1>2, <1>3, <1>4, <1>5, <1>6, <1>7 DEF Next, RepairStep
-----------------------------------------------------------------------------
(* The inductive invariant, graph by graph.                                  *)

Of(g) == {n \in Node : GraphOf[n] = g}
Done(n) == \A d \in deps[n] : estado[d] = "hecho"

\* The node whose attempt is charged and whose execution has not begun.
Hand(g) == IF loop[g] \in {"claim", "rollback"} THEN {cur[g]} ELSE {}

\* Places where a loop has no node in flight.
Resting == {"boot", "off", "resume", "start", "heal", "only", "verdict", "last"}

\* The nodes in flight are those with an executor, and a row runs for one of them or for the
\* node in hand.
Crew(g) ==
  /\ enCurso[g] = {n \in Of(g) : run[n] # "none"}
  /\ \A n \in enCurso[g] : estado[n] = "corriendo" \/ (loop[g] = "block" /\ n = cur[g])
  /\ loop[g] # "boot" =>
       \A n \in Of(g) : estado[n] = "corriendo" => n \in enCurso[g] \union Hand(g)
  /\ loop[g] \in Resting => enCurso[g] = {}

\* What each place of the loop knows of the node in hand and of the batch to close.
Grip(g) ==
  /\ hechas[g] \subseteq enCurso[g]
  /\ salida[g] => hechas[g] = enCurso[g] /\ loop[g] \in {"close", "settle", "block", "last"}
  /\ loop[g] \in {"settle", "block"} =>
       cur[g] \in hechas[g] /\ run[cur[g]] \in Finished /\ claims[cur[g]] = {}
  /\ loop[g] = "block" => estado[cur[g]] = "fallado"
  /\ loop[g] \in {"admit", "claim", "rollback"} => cur[g] \in Of(g)
  /\ loop[g] \in {"claim", "rollback"} => run[cur[g]] = "none" /\ estado[cur[g]] = "corriendo"

\* Only a row that runs has files, and a node at work has all it declared.
Holds(g) ==
  \A n \in Of(g) :
    /\ claims[n] # {} => estado[n] = "corriendo"
    /\ run[n] \in Unfinished => Files[n] \subseteq claims[n]

\* The order of the plan, whatever the splits have made of it.
Ordered(g) ==
  \A n \in Of(g) :
    /\ deps[n] \subseteq Of(g)
    /\ estado[n] \in {"corriendo", "hecho"} => Done(n)
    /\ padre[n] # Nobody => padre[n] \in Of(g) /\ Done(padre[n])
    /\ estado[n] = "bloqueado" => \E d \in deps[n] : estado[d] \in {"fallado", "bloqueado"}

\* A candidate of a round is still ready when its turn comes.
Ready(g) == \A c \in cand[g] : c[1] \in Of(g) /\ estado[c[1]] # "absent" /\ Done(c[1])

\* What a graph that was closed keeps, and what a verification under way is about.
Closing(g) ==
  /\ grafo[g] # "activo" => loop[g] \in {"off", "resume", "cut", "last"} /\ enCurso[g] = {}
  /\ grafo[g] = "hecho" =>
       TodoHecho(g) /\ (Verifier => verificacion[g] = [tipo |-> "done", firma |-> Firma(g)])
  /\ loop[g] = "verdict" =>
       /\ Verifier /\ verificacion[g] = Pending(g)
       /\ estado_del_grafo(g) \in {"hecho", "fallado"}
  /\ only[g] => loop[g] \in {"start", "only", "verdict", "cut", "last"} /\ enCurso[g] = {}

\* Nobody is served before the boot of a graph is over.
Attended(g) ==
  /\ cancelling[g] # "no" => loop[g] # "boot"
  /\ answer[g] # <<>> => loop[g] # "boot" /\ answer[g][1] \in Of(g)

Paid(g) ==
  \A n \in Of(g) :
    /\ intentos[n] = starts[n] + lost[n] + (IF n \in Hand(g) THEN 1 ELSE 0)
    /\ intentos[n] <= maxIntentos[n]

\* A node that acted and may not repeat is neither to run nor in hand.
Spent(g) ==
  \A n \in Of(g) : n \in effect \ Idempotent =>
    estado[n] \notin {"pendiente", "absent"} /\ n \notin Hand(g)

\* A pause waits for the admission that began before it.
Unpaused(g) == loop[g] \in {"admit", "claim", "rollback"} => ~parada[g]

GraphInv(g) ==
  /\ Crew(g) /\ Grip(g) /\ Holds(g) /\ Ordered(g) /\ Ready(g) /\ Closing(g) /\ Attended(g)
  /\ Paid(g) /\ Spent(g) /\ Unpaused(g)

\* No file has two owners, in one graph or in two.
Apart == \A m, n \in Node : m # n => claims[m] \intersect claims[n] = {}

\* A complete result belongs to a row that is done, or to one that runs and will be.
Results ==
  \A n \in Node : chat[n] = "complete" =>
    /\ estado[n] \in {"corriendo", "hecho"} /\ run[n] \in {"none", "ok"} /\ ~InHand(n)

Inv == Apart /\ \A g \in Graph : GraphInv(g)
IInv == TypeOK /\ Inv /\ Results

-----------------------------------------------------------------------------
(* Frames: what a step leaves as it was.                                     *)

SameRows(g) ==
  \A n \in Of(g) : /\ estado'[n] = estado[n] /\ intentos'[n] = intentos[n]
                   /\ maxIntentos'[n] = maxIntentos[n]
                   /\ deps'[n] = deps[n] /\ padre'[n] = padre[n]
SameRuns(g) ==
  \A n \in Of(g) : /\ run'[n] = run[n] /\ claims'[n] = claims[n]
                   /\ starts'[n] = starts[n] /\ lost'[n] = lost[n]
                   /\ n \in effect' <=> n \in effect
SameLoop(g) ==
  /\ loop'[g] = loop[g] /\ only'[g] = only[g] /\ cand'[g] = cand[g] /\ cur'[g] = cur[g]
  /\ enCurso'[g] = enCurso[g] /\ hechas'[g] = hechas[g] /\ salida'[g] = salida[g]
SameData(g) ==
  /\ grafo'[g] = grafo[g] /\ verificacion'[g] = verificacion[g] /\ parada'[g] = parada[g]
SameUser(g) == cancelling'[g] = cancelling[g] /\ answer'[g] = answer[g]

Same(g) == SameRows(g) /\ SameRuns(g) /\ SameLoop(g) /\ SameData(g) /\ SameUser(g)

\* Rows of a graph are nodes of it.
LEMMA OfType == \A g \in Graph : Of(g) \subseteq Node /\ Rows(g) \subseteq Of(g)
BY DEF Of, Rows

\* Rows that stay as they are read the same.
LEMMA SameRowsRead ==
  ASSUME NEW g \in Graph, Ordered(g), SameRows(g)
  PROVE  /\ Rows(g)' = Rows(g) /\ Firma(g)' = Firma(g)
         /\ sustituidos(g)' = sustituidos(g) /\ listas(g)' = listas(g)
         /\ TodoHecho(g)' <=> TodoHecho(g)
         /\ estado_del_grafo(g)' = estado_del_grafo(g)
         /\ Pending(g)' = Pending(g)
         /\ \A n \in Of(g) : Done(n)' <=> Done(n)
<1>1. Rows(g)' = Rows(g)
  BY DEF SameRows, Rows, Of
<1>2. \A n \in Rows(g) : n \in Of(g)
  BY DEF Rows, Of
<1>3. Firma(g)' = Firma(g)
  BY <1>1, <1>2 DEF Firma, SameRows
<1>4. sustituidos(g)' = sustituidos(g)
  BY <1>1, <1>2 DEF sustituidos, SameRows
<1>5. Operativos(g)' = Operativos(g)
  BY <1>1, <1>4 DEF Operativos
<1>6. \A n \in Operativos(g) : estado'[n] = estado[n]
  BY <1>2 DEF Operativos, SameRows
<1>7. TodoHecho(g)' <=> TodoHecho(g)
  BY <1>5, <1>6 DEF TodoHecho
<1>8. \A n \in Of(g) : Done(n)' <=> Done(n)
  BY DEF Done, SameRows, Ordered
<1>9. listas(g)' = listas(g)
  <2>1. \A n \in Rows(g) : \A d \in deps[n] : estado'[d] = estado[d]
    BY <1>2 DEF SameRows, Ordered
  <2> QED BY <1>1, <1>2, <2>1 DEF listas, Agotada, SameRows
<1>10. \A S : {n \in Operativos(g)' : estado'[n] \in S} = {n \in Operativos(g) : estado[n] \in S}
  BY <1>5, <1>6
<1>11. estado_del_grafo(g)' = estado_del_grafo(g)
  BY <1>5, <1>9, <1>10 DEF estado_del_grafo
<1> QED BY <1>1, <1>3, <1>4, <1>7, <1>8, <1>9, <1>11 DEF Pending

\* Rows and executors that stay as they are keep what is said of them alone.
LEMMA Still ==
  ASSUME NEW g \in Graph, GraphInv(g), SameRows(g), SameRuns(g), Hand(g)' = Hand(g)
  PROVE  Holds(g)' /\ Ordered(g)' /\ Paid(g)' /\ Spent(g)'
<1>0. Holds(g) /\ Ordered(g) /\ Paid(g) /\ Spent(g) BY DEF GraphInv
<1>1. Of(g)' = Of(g) BY DEF Of
<1>2. Holds(g)' BY <1>0, <1>1 DEF Holds, SameRows, SameRuns
<1>3. Ordered(g)'
  <2>1. \A n \in Of(g) : Done(n)' <=> Done(n) BY <1>0, SameRowsRead
  <2> QED BY <1>0, <1>1, <2>1 DEF Ordered, SameRows
<1>4. Paid(g)' BY <1>0, <1>1 DEF Paid, SameRows, SameRuns
<1>5. Spent(g)' BY <1>0, <1>1 DEF Spent, SameRows, SameRuns
<1> QED BY <1>2, <1>3, <1>4, <1>5

\* Candidates that a step leaves, or drops, are as ready as they were.
LEMMA SameReady ==
  ASSUME NEW g \in Graph, GraphInv(g), SameRows(g), cand'[g] \subseteq cand[g]
  PROVE  Ready(g)'
<1>1. \A n \in Of(g) : Done(n)' <=> Done(n) BY SameRowsRead DEF GraphInv
<1> QED BY <1>1 DEF GraphInv, Ready, SameRows, Of

\* A graph that a step does not touch keeps its invariant.
LEMMA Untouched ==
  ASSUME NEW g \in Graph, GraphInv(g), Same(g)
  PROVE  GraphInv(g)'
<1>0. /\ SameRows(g) /\ SameRuns(g) /\ SameLoop(g) /\ SameData(g) /\ SameUser(g)
      /\ Crew(g) /\ Grip(g) /\ Ordered(g) /\ Closing(g) /\ Attended(g) /\ Unpaused(g)
  BY DEF GraphInv, Same
<1>1. Of(g)' = Of(g) BY DEF Of
<1>2. Hand(g)' = Hand(g) BY <1>0 DEF Hand, SameLoop
<1>3. Holds(g)' /\ Ordered(g)' /\ Paid(g)' /\ Spent(g)' BY <1>0, <1>2, Still
<1>4. Ready(g)' BY <1>0, SameReady DEF SameLoop
<1>5. Crew(g)' BY <1>0, <1>1, <1>2 DEF Crew, SameLoop, SameRows, SameRuns
<1>6. Grip(g)'
  <2>1. loop[g] \in {"settle", "block", "admit", "claim", "rollback"} => cur[g] \in Of(g)
    BY <1>0 DEF Grip, Crew
  <2> QED BY <1>0, <1>1, <2>1 DEF Grip, SameLoop, SameRows, SameRuns
<1>7. Closing(g)' BY <1>0, SameRowsRead DEF Closing, SameLoop, SameData
<1>8. Attended(g)' BY <1>0, <1>1 DEF Attended, SameLoop, SameUser
<1>9. Unpaused(g)' BY <1>0 DEF Unpaused, SameLoop, SameData
<1> QED BY <1>3, <1>4, <1>5, <1>6, <1>7, <1>8, <1>9 DEF GraphInv

\* A step that leaves rows, files and executors alone owes only what it says of its own loop.
FixedRows == UNCHANGED <<estado, intentos, maxIntentos, deps, padre>>
FixedRuns == UNCHANGED <<run, claims, starts, lost, effect>>
Elsewhere(g) == \A h \in Graph \ {g} : SameLoop(h) /\ SameData(h) /\ SameUser(h)

\* ... and then the whole invariant holds.
LEMMA Quiet ==
  ASSUME Inv, NEW g \in Graph, FixedRows, FixedRuns, Elsewhere(g), Hand(g)' = Hand(g),
         Crew(g)', Grip(g)', Ready(g)', Closing(g)', Attended(g)', Unpaused(g)'
  PROVE  Inv'
<1>1. \A h \in Graph : SameRows(h) /\ SameRuns(h)
  BY DEF FixedRows, FixedRuns, SameRows, SameRuns
<1>2. \A h \in Graph : GraphInv(h) BY DEF Inv
<1>3. Apart' BY DEF Inv, Apart, FixedRuns
<1>4. GraphInv(g)' BY <1>1, <1>2, Still DEF GraphInv
<1>5. ASSUME NEW h \in Graph, h # g PROVE GraphInv(h)'
  BY <1>1, <1>2, <1>5, Untouched DEF Same, Elsewhere
<1> QED BY <1>3, <1>4, <1>5 DEF Inv

\* Steps that only move the loop, the pause or the cancellation of one graph.
LEMMA RestingMoves ==
  ASSUME TypeOK, Inv, NEW g \in Graph,
         \/ in_workspace(g) \/ Booted(g) \/ Resume(g) \/ Last(g) \/ Pause(g) \/ Unpause(g)
         \/ graphs_cancel(g) \/ FinishCancel(g) \/ CancelDone(g)
  PROVE  Inv'
<1>0. /\ LoopTypes /\ HandTypes /\ GraphInv(g) /\ UserTypes /\ DataTypes /\ ClaimTypes
  BY TypeParts DEF Inv
<1>1. Crew(g) /\ Grip(g) /\ Ready(g) /\ Closing(g) /\ Attended(g) /\ Unpaused(g) /\ Ordered(g)
  BY <1>0 DEF GraphInv
<1>2. Of(g)' = Of(g) BY DEF Of
<1> USE DEF rowVars, dataVars, loopVars, userVars, histVars, Goto
<1>3. CASE in_workspace(g)
  <2>1. /\ loop[g] = "start" /\ loop'[g] \in {"last", "only", "heal"}
        /\ (loop'[g] = "only" => only[g]) /\ (loop'[g] = "heal" => ~only[g])
        /\ UNCHANGED <<only, cand, cur, enCurso, hechas, salida, grafo, verificacion, parada,
                       cancelling, answer>>
        /\ FixedRows /\ FixedRuns /\ Elsewhere(g)
    BY <1>0, <1>3 DEF in_workspace, LoopTypes, HandTypes, UserTypes, DataTypes, ClaimTypes,
           FixedRows, FixedRuns, Elsewhere, SameLoop, SameData, SameUser
  <2>2. Hand(g)' = Hand(g) BY <2>1 DEF Hand
  <2>3. Crew(g)' /\ Grip(g)'
    BY <1>0, <1>1, <1>2, <2>1, <2>2 DEF Crew, Grip, FixedRows, FixedRuns, Resting
  <2>4. Ready(g)' BY <1>0, <2>1, SameReady DEF FixedRows, SameRows
  <2>5. Closing(g)' BY <1>0, <1>1, <2>1, SameRowsRead DEF FixedRows, SameRows, Closing
  <2>6. Attended(g)' /\ Unpaused(g)' BY <1>1, <1>2, <2>1 DEF Attended, Unpaused
  <2> QED BY <2>1, <2>2, <2>3, <2>4, <2>5, <2>6, Quiet
<1>4. CASE Booted(g)
  <2>1. /\ loop[g] = "boot" /\ loop'[g] = "off" /\ Healable(g) = {}
        /\ UNCHANGED <<only, cand, cur, enCurso, hechas, salida, grafo, verificacion, parada,
                       cancelling, answer>>
        /\ FixedRows /\ FixedRuns /\ Elsewhere(g)
    BY <1>0, <1>4 DEF Booted, LoopTypes, HandTypes, UserTypes, DataTypes, ClaimTypes,
           FixedRows, FixedRuns, Elsewhere, SameLoop, SameData, SameUser
  <2>2. Hand(g)' = Hand(g) BY <2>1 DEF Hand
  <2>3. Crew(g)' /\ Grip(g)'
    BY <1>0, <1>1, <1>2, <2>1, <2>2 DEF Crew, Grip, FixedRows, FixedRuns, Resting, Healable,
           Rows, Of
  <2>4. Ready(g)' BY <1>0, <2>1, SameReady DEF FixedRows, SameRows
  <2>5. Closing(g)' BY <1>0, <1>1, <2>1, SameRowsRead DEF FixedRows, SameRows, Closing
  <2>6. Attended(g)' /\ Unpaused(g)' BY <1>1, <1>2, <2>1 DEF Attended, Unpaused
  <2> QED BY <2>1, <2>2, <2>3, <2>4, <2>5, <2>6, Quiet
<1>5. CASE Resume(g)
  <2>1. /\ loop[g] = "off" /\ loop'[g] = "resume"
        /\ UNCHANGED <<only, cand, cur, enCurso, hechas, salida, grafo, verificacion, parada,
                       cancelling, answer>>
        /\ FixedRows /\ FixedRuns /\ Elsewhere(g)
    BY <1>0, <1>5 DEF Resume, Decide, LoopTypes, HandTypes, UserTypes, DataTypes, ClaimTypes,
           FixedRows, FixedRuns, Elsewhere, SameLoop, SameData, SameUser
  <2>2. Hand(g)' = Hand(g) BY <2>1 DEF Hand
  <2>3. Crew(g)' /\ Grip(g)'
    BY <1>0, <1>1, <1>2, <2>1, <2>2 DEF Crew, Grip, FixedRows, FixedRuns, Resting
  <2>4. Ready(g)' BY <1>0, <2>1, SameReady DEF FixedRows, SameRows
  <2>5. Closing(g)' BY <1>0, <1>1, <2>1, SameRowsRead DEF FixedRows, SameRows, Closing
  <2>6. Attended(g)' /\ Unpaused(g)' BY <1>1, <1>2, <2>1 DEF Attended, Unpaused
  <2> QED BY <2>1, <2>2, <2>3, <2>4, <2>5, <2>6, Quiet
<1>6. CASE Last(g)
  <2>1. /\ loop[g] = "last" /\ loop'[g] = "off" /\ ~only'[g] /\ ~salida'[g]
        /\ UNCHANGED <<cand, cur, enCurso, hechas, grafo, verificacion, parada, cancelling,
                       answer>>
        /\ FixedRows /\ FixedRuns /\ Elsewhere(g)
    BY <1>0, <1>6 DEF Last, LoopTypes, HandTypes, UserTypes, DataTypes, ClaimTypes, FixedRows,
           FixedRuns, Elsewhere, SameLoop, SameData, SameUser
  <2>2. Hand(g)' = Hand(g) BY <2>1 DEF Hand
  <2>3. Crew(g)' /\ Grip(g)'
    BY <1>0, <1>1, <1>2, <2>1, <2>2 DEF Crew, Grip, FixedRows, FixedRuns, Resting
  <2>4. Ready(g)' BY <1>0, <2>1, SameReady DEF FixedRows, SameRows
  <2>5. Closing(g)' BY <1>0, <1>1, <2>1, SameRowsRead DEF FixedRows, SameRows, Closing
  <2>6. Attended(g)' /\ Unpaused(g)' BY <1>1, <1>2, <2>1 DEF Attended, Unpaused
  <2> QED BY <2>1, <2>2, <2>3, <2>4, <2>5, <2>6, Quiet
<1>7. CASE Pause(g)
  <2>1. /\ loop[g] \notin {"admit", "claim", "rollback"}
        /\ UNCHANGED <<loop, only, cand, cur, enCurso, hechas, salida, grafo, verificacion,
                       cancelling, answer>>
        /\ FixedRows /\ FixedRuns /\ Elsewhere(g)
    BY <1>0, <1>7 DEF Pause, Stop, ControlFree, LoopTypes, HandTypes, UserTypes, DataTypes,
           ClaimTypes, FixedRows, FixedRuns, Elsewhere, SameLoop, SameData, SameUser
  <2>2. Hand(g)' = Hand(g) BY <2>1 DEF Hand
  <2>3. Crew(g)' /\ Grip(g)'
    BY <1>0, <1>1, <1>2, <2>1, <2>2 DEF Crew, Grip, FixedRows, FixedRuns, Resting
  <2>4. Ready(g)' BY <1>0, <2>1, SameReady DEF FixedRows, SameRows
  <2>5. Closing(g)' BY <1>0, <1>1, <2>1, SameRowsRead DEF FixedRows, SameRows, Closing
  <2>6. Attended(g)' /\ Unpaused(g)' BY <1>1, <1>2, <2>1 DEF Attended, Unpaused
  <2> QED BY <2>1, <2>2, <2>3, <2>4, <2>5, <2>6, Quiet
<1>8. CASE Unpause(g)
  <2>1. /\ parada'[g] = FALSE
        /\ UNCHANGED <<loop, only, cand, cur, enCurso, hechas, salida, grafo, verificacion,
                       cancelling, answer>>
        /\ FixedRows /\ FixedRuns /\ Elsewhere(g)
    BY <1>0, <1>8 DEF Unpause, ControlFree, LoopTypes, HandTypes, UserTypes, DataTypes,
           ClaimTypes, FixedRows, FixedRuns, Elsewhere, SameLoop, SameData, SameUser
  <2>2. Hand(g)' = Hand(g) BY <2>1 DEF Hand
  <2>3. Crew(g)' /\ Grip(g)'
    BY <1>0, <1>1, <1>2, <2>1, <2>2 DEF Crew, Grip, FixedRows, FixedRuns, Resting
  <2>4. Ready(g)' BY <1>0, <2>1, SameReady DEF FixedRows, SameRows
  <2>5. Closing(g)' BY <1>0, <1>1, <2>1, SameRowsRead DEF FixedRows, SameRows, Closing
  <2>6. Attended(g)' /\ Unpaused(g)' BY <1>1, <1>2, <2>1 DEF Attended, Unpaused
  <2> QED BY <2>1, <2>2, <2>3, <2>4, <2>5, <2>6, Quiet
<1>9. CASE graphs_cancel(g)
  <2>1. /\ loop[g] # "boot"
        /\ UNCHANGED <<loop, only, cand, cur, enCurso, hechas, salida, grafo, verificacion,
                       parada, answer>>
        /\ FixedRows /\ FixedRuns /\ Elsewhere(g)
    BY <1>0, <1>9 DEF graphs_cancel, Stop, Serving, LoopTypes, HandTypes, UserTypes, DataTypes,
           ClaimTypes, FixedRows, FixedRuns, Elsewhere, SameLoop, SameData, SameUser
  <2>2. Hand(g)' = Hand(g) BY <2>1 DEF Hand
  <2>3. Crew(g)' /\ Grip(g)'
    BY <1>0, <1>1, <1>2, <2>1, <2>2 DEF Crew, Grip, FixedRows, FixedRuns, Resting
  <2>4. Ready(g)' BY <1>0, <2>1, SameReady DEF FixedRows, SameRows
  <2>5. Closing(g)' BY <1>0, <1>1, <2>1, SameRowsRead DEF FixedRows, SameRows, Closing
  <2>6. Attended(g)' /\ Unpaused(g)' BY <1>1, <1>2, <2>1 DEF Attended, Unpaused
  <2> QED BY <2>1, <2>2, <2>3, <2>4, <2>5, <2>6, Quiet
<1>10. CASE FinishCancel(g)
  <2>1. /\ cancelling[g] # "no"
        /\ UNCHANGED <<loop, only, cand, cur, enCurso, hechas, salida, grafo, verificacion,
                       parada, answer>>
        /\ FixedRows /\ FixedRuns /\ Elsewhere(g)
    BY <1>0, <1>10 DEF FinishCancel, Interrupt, LoopTypes, HandTypes, UserTypes, DataTypes,
           ClaimTypes, FixedRows, FixedRuns, Elsewhere, SameLoop, SameData, SameUser
  <2>2. Hand(g)' = Hand(g) BY <2>1 DEF Hand
  <2>3. Crew(g)' /\ Grip(g)'
    BY <1>0, <1>1, <1>2, <2>1, <2>2 DEF Crew, Grip, FixedRows, FixedRuns, Resting
  <2>4. Ready(g)' BY <1>0, <2>1, SameReady DEF FixedRows, SameRows
  <2>5. Closing(g)' BY <1>0, <1>1, <2>1, SameRowsRead DEF FixedRows, SameRows, Closing
  <2>6. Attended(g)' /\ Unpaused(g)' BY <1>1, <1>2, <2>1 DEF Attended, Unpaused
  <2> QED BY <2>1, <2>2, <2>3, <2>4, <2>5, <2>6, Quiet
<1>11. CASE CancelDone(g)
  <2>1. /\ loop[g] \in {"off", "boot", "resume"} /\ cancelling[g] # "no"
        /\ grafo'[g] = "cancelado" /\ cancelling'[g] = "no" /\ answer'[g] = <<>>
        /\ UNCHANGED <<loop, only, cand, cur, enCurso, hechas, salida, parada>>
        /\ FixedRows /\ FixedRuns /\ Elsewhere(g)
    BY <1>0, <1>11 DEF CancelDone, Live, Working, Place, LoopTypes, HandTypes, UserTypes,
           DataTypes, ClaimTypes, FixedRows, FixedRuns, Elsewhere, SameLoop, SameData, SameUser
  <2>2. Hand(g)' = Hand(g) BY <2>1 DEF Hand
  <2>3. Crew(g)' /\ Grip(g)'
    BY <1>0, <1>1, <1>2, <2>1, <2>2 DEF Crew, Grip, FixedRows, FixedRuns, Resting
  <2>4. Ready(g)' BY <1>0, <2>1, SameReady DEF FixedRows, SameRows
  <2>5. Closing(g)'
    BY <1>0, <1>1, <2>1, SameRowsRead DEF FixedRows, SameRows, Closing, Crew, Resting, Attended
  <2>6. Attended(g)' /\ Unpaused(g)' BY <1>1, <1>2, <2>1 DEF Attended, Unpaused
  <2> QED BY <2>1, <2>2, <2>3, <2>4, <2>5, <2>6, Quiet
<1> QED BY <1>3, <1>4, <1>5, <1>6, <1>7, <1>8, <1>9, <1>10, <1>11

\* The loop chooses a node, has none left, or wakes with those that ended.
LEMMA PassMoves ==
  ASSUME TypeOK, Inv, NEW g \in Graph,
         NoMore(g) \/ Pick(g) \/ Wake(g)
  PROVE  Inv'
<1>0. /\ LoopTypes /\ HandTypes /\ GraphInv(g) /\ UserTypes /\ DataTypes /\ ClaimTypes
  BY TypeParts DEF Inv
<1>1. Crew(g) /\ Grip(g) /\ Ready(g) /\ Closing(g) /\ Attended(g) /\ Unpaused(g) /\ Ordered(g)
  BY <1>0 DEF GraphInv
<1>2. Of(g)' = Of(g) BY DEF Of
<1> USE DEF rowVars, dataVars, loopVars, userVars, histVars, Goto
<1>3. CASE NoMore(g)
  <2>1. /\ loop[g] = "pick" /\ loop'[g] \in {"end", "wait"} /\ cand'[g] = {}
        /\ UNCHANGED <<only, cur, enCurso, hechas, salida, grafo, verificacion, parada,
                       cancelling, answer>>
        /\ FixedRows /\ FixedRuns /\ Elsewhere(g)
    BY <1>0, <1>3 DEF NoMore, LoopTypes, HandTypes, UserTypes, DataTypes, ClaimTypes,
           FixedRows, FixedRuns, Elsewhere, SameLoop, SameData, SameUser
  <2>2. Hand(g)' = Hand(g) BY <2>1 DEF Hand
  <2>3. Crew(g)' /\ Grip(g)'
    BY <1>0, <1>1, <1>2, <2>1, <2>2 DEF Crew, Grip, FixedRows, FixedRuns, Resting
  <2>4. Ready(g)' BY <1>0, <2>1, SameReady DEF FixedRows, SameRows
  <2>5. Closing(g)' BY <1>0, <1>1, <2>1, SameRowsRead DEF FixedRows, SameRows, Closing
  <2>6. Attended(g)' /\ Unpaused(g)' BY <1>1, <1>2, <2>1 DEF Attended, Unpaused
  <2> QED BY <2>1, <2>2, <2>3, <2>4, <2>5, <2>6, Quiet
<1>4. CASE Pick(g)
  <2>1. /\ loop[g] = "pick" /\ loop'[g] = "admit" /\ ~parada[g]
        /\ \E c \in cand[g] : cur'[g] = c[1]
        /\ UNCHANGED <<only, cand, enCurso, hechas, salida, grafo, verificacion, parada,
                       cancelling, answer>>
        /\ FixedRows /\ FixedRuns /\ Elsewhere(g)
    BY <1>0, <1>4 DEF Pick, LoopTypes, HandTypes, UserTypes, DataTypes, ClaimTypes, FixedRows,
           FixedRuns, Elsewhere, SameLoop, SameData, SameUser
  <2>2. Hand(g)' = Hand(g) BY <2>1 DEF Hand
  <2>3. Crew(g)' /\ Grip(g)'
    BY <1>0, <1>1, <1>2, <2>1, <2>2 DEF Crew, Grip, FixedRows, FixedRuns, Resting, Ready
  <2>4. Ready(g)' BY <1>0, <2>1, SameReady DEF FixedRows, SameRows
  <2>5. Closing(g)' BY <1>0, <1>1, <2>1, SameRowsRead DEF FixedRows, SameRows, Closing
  <2>6. Attended(g)' /\ Unpaused(g)' BY <1>1, <1>2, <2>1 DEF Attended, Unpaused
  <2> QED BY <2>1, <2>2, <2>3, <2>4, <2>5, <2>6, Quiet
<1>5. CASE Wake(g)
  <2>1. /\ loop[g] = "wait" /\ loop'[g] = "close" /\ hechas'[g] \subseteq enCurso[g]
        /\ UNCHANGED <<only, cand, cur, enCurso, salida, grafo, verificacion, parada,
                       cancelling, answer>>
        /\ FixedRows /\ FixedRuns /\ Elsewhere(g)
    BY <1>0, <1>5 DEF Wake, LoopTypes, HandTypes, UserTypes, DataTypes, ClaimTypes, FixedRows,
           FixedRuns, Elsewhere, SameLoop, SameData, SameUser
  <2>2. Hand(g)' = Hand(g) BY <2>1 DEF Hand
  <2>3. Crew(g)' /\ Grip(g)'
    BY <1>0, <1>1, <1>2, <2>1, <2>2 DEF Crew, Grip, FixedRows, FixedRuns, Resting
  <2>4. Ready(g)' BY <1>0, <2>1, SameReady DEF FixedRows, SameRows
  <2>5. Closing(g)' BY <1>0, <1>1, <2>1, SameRowsRead DEF FixedRows, SameRows, Closing
  <2>6. Attended(g)' /\ Unpaused(g)' BY <1>1, <1>2, <2>1 DEF Attended, Unpaused
  <2> QED BY <2>1, <2>2, <2>3, <2>4, <2>5, <2>6, Quiet
<1> QED BY <1>3, <1>4, <1>5

\* The loop is cut, or its verification-only pass is stopped.
LEMMA ClosingMoves ==
  ASSUME TypeOK, Inv, NEW g \in Graph,
         OnlyStopped(g) \/ Unwind(g)
  PROVE  Inv'
<1>0. /\ LoopTypes /\ HandTypes /\ GraphInv(g) /\ UserTypes /\ DataTypes /\ ClaimTypes
  BY TypeParts DEF Inv
<1>1. Crew(g) /\ Grip(g) /\ Ready(g) /\ Closing(g) /\ Attended(g) /\ Unpaused(g) /\ Ordered(g)
  BY <1>0 DEF GraphInv
<1>2. Of(g)' = Of(g) BY DEF Of
<1> USE DEF rowVars, dataVars, loopVars, userVars, histVars, Goto
<1>3. CASE OnlyStopped(g)
  <2>1. /\ loop[g] = "verdict" /\ loop'[g] = "cut"
        /\ UNCHANGED <<only, cand, cur, enCurso, hechas, salida, grafo, verificacion, parada,
                       cancelling, answer>>
        /\ FixedRows /\ FixedRuns /\ Elsewhere(g)
    BY <1>0, <1>3 DEF OnlyStopped, LoopTypes, HandTypes, UserTypes, DataTypes, ClaimTypes,
           FixedRows, FixedRuns, Elsewhere, SameLoop, SameData, SameUser
  <2>2. Hand(g)' = Hand(g) BY <2>1 DEF Hand
  <2>3. Crew(g)' /\ Grip(g)'
    BY <1>0, <1>1, <1>2, <2>1, <2>2 DEF Crew, Grip, FixedRows, FixedRuns, Resting
  <2>4. Ready(g)' BY <1>0, <2>1, SameReady DEF FixedRows, SameRows
  <2>5. Closing(g)' BY <1>0, <1>1, <2>1, SameRowsRead DEF FixedRows, SameRows, Closing
  <2>6. Attended(g)' /\ Unpaused(g)' BY <1>1, <1>2, <2>1 DEF Attended, Unpaused
  <2> QED BY <2>1, <2>2, <2>3, <2>4, <2>5, <2>6, Quiet
<1>4. CASE Unwind(g)
  <2>1. /\ loop[g] \in {"start", "heal", "round", "pick", "admit", "wait", "close", "end", "only", "verdict"}
        /\ loop'[g] = "cut" /\ cand'[g] = {} /\ ~salida[g]
        /\ UNCHANGED <<only, enCurso, hechas, salida, grafo, verificacion, parada, cancelling,
                       answer>>
        /\ FixedRows /\ FixedRuns /\ Elsewhere(g)
    BY <1>0, <1>4 DEF Unwind, LoopTypes, HandTypes, UserTypes, DataTypes, ClaimTypes,
           FixedRows, FixedRuns, Elsewhere, SameLoop, SameData, SameUser
  <2>2. Hand(g)' = Hand(g) BY <2>1 DEF Hand
  <2>3. Crew(g)' /\ Grip(g)'
    BY <1>0, <1>1, <1>2, <2>1, <2>2 DEF Crew, Grip, FixedRows, FixedRuns, Resting
  <2>4. Ready(g)' BY <1>0, <2>1, SameReady DEF FixedRows, SameRows
  <2>5. Closing(g)' BY <1>0, <1>1, <2>1, SameRowsRead DEF FixedRows, SameRows, Closing
  <2>6. Attended(g)' /\ Unpaused(g)' BY <1>1, <1>2, <2>1 DEF Attended, Unpaused
  <2> QED BY <2>1, <2>2, <2>3, <2>4, <2>5, <2>6, Quiet
<1> QED BY <1>3, <1>4

-----------------------------------------------------------------------------
(* The state of a graph, as the loop and the verification read it.           *)

\* A closed parent has a closed state, so what is open is operative.
LEMMA OpenIsOperative ==
  ASSUME NEW g \in Graph
  PROVE  /\ \A n \in Rows(g) : estado[n] \notin TERMINALES => n \in Operativos(g)
         /\ TodoHecho(g) => \A n \in Rows(g) : estado[n] \in TERMINALES
BY DEF Operativos, sustituidos, TodoHecho, TERMINALES

\* What the state of a graph says of its rows.
LEMMA StateRead ==
  ASSUME NEW g \in Graph
  PROVE  /\ estado_del_grafo(g) = "hecho" => TodoHecho(g)
         /\ estado_del_grafo(g) \in {"hecho", "fallado"} =>
              \A n \in Rows(g) : estado[n] \notin {"corriendo", "esperando_humano"}
         /\ Cerrado(g) => estado_del_grafo(g) \in {"hecho", "fallado"}
<1> DEFINE is(S) == {n \in Operativos(g) : estado[n] \in S}
           vivo == is({"esperando_humano", "corriendo"}) \union listas(g)
<1>1. estado_del_grafo(g) = CASE is({"hecho"}) = Operativos(g)                 -> "hecho"
                              [] vivo # {}                                     -> "activo"
                              [] vivo = {} /\ is({"fallado", "bloqueado"}) # {} -> "fallado"
                              [] OTHER                                         -> "trabado"
  BY DEF estado_del_grafo
<1>2. is({"hecho"}) = Operativos(g) <=> TodoHecho(g)
  BY DEF TodoHecho
<1>3. vivo = {} => \A n \in Rows(g) : estado[n] \notin {"corriendo", "esperando_humano"}
  BY OpenIsOperative DEF TERMINALES
<1>4. TodoHecho(g) => \A n \in Rows(g) : estado[n] \notin {"corriendo", "esperando_humano"}
  BY OpenIsOperative DEF TERMINALES
<1>5. ASSUME Cerrado(g), ~TodoHecho(g)
      PROVE  vivo = {} /\ is({"fallado", "bloqueado"}) # {}
  <2>1. listas(g) \subseteq Operativos(g)
    BY OpenIsOperative DEF listas, TERMINALES
  <2>2. vivo = {}
    BY <1>5, <2>1 DEF Cerrado, listas, TERMINALES
  <2>3. is({"fallado", "bloqueado"}) # {}
    BY <1>5 DEF Cerrado, TodoHecho, TERMINALES
  <2> QED BY <2>2, <2>3
<1> HIDE DEF is, vivo
<1>6. estado_del_grafo(g) = "hecho" => TodoHecho(g)
  BY <1>1, <1>2
<1>7. TodoHecho(g) => estado_del_grafo(g) = "hecho"
  <2>1. TodoHecho(g) => vivo = {} /\ is({"fallado", "bloqueado"}) = {}
    BY OpenIsOperative DEF TodoHecho, TERMINALES, listas, is, vivo
  <2> QED BY <1>1, <1>2, <2>1
<1>8. estado_del_grafo(g) = "fallado" => vivo = {}
  BY <1>1
<1>9. ~TodoHecho(g) /\ vivo = {} /\ is({"fallado", "bloqueado"}) # {} => estado_del_grafo(g) = "fallado"
  BY <1>1, <1>2
<1> QED BY <1>3, <1>4, <1>5, <1>6, <1>7, <1>8, <1>9

\* Where no row runs and the loop is past its boot, nothing is in flight.
LEMMA NoneRunning ==
  ASSUME NEW g \in Graph, Crew(g), loop[g] # "block",
         \A n \in Rows(g) : estado[n] # "corriendo"
  PROVE  enCurso[g] = {}
BY DEF Crew, Rows, Of

\* A round begins, a pass ends, and a verification records its verdict.
LEMMA EndMoves ==
  ASSUME TypeOK, Inv, NEW g \in Graph,
         Round(g) \/ End(g) \/ Verdict(g) \/ CloseOnly(g)
  PROVE  Inv'
<1>0. /\ LoopTypes /\ HandTypes /\ GraphInv(g) /\ UserTypes /\ DataTypes /\ ClaimTypes
  BY TypeParts DEF Inv
<1>1. Crew(g) /\ Grip(g) /\ Ready(g) /\ Closing(g) /\ Attended(g) /\ Unpaused(g) /\ Ordered(g)
  BY <1>0 DEF GraphInv
<1>2. Of(g)' = Of(g) BY DEF Of
<1> USE DEF rowVars, dataVars, loopVars, userVars, histVars, Goto
<1>3. CASE Round(g)
  <2>1. /\ loop[g] = "round" /\ loop'[g] \in {"end", "pick"}
        /\ UNCHANGED <<only, cur, enCurso, hechas, salida, grafo, verificacion, parada, cancelling,
                       answer>>
        /\ FixedRows /\ FixedRuns /\ Elsewhere(g)
    BY <1>0, <1>3 DEF Round, elegibles, LoopTypes, HandTypes, UserTypes, DataTypes, ClaimTypes,
       FixedRows, FixedRuns, Elsewhere, SameLoop, SameData, SameUser
  <2>a. cand'[g] = cand[g] \/ \E S \in SUBSET listas(g) : cand'[g] = {<<n, intentos[n]>> : n \in S}
    BY <1>0, <1>3 DEF Round, elegibles, HandTypes
  <2>2. Hand(g)' = Hand(g) BY <2>1 DEF Hand
  <2>3. Crew(g)' /\ Grip(g)'
    BY <1>0, <1>1, <1>2, <2>1, <2>2 DEF Crew, Grip, FixedRows, FixedRuns, Resting
  <2>4. Ready(g)'
    <3>1. CASE cand'[g] = cand[g] BY <1>0, <2>1, <3>1, SameReady DEF FixedRows, SameRows
    <3>2. ASSUME NEW S \in SUBSET listas(g), cand'[g] = {<<n, intentos[n]>> : n \in S}
          PROVE  Ready(g)'
      <4>1. \A n \in S : n \in Of(g) /\ estado[n] # "absent" /\ Done(n)
        BY DEF listas, Rows, Of, Done
      <4>2. \A n : Done(n)' <=> Done(n) BY <2>1 DEF Done, FixedRows
      <4> QED BY <1>2, <2>1, <3>2, <4>1, <4>2 DEF Ready, FixedRows
    <3> QED BY <2>a, <3>1, <3>2
  <2>5. Closing(g)' BY <1>0, <1>1, <2>1, SameRowsRead DEF FixedRows, SameRows, Closing
  <2>6. Attended(g)' /\ Unpaused(g)' BY <1>1, <1>2, <2>1 DEF Attended, Unpaused
  <2> QED BY <2>1, <2>2, <2>3, <2>4, <2>5, <2>6, Quiet
<1>4. CASE End(g)
  <2>1. /\ loop[g] = "end" /\ loop'[g] \in {"cut", "verdict"}
        /\ UNCHANGED <<only, cand, cur, enCurso, hechas, salida, parada, cancelling, answer>>
        /\ FixedRows /\ FixedRuns /\ Elsewhere(g)
    BY <1>0, <1>4 DEF End, LoopTypes, HandTypes, UserTypes, DataTypes, ClaimTypes,
       FixedRows, FixedRuns, Elsewhere, SameLoop, SameData, SameUser
  <2>2. Hand(g)' = Hand(g) BY <2>1 DEF Hand
  <2>3. /\ loop'[g] = "verdict" => /\ Verifier /\ verificacion'[g] = Pending(g)
                                   /\ estado_del_grafo(g) \in {"hecho", "fallado"}
        /\ grafo'[g] # grafo[g] => /\ loop'[g] = "cut" /\ ~Verifier
                                   /\ estado_del_grafo(g) \in {"hecho", "fallado"}
                                   /\ grafo'[g] = estado_del_grafo(g)
        /\ loop'[g] = "cut" => verificacion'[g] = verificacion[g]
        /\ loop'[g] = "verdict" => grafo'[g] = grafo[g]
    BY <1>0, <1>4 DEF End, LoopTypes, DataTypes
  <2>4. grafo[g] = "activo" /\ ~only[g] BY <1>1, <2>1 DEF Closing
  <2>5. estado_del_grafo(g) \in {"hecho", "fallado"} => enCurso[g] = {}
    BY <1>1, <2>1, StateRead, NoneRunning
  <2>6. Crew(g)' /\ Grip(g)'
    BY <1>0, <1>1, <1>2, <2>1, <2>2, <2>3, <2>5 DEF Crew, Grip, FixedRows, FixedRuns, Resting
  <2>7. Ready(g)' BY <1>0, <2>1, SameReady DEF FixedRows, SameRows
  <2>8. /\ (TodoHecho(g)' <=> TodoHecho(g)) /\ estado_del_grafo(g)' = estado_del_grafo(g)
        /\ Pending(g)' = Pending(g)
    BY <1>1, <2>1, SameRowsRead DEF FixedRows, SameRows
  <2>9. Closing(g)' BY <2>1, <2>3, <2>4, <2>5, <2>8, StateRead, VerifierAssumption DEF Closing
  <2>10. Attended(g)' /\ Unpaused(g)' BY <1>1, <1>2, <2>1 DEF Attended, Unpaused
  <2> QED BY <2>1, <2>2, <2>6, <2>7, <2>9, <2>10, Quiet
<1>5. CASE Verdict(g)
  <2>1. /\ loop[g] = "verdict" /\ loop'[g] = "cut"
        /\ UNCHANGED <<only, cand, cur, enCurso, hechas, salida, parada, cancelling, answer>>
        /\ FixedRows /\ FixedRuns /\ Elsewhere(g)
    BY <1>0, <1>5 DEF Verdict, Record, Unless, LoopTypes, HandTypes, UserTypes, DataTypes,
           ClaimTypes,
       FixedRows, FixedRuns, Elsewhere, SameLoop, SameData, SameUser
  <2>2. Hand(g)' = Hand(g) BY <2>1 DEF Hand
  <2>3. /\ verificacion'[g] = [verificacion[g] EXCEPT !.tipo = "done"]
        /\ grafo'[g] \in {"cancelado", "fallado", estado_del_grafo(g)}
    BY <1>0, <1>5 DEF Verdict, Record, Unless, DataTypes
  <2>4. /\ verificacion[g] = Pending(g) /\ estado_del_grafo(g) \in {"hecho", "fallado"}
        /\ enCurso[g] = {}
    BY <1>1, <2>1 DEF Closing, Crew, Resting
  <2>5. verificacion'[g] = [tipo |-> "done", firma |-> Firma(g)]
    BY <2>3, <2>4 DEF Pending
  <2>6. Crew(g)' /\ Grip(g)'
    BY <1>0, <1>1, <1>2, <2>1, <2>2 DEF Crew, Grip, FixedRows, FixedRuns, Resting
  <2>7. Ready(g)' BY <1>0, <2>1, SameReady DEF FixedRows, SameRows
  <2>8. (TodoHecho(g)' <=> TodoHecho(g)) /\ Firma(g)' = Firma(g)
    BY <1>1, <2>1, SameRowsRead DEF FixedRows, SameRows
  <2>9. Closing(g)' BY <1>1, <2>1, <2>3, <2>4, <2>5, <2>8, StateRead DEF Closing
  <2>10. Attended(g)' /\ Unpaused(g)' BY <1>1, <1>2, <2>1 DEF Attended, Unpaused
  <2> QED BY <2>1, <2>2, <2>6, <2>7, <2>9, <2>10, Quiet
<1>6. CASE CloseOnly(g)
  <2>1. /\ loop[g] = "only" /\ loop'[g] \in {"cut", "verdict"}
        /\ UNCHANGED <<only, cand, cur, enCurso, hechas, salida, parada, cancelling, answer>>
        /\ FixedRows /\ FixedRuns /\ Elsewhere(g)
    BY <1>0, <1>6 DEF CloseOnly, LoopTypes, HandTypes, UserTypes, DataTypes, ClaimTypes,
       FixedRows, FixedRuns, Elsewhere, SameLoop, SameData, SameUser
  <2>2. Hand(g)' = Hand(g) BY <2>1 DEF Hand
  <2>3. /\ loop'[g] = "verdict" => /\ verification_pending(g) /\ verificacion'[g] = Pending(g)
                                   /\ grafo'[g] = grafo[g]
        /\ loop'[g] = "cut" => /\ verificacion'[g] = verificacion[g]
                               /\ \/ grafo'[g] = grafo[g]
                                  \/ grafo'[g] = "hecho" /\ metadata_close_pending(g)
    BY <1>0, <1>6 DEF CloseOnly, LoopTypes, DataTypes
  <2>4. enCurso[g] = {} BY <1>1, <2>1 DEF Crew, Resting
  <2>5. verification_pending(g) => Verifier /\ estado_del_grafo(g) \in {"hecho", "fallado"}
    BY StateRead DEF verification_pending
  <2>6. metadata_close_pending(g) => ~Verifier /\ TodoHecho(g)
    BY DEF metadata_close_pending
  <2>7. Crew(g)' /\ Grip(g)'
    BY <1>0, <1>1, <1>2, <2>1, <2>2 DEF Crew, Grip, FixedRows, FixedRuns, Resting
  <2>8. Ready(g)' BY <1>0, <2>1, SameReady DEF FixedRows, SameRows
  <2>9. /\ (TodoHecho(g)' <=> TodoHecho(g)) /\ estado_del_grafo(g)' = estado_del_grafo(g)
        /\ Pending(g)' = Pending(g) /\ Firma(g)' = Firma(g)
    BY <1>1, <2>1, SameRowsRead DEF FixedRows, SameRows
  <2>10. grafo[g] = "activo" BY <1>1, <2>1 DEF Closing
  <2>11. Closing(g)'
    BY VerifierAssumption, <1>1, <2>1, <2>3, <2>4, <2>5, <2>6, <2>9, <2>10 DEF Closing
  <2>12. Attended(g)' /\ Unpaused(g)' BY <1>1, <1>2, <2>1 DEF Attended, Unpaused
  <2> QED BY <2>1, <2>2, <2>7, <2>8, <2>11, <2>12, Quiet
<1> QED BY <1>3, <1>4, <1>5, <1>6

\* Questions move no graph; an answer is kept for the graph of its node.
LEMMA QuestionMoves ==
  ASSUME TypeOK, Inv, NEW n \in Node,
         \/ preguntar_por_la_tarea(n) \/ skip_expert_question(n)
         \/ \E choice \in Choice : Answer(n, choice)
  PROVE  Inv'
<1> USE DEF rowVars, dataVars, loopVars, userVars, histVars
<1>1. PICK g \in Graph : g = GraphOf[n] BY GraphAssumption
<1>2. FixedRows /\ FixedRuns
  BY DEF preguntar_por_la_tarea, skip_expert_question, Answer, FixedRows, FixedRuns
<1>3. \A h \in Graph : SameRows(h) /\ SameRuns(h)
  BY <1>2 DEF FixedRows, FixedRuns, SameRows, SameRuns
<1>4. \A h \in Graph : SameLoop(h) /\ SameData(h)
  BY DEF preguntar_por_la_tarea, skip_expert_question, Answer, SameLoop, SameData
<1>5. CASE preguntar_por_la_tarea(n) \/ skip_expert_question(n)
  <2>1. \A h \in Graph : SameUser(h)
    BY <1>5 DEF preguntar_por_la_tarea, skip_expert_question, SameUser
  <2> QED BY <1>2, <1>3, <1>4, <2>1, Untouched DEF Inv, Apart, FixedRuns, Same
<1>6. ASSUME NEW choice \in Choice, Answer(n, choice) PROVE Inv'
  <2>1. /\ loop[g] # "boot" /\ answer'[g] = <<n, choice>> /\ cancelling'[g] = cancelling[g]
        /\ \A h \in Graph \ {g} : SameUser(h)
    BY <1>1, <1>6, TypeParts DEF Answer, Serving, UserTypes, SameUser
  <2>2. Elsewhere(g) BY <1>4, <2>1 DEF Elsewhere
  <2>3. GraphInv(g) BY DEF Inv
  <2>4. Hand(g)' = Hand(g) BY <1>4 DEF Hand, SameLoop
  <2>5. Attended(g)' BY <1>1, <1>4, <2>1, <2>3 DEF GraphInv, Attended, Of, SameLoop
  <2>6. Of(g)' = Of(g) BY DEF Of
  <2>7. Crew(g)' /\ Grip(g)' /\ Unpaused(g)'
    BY <1>2, <1>4, <2>3, <2>4, <2>6
       DEF GraphInv, Crew, Grip, Unpaused, SameLoop, SameData, FixedRows, FixedRuns
  <2>8. Ready(g)' BY <1>3, <1>4, <2>3, SameReady DEF SameLoop
  <2>9. Closing(g)' BY <1>3, <1>4, <2>3, SameRowsRead DEF GraphInv, Closing, SameLoop, SameData
  <2> QED BY <1>2, <2>2, <2>4, <2>5, <2>7, <2>8, <2>9, Quiet
<1> QED BY <1>5, <1>6

-----------------------------------------------------------------------------
(* Steps that move rows, files or executors of one graph.                    *)

Untold(g) == \A h \in Graph \ {g} : Same(h)

\* A step that is about one graph owes the invariant of that graph alone.
LEMMA OneGraph ==
  ASSUME Inv, NEW g \in Graph, Untold(g), Apart', GraphInv(g)'
  PROVE  Inv'
BY Untouched DEF Inv, Untold

\* What is done stays done, and what is blocked has its cause: the order of the plan holds.
LEMMA OrderKept ==
  ASSUME NEW g \in Graph, Ordered(g),
         \A n \in Of(g) : deps'[n] = deps[n] /\ padre'[n] = padre[n],
         \A n \in Of(g) : estado[n] = "hecho" => estado'[n] = "hecho",
         \A n \in Of(g) : estado'[n] \in {"corriendo", "hecho"} =>
           estado[n] \in {"corriendo", "hecho"} \/ Done(n),
         \A n \in Of(g) : estado'[n] = "bloqueado" =>
           \E d \in deps[n] : estado'[d] \in {"fallado", "bloqueado"}
  PROVE  Ordered(g)' /\ \A n \in Of(g) : Done(n) => Done(n)'
<1>1. Of(g)' = Of(g) BY DEF Of
<1>2. \A n \in Of(g) : Done(n) => Done(n)'
  BY DEF Ordered, Done
<1> QED BY <1>1, <1>2 DEF Ordered

\* Candidates stay ready when what is done stays done.
LEMMA ReadyKept ==
  ASSUME NEW g \in Graph, Ready(g), cand'[g] \subseteq cand[g],
         \A n \in Of(g) : Done(n) => Done(n)',
         \A n \in Of(g) : estado[n] # "absent" => estado'[n] # "absent"
  PROVE  Ready(g)'
BY DEF Ready, Of

\* An executor goes on, and its node may act.
LEMMA ExecutorMoves ==
  ASSUME TypeOK, Inv, NEW n \in Node,
         Prepare(n) \/ Break(n) \/ AskHuman(n) \/ Finish(n)
  PROVE  Inv'
<1> USE DEF rowVars, dataVars, loopVars, userVars, histVars
<1>1. PICK g \in Graph : g = GraphOf[n] BY GraphAssumption
<1>2. /\ FixedRows /\ UNCHANGED <<claims, starts, lost>>
      /\ \A h \in Graph : SameLoop(h) /\ SameData(h) /\ SameUser(h)
      /\ effect' \in {effect, effect \union {n}}
  BY DEF Prepare, Break, AskHuman, Finish, FixedRows, SameLoop, SameData, SameUser
<1>3. /\ run[n] \in Unfinished /\ run'[n] \in Unfinished \union Finished
      /\ \A m \in Node \ {n} : run'[m] = run[m]
  <2>1. CASE Finish(n)
    <3>1. PICK k \in Outcomes \ {"broken"} :
            /\ run[n] \in {"asking", "parted", "work"}
            /\ run' = [run EXCEPT ![n] = k]
      BY <2>1 DEF Finish, Become
    <3> QED BY <3>1, OutcomesAssumption, TypeParts DEF RunTypes, Unfinished, Finished
  <2> QED
    BY <2>1, TypeParts DEF Prepare, Break, AskHuman, Become, RunTypes, Unfinished, Finished
<1>4. Untold(g)
  <2>1. \A h \in Graph \ {g} : n \notin Of(h) BY <1>1 DEF Of
  <2> QED BY <1>2, <1>3, <2>1, OfType DEF Untold, Same, SameRows, SameRuns, FixedRows
<1>5. GraphInv(g) /\ Apart BY DEF Inv
<1>6. Crew(g) /\ Grip(g) /\ Holds(g) /\ Ordered(g) /\ Spent(g) /\ Paid(g)
  BY <1>5 DEF GraphInv
<1>7. Hand(g)' = Hand(g) /\ Of(g)' = Of(g) BY <1>2 DEF Hand, Of, SameLoop
<1>8. n \in enCurso[g] /\ n \notin Hand(g)
  BY <1>1, <1>3, <1>6 DEF Crew, Grip, Hand, Of, Unfinished
<1>9. loop[g] \in {"settle", "block"} => cur[g] # n
  BY <1>3, <1>6 DEF Grip, Unfinished, Finished
<1>10. Crew(g)'
  BY <1>2, <1>3, <1>6, <1>7, <1>8 DEF Crew, SameLoop, FixedRows, Of, Unfinished, Finished
<1>11. Grip(g)'
  BY <1>2, <1>3, <1>6, <1>7, <1>8, <1>9, OfType
     DEF Grip, SameLoop, FixedRows, Crew
<1>12. Holds(g)' BY <1>2, <1>3, <1>6, <1>7 DEF Holds, FixedRows, Of
<1>13. Spent(g)'
  BY <1>2, <1>6, <1>7, <1>8, <1>9 DEF Spent, FixedRows, Crew
<1>14. Paid(g)' BY <1>2, <1>6, <1>7 DEF Paid, FixedRows
<1>15. Ordered(g)' /\ Ready(g)' /\ Closing(g)'
  <2>1. SameRows(g) BY <1>2 DEF FixedRows, SameRows
  <2>2. Ready(g)' BY <1>2, <1>5, <2>1, SameReady DEF SameLoop
  <2>3. Closing(g)'
    BY <1>2, <1>5, <1>6, <2>1, SameRowsRead DEF GraphInv, Closing, SameLoop, SameData
  <2>4. \A k \in Of(g) : Done(k)' <=> Done(k) BY <1>6, <2>1, SameRowsRead
  <2>5. Ordered(g)' BY <1>6, <1>7, <2>1, <2>4 DEF Ordered, SameRows
  <2> QED BY <2>2, <2>3, <2>5
<1>16. Attended(g)' /\ Unpaused(g)'
  BY <1>2, <1>5, <1>7 DEF GraphInv, Attended, Unpaused, SameLoop, SameData, SameUser
<1>17. Apart' BY <1>2, <1>5 DEF Apart
<1> QED BY <1>4, <1>10, <1>11, <1>12, <1>13, <1>14, <1>15, <1>16, <1>17, OneGraph DEF GraphInv

\* The final cleaning cancels what is in flight.
LEMMA CutKeeps ==
  ASSUME TypeOK, Inv, NEW g \in Graph, Cut(g)
  PROVE  Inv'
<1> USE DEF rowVars, dataVars, loopVars, userVars, histVars, Goto
<1>1. /\ RowTypes /\ LoopTypes /\ HandTypes /\ RunTypes /\ GraphInv(g) /\ Apart
  BY TypeParts DEF Inv
<1>2. Crew(g) /\ Grip(g) /\ Holds(g) /\ Ordered(g) /\ Closing(g) /\ Spent(g) /\ Paid(g)
  BY <1>1 DEF GraphInv
<1>3. /\ FixedRows /\ UNCHANGED <<claims, starts, lost, effect, enCurso, only, cur>>
      /\ \A h \in Graph : SameData(h) /\ SameUser(h)
      /\ loop[g] = "cut" /\ loop'[g] = IF enCurso[g] = {} THEN "last" ELSE "close"
      /\ cand'[g] = {} /\ hechas'[g] = enCurso[g] /\ salida'[g]
      /\ \A h \in Graph \ {g} : SameLoop(h)
  BY <1>1, Zenon DEF Cut, FixedRows, SameData, SameUser, SameLoop, LoopTypes, HandTypes
<1>4. \A n \in Node : run'[n] = IF n \in enCurso[g] /\ run[n] \in Unfinished THEN "cut" ELSE run[n]
  BY DEF Cut
<1>5. Untold(g)
  BY <1>2, <1>3, <1>4, OfType DEF Untold, Same, SameRows, SameRuns, FixedRows, Crew, Of
<1>6. Hand(g)' = {} /\ Hand(g) = {} /\ Of(g)' = Of(g) BY <1>3 DEF Hand, Of
<1>7. Crew(g)'
  BY <1>2, <1>3, <1>4, <1>6 DEF Crew, FixedRows, Of, Resting, Unfinished
<1>8. Grip(g)' BY <1>2, <1>3, <1>6 DEF Grip
<1>9. Holds(g)' /\ Spent(g)' /\ Paid(g)'
  BY <1>2, <1>3, <1>4, <1>6, OfType DEF Holds, Spent, Paid, FixedRows, Unfinished
<1>10. SameRows(g) BY <1>3 DEF FixedRows, SameRows
<1>11. Ordered(g)'
  BY <1>2, <1>6, <1>10, SameRowsRead DEF Ordered, SameRows
<1>12. Ready(g)' BY <1>3 DEF Ready
<1>13. Closing(g)' BY <1>2, <1>3, <1>10, SameRowsRead DEF Closing, SameData
<1>14. Attended(g)' /\ Unpaused(g)'
  BY <1>1, <1>3, <1>6 DEF GraphInv, Attended, Unpaused, SameUser
<1>15. Apart' BY <1>1, <1>3 DEF Apart
<1> QED BY <1>5, <1>7, <1>8, <1>9, <1>11, <1>12, <1>13, <1>14, <1>15, OneGraph DEF GraphInv

\* The admission charges the attempt; a candidate that is no longer ready leaves the round.
LEMMA AdmitKeeps ==
  ASSUME TypeOK, Inv, NEW g \in Graph, Admit(g)
  PROVE  Inv'
<1> USE DEF rowVars, dataVars, loopVars, userVars, histVars, Goto
<1>1. /\ RowTypes /\ LoopTypes /\ HandTypes /\ RunTypes /\ GraphInv(g) /\ Apart
  BY TypeParts DEF Inv
<1>2. /\ Crew(g) /\ Grip(g) /\ Holds(g) /\ Ordered(g) /\ Ready(g) /\ Closing(g) /\ Attended(g)
      /\ Spent(g) /\ Paid(g) /\ Unpaused(g)
  BY <1>1 DEF GraphInv
<1>3. PICK n \in Of(g) : n = cur[g] /\ loop[g] = "admit"
  BY <1>2 DEF Admit, Grip
<1>4. n \in Node BY OfType
<1>5. Of(g)' = Of(g) BY DEF Of
<1>6. CASE ~Admissible(g)
  <2>1. /\ loop'[g] = "pick" /\ cand'[g] \subseteq cand[g]
        /\ UNCHANGED <<only, enCurso, hechas, salida, grafo, verificacion, parada, cancelling,
                       answer>>
        /\ FixedRows /\ FixedRuns /\ Elsewhere(g)
    BY <1>1, <1>6 DEF Admit, Leave, LoopTypes, HandTypes, FixedRows, FixedRuns, Elsewhere,
           SameLoop,
       SameData, SameUser
  <2>2. Hand(g)' = Hand(g) BY <1>3, <2>1 DEF Hand
  <2>3. Crew(g)' /\ Grip(g)'
    BY <1>2, <1>3, <1>5, <2>1, <2>2 DEF Crew, Grip, FixedRows, FixedRuns, Resting
  <2>4. Ready(g)' BY <1>1, <2>1, SameReady DEF FixedRows, SameRows
  <2>5. Closing(g)' BY <1>1, <1>2, <1>3, <2>1, SameRowsRead DEF FixedRows, SameRows, Closing
  <2>6. Attended(g)' /\ Unpaused(g)' BY <1>2, <1>5, <2>1 DEF Attended, Unpaused
  <2> QED BY <2>1, <2>2, <2>3, <2>4, <2>5, <2>6, Quiet
<1>7. CASE Admissible(g)
  <2>1. /\ estado[n] = "pendiente" /\ <<n, intentos[n]>> \in cand[g] /\ intentos[n] < maxIntentos[n]
    BY <1>1, <1>3, <1>4, <1>7 DEF Admissible, Agotada, RowTypes
  <2>2. Done(n)
    <3>1. \A c \in cand[g] : Done(c[1]) BY <1>2 DEF Ready
    <3>2. Done(<<n, intentos[n]>>[1]) BY <2>1, <3>1
    <3> QED BY <3>2
  <2>3. /\ estado'[n] = "corriendo" /\ \A m \in Node \ {n} : estado'[m] = estado[m]
        /\ intentos'[n] = intentos[n] + 1 /\ \A m \in Node \ {n} : intentos'[m] = intentos[m]
    BY <1>1, <1>3, <1>4, <1>7 DEF Admit, RowTypes
  <2>4. /\ UNCHANGED <<maxIntentos, deps, padre>> /\ FixedRuns
        /\ UNCHANGED <<only, cand, cur, enCurso, hechas, salida, grafo, verificacion, parada,
                       cancelling, answer>>
        /\ loop'[g] = "claim" /\ \A h \in Graph \ {g} : loop'[h] = loop[h]
    BY <1>1, <1>7 DEF Admit, FixedRuns, LoopTypes
  <2>5. Untold(g)
    <3>1. \A h \in Graph \ {g} : n \notin Of(h) BY DEF Of
    <3> QED BY <2>3, <2>4, <3>1, OfType
         DEF Untold, Same, SameRows, SameRuns, SameLoop, SameData, SameUser, FixedRuns
  <2>6. Hand(g) = {} /\ Hand(g)' = {n} BY <1>3, <2>4 DEF Hand
  <2>7. n \notin enCurso[g] /\ run[n] = "none" BY <1>2, <1>3, <2>1 DEF Crew
  <2>8. Crew(g)'
    BY <1>2, <1>3, <1>5, <2>3, <2>4, <2>6, <2>7, OfType DEF Crew, FixedRuns, Resting
  <2>9. Grip(g)' BY <1>2, <1>3, <1>5, <2>3, <2>4, <2>7 DEF Grip, FixedRuns
  <2>10. Holds(g)' BY <1>2, <1>5, <2>3, <2>4, OfType DEF Holds, FixedRuns
  <2>11. Ordered(g)' /\ \A m \in Of(g) : Done(m) => Done(m)'
    <3>1. \A m \in Of(g) : estado'[m] = "bloqueado" =>
            \E d \in deps[m] : estado'[d] \in {"fallado", "bloqueado"}
      BY <1>2, <2>1, <2>3, OfType DEF Ordered
    <3> QED BY <1>2, <2>1, <2>2, <2>3, <2>4, <3>1, OfType, OrderKept
  <2>12. Ready(g)' BY <1>2, <2>3, <2>4, <2>11, OfType, ReadyKept
  <2>13. Closing(g)' BY <1>2, <1>3, <2>4 DEF Closing
  <2>14. Attended(g)' /\ Unpaused(g)' BY <1>2, <1>3, <1>5, <2>4 DEF Attended, Unpaused
  <2>15. Paid(g)'
    BY <1>1, <1>2, <1>5, <2>1, <2>3, <2>4, <2>6, OfType DEF Paid, FixedRuns, RowTypes, RunTypes
  <2>16. Spent(g)' BY <1>2, <1>5, <2>1, <2>3, <2>4, <2>6, OfType DEF Spent, FixedRuns
  <2>17. Apart' BY <1>1, <2>4 DEF Apart, FixedRuns
  <2> QED BY <2>5, <2>8, <2>9, <2>10, <2>11, <2>12, <2>13, <2>14, <2>15, <2>16, <2>17, OneGraph
          DEF GraphInv
<1> QED BY <1>6, <1>7

\* What a claim takes belonged to nobody.
LEMMA ClaimApart ==
  ASSUME ClaimTypes, Apart, NEW n \in Node, claim_task_files(n) \/ UNCHANGED claims
  PROVE  /\ Apart' /\ \A m \in Node \ {n} : claims'[m] = claims[m]
         /\ claim_task_files(n) => claims'[n] = claims[n] \union (Files[n] \ Taken(n))
<1>1. CASE UNCHANGED claims BY <1>1 DEF Apart, claim_task_files, ClaimTypes
<1>2. CASE claim_task_files(n)
  <2>1. /\ \A m \in Node \ {n} : claims'[m] = claims[m]
        /\ claims'[n] = claims[n] \union (Files[n] \ Taken(n))
    BY <1>2 DEF claim_task_files, ClaimTypes
  <2>2. \A m \in Node \ {n} : claims[m] \subseteq Taken(n) BY DEF Taken
  <2> QED BY <2>1, <2>2 DEF Apart
<1> QED BY <1>1, <1>2

\* An admission whose files are taken, or that is cancelled, is to be rolled back.
LEMMA RejectedKeeps ==
  ASSUME TypeOK, Inv, NEW g \in Graph, loop[g] = "claim", loop' = [loop EXCEPT ![g] = "rollback"],
         claim_task_files(cur[g]) \/ UNCHANGED claims,
         FixedRows,
         UNCHANGED <<run, starts, lost, effect, only, cand, cur, enCurso, hechas, salida, grafo,
                     verificacion, parada, cancelling, answer>>
  PROVE  Inv'
<1>1. /\ ClaimTypes /\ LoopTypes /\ GraphInv(g) /\ Apart
  BY TypeParts DEF Inv
<1>2. /\ Crew(g) /\ Grip(g) /\ Holds(g) /\ Ordered(g) /\ Ready(g) /\ Closing(g) /\ Attended(g)
      /\ Spent(g) /\ Paid(g) /\ Unpaused(g)
  BY <1>1 DEF GraphInv
<1>3. PICK n \in Of(g) : n = cur[g] BY <1>2 DEF Grip
<1>4. n \in Node BY OfType
<1>5. Apart' /\ \A m \in Node \ {n} : claims'[m] = claims[m]
  BY <1>1, <1>3, <1>4, ClaimApart
<1>6. loop'[g] = "rollback" /\ \A h \in Graph \ {g} : loop'[h] = loop[h]
  BY <1>1 DEF LoopTypes
<1>7. Untold(g)
  <2>1. \A h \in Graph \ {g} : n \notin Of(h) BY DEF Of
  <2> QED BY <1>5, <1>6, <2>1, OfType
       DEF Untold, Same, SameRows, SameRuns, SameLoop, SameData, SameUser, FixedRows
<1>8. Hand(g)' = Hand(g) /\ Of(g)' = Of(g) BY <1>6 DEF Hand, Of
<1>9. Crew(g)' BY <1>2, <1>6, <1>8 DEF Crew, FixedRows, Resting
<1>10. Grip(g)' BY <1>2, <1>6, <1>8 DEF Grip, FixedRows
<1>11. Holds(g)'
  <2>1. estado[n] = "corriendo" /\ run[n] \notin Unfinished
    BY <1>2, <1>3 DEF Grip, Unfinished
  <2> QED BY <1>2, <1>5, <1>8, <2>1, OfType DEF Holds, FixedRows
<1>12. SameRows(g) BY DEF FixedRows, SameRows
<1>13. Ordered(g)' BY <1>2, <1>8, <1>12, SameRowsRead DEF Ordered, SameRows
<1>14. Ready(g)' BY <1>1, <1>12, SameReady
<1>15. Closing(g)' BY <1>2, <1>6 DEF Closing
<1>16. Attended(g)' /\ Unpaused(g)' /\ Spent(g)' /\ Paid(g)'
  BY <1>2, <1>6, <1>8 DEF Attended, Unpaused, Spent, Paid, FixedRows
<1> QED BY <1>5, <1>7, <1>9, <1>10, <1>11, <1>13, <1>14, <1>15, <1>16, OneGraph DEF GraphInv

\* The files are claimed, and the node in hand begins or is given back.
LEMMA ClaimKeeps ==
  ASSUME TypeOK, Inv, NEW g \in Graph, Claim(g) \/ ClaimCancelled(g)
  PROVE  Inv'
<1> USE DEF rowVars, dataVars, loopVars, userVars, histVars, Goto
<1>1. /\ RowTypes /\ ClaimTypes /\ LoopTypes /\ HandTypes /\ RunTypes /\ GraphInv(g) /\ Apart
  BY TypeParts DEF Inv
<1>2. /\ Crew(g) /\ Grip(g) /\ Holds(g) /\ Ordered(g) /\ Ready(g) /\ Closing(g) /\ Attended(g)
      /\ Spent(g) /\ Paid(g) /\ Unpaused(g)
  BY <1>1 DEF GraphInv
<1>3. PICK n \in Of(g) : n = cur[g] /\ loop[g] = "claim"
  BY <1>2 DEF Claim, ClaimCancelled, Grip
<1>4. n \in Node BY OfType
<1>5. CASE ClaimCancelled(g) BY <1>3, <1>5, RejectedKeeps DEF ClaimCancelled, FixedRows
<1>6. CASE Claim(g) /\ Files[n] \intersect Taken(n) # {}
  BY <1>3, <1>6, RejectedKeeps DEF Claim, FixedRows
<1>7. CASE Claim(g) /\ Files[n] \intersect Taken(n) = {}
  <2>1. /\ Apart' /\ \A m \in Node \ {n} : claims'[m] = claims[m]
        /\ claims'[n] = claims[n] \union Files[n]
    BY <1>1, <1>3, <1>4, <1>7, ClaimApart DEF Claim
  <2>2. /\ enCurso'[g] = enCurso[g] \union {n} /\ \A h \in Graph \ {g} : enCurso'[h] = enCurso[h]
        /\ run'[n] = "prep" /\ \A m \in Node \ {n} : run'[m] = run[m]
        /\ starts'[n] = starts[n] + 1 /\ \A m \in Node \ {n} : starts'[m] = starts[m]
    BY <1>1, <1>3, <1>4, <1>7 DEF Claim, HandTypes, RunTypes
  <2>3. /\ loop'[g] = "pick" /\ cand'[g] \subseteq cand[g]
        /\ \A h \in Graph \ {g} : loop'[h] = loop[h] /\ cand'[h] = cand[h] /\ cur'[h] = cur[h]
    BY <1>1, <1>3, <1>7 DEF Claim, Leave, LoopTypes, HandTypes
  <2>4. /\ FixedRows /\ UNCHANGED <<lost, effect, only, hechas, salida, grafo, verificacion, parada,
                                   cancelling, answer>>
    BY <1>7 DEF Claim, FixedRows
  <2>5. Untold(g)
    <3>1. \A h \in Graph \ {g} : n \notin Of(h) BY DEF Of
    <3> QED BY <2>1, <2>2, <2>3, <2>4, <3>1, OfType
         DEF Untold, Same, SameRows, SameRuns, SameLoop, SameData, SameUser, FixedRows
  <2>6. Hand(g) = {n} /\ Hand(g)' = {} /\ Of(g)' = Of(g) BY <1>3, <2>3 DEF Hand, Of
  <2>7. run[n] = "none" /\ estado[n] = "corriendo" BY <1>2, <1>3 DEF Grip
  <2>8. Crew(g)'
    BY <1>2, <1>3, <2>2, <2>3, <2>4, <2>6, <2>7, OfType DEF Crew, FixedRows, Resting
  <2>9. Grip(g)' BY <1>2, <1>3, <2>2, <2>3, <2>4 DEF Grip
  <2>10. Holds(g)' BY <1>2, <2>1, <2>2, <2>4, <2>6, <2>7, OfType DEF Holds, FixedRows
  <2>11. SameRows(g) BY <2>4 DEF FixedRows, SameRows
  <2>12. Ordered(g)' BY <1>2, <2>6, <2>11, SameRowsRead DEF Ordered, SameRows
  <2>13. Ready(g)' BY <1>1, <2>3, <2>11, SameReady
  <2>14. Closing(g)' BY <1>2, <1>3, <2>3, <2>4 DEF Closing
  <2>15. Attended(g)' /\ Unpaused(g)' BY <1>2, <2>3, <2>4, <2>6 DEF Attended, Unpaused
  <2>16. Paid(g)'
    BY <1>1, <1>2, <2>2, <2>4, <2>6, OfType DEF Paid, FixedRows, RunTypes
  <2>17. Spent(g)' BY <1>2, <2>4, <2>6 DEF Spent, FixedRows
  <2> QED BY <2>1, <2>5, <2>8, <2>9, <2>10, <2>12, <2>13, <2>14, <2>15, <2>16, <2>17, OneGraph
          DEF GraphInv
<1> QED BY <1>5, <1>6, <1>7

\* The refund: attempt, row and files together.
LEMMA RollbackKeeps ==
  ASSUME TypeOK, Inv, NEW g \in Graph, rollback_task_admission(g)
  PROVE  Inv'
<1> USE DEF rowVars, dataVars, loopVars, userVars, histVars, Goto
<1>1. /\ RowTypes /\ ClaimTypes /\ LoopTypes /\ HandTypes /\ RunTypes /\ GraphInv(g) /\ Apart
  BY TypeParts DEF Inv
<1>2. /\ Crew(g) /\ Grip(g) /\ Holds(g) /\ Ordered(g) /\ Ready(g) /\ Closing(g) /\ Attended(g)
      /\ Spent(g) /\ Paid(g) /\ Unpaused(g)
  BY <1>1 DEF GraphInv
<1>3. PICK n \in Of(g) : n = cur[g] /\ loop[g] = "rollback"
  BY <1>2 DEF rollback_task_admission, Grip
<1>4. n \in Node BY OfType
<1>5. /\ estado'[n] = "pendiente" /\ \A m \in Node \ {n} : estado'[m] = estado[m]
      /\ intentos'[n] = intentos[n] - 1 /\ \A m \in Node \ {n} : intentos'[m] = intentos[m]
      /\ claims'[n] = {} /\ \A m \in Node \ {n} : claims'[m] = claims[m]
  BY <1>1, <1>3, <1>4 DEF rollback_task_admission, RowTypes, ClaimTypes
<1>6. /\ loop'[g] \in {"cut", "pick"} /\ cand'[g] \subseteq cand[g]
      /\ \A h \in Graph \ {g} : loop'[h] = loop[h] /\ cand'[h] = cand[h] /\ cur'[h] = cur[h]
  BY <1>1, <1>3 DEF rollback_task_admission, Leave, LoopTypes, HandTypes
<1>7. UNCHANGED <<maxIntentos, deps, padre, run, starts, lost, effect, only, enCurso, hechas, salida,
                  grafo, verificacion, parada, cancelling, answer>>
  BY DEF rollback_task_admission
<1>8. Untold(g)
  <2>1. \A h \in Graph \ {g} : n \notin Of(h) BY DEF Of
  <2> QED BY <1>5, <1>6, <1>7, <2>1, OfType
       DEF Untold, Same, SameRows, SameRuns, SameLoop, SameData, SameUser
<1>9. Hand(g) = {n} /\ Hand(g)' = {} /\ Of(g)' = Of(g) BY <1>3, <1>6 DEF Hand, Of
<1>10. run[n] = "none" /\ estado[n] = "corriendo" BY <1>2, <1>3 DEF Grip
<1>11. Crew(g)'
  BY <1>2, <1>3, <1>5, <1>6, <1>7, <1>9, <1>10, OfType DEF Crew, Resting
<1>12. Grip(g)' BY <1>2, <1>3, <1>6, <1>7 DEF Grip
<1>13. Holds(g)' BY <1>2, <1>5, <1>7, <1>9, <1>10, OfType DEF Holds, Unfinished
<1>14. Ordered(g)' /\ \A m \in Of(g) : Done(m) => Done(m)'
  <2>1. \A m \in Of(g) : estado'[m] = "bloqueado" =>
          \E d \in deps[m] : estado'[d] \in {"fallado", "bloqueado"}
    BY <1>2, <1>5, <1>10, OfType DEF Ordered
  <2> QED BY <1>2, <1>5, <1>7, <1>10, <2>1, OfType, OrderKept
<1>15. Ready(g)' BY <1>2, <1>5, <1>6, <1>14, OfType, ReadyKept
<1>16. Closing(g)' BY <1>2, <1>3, <1>6, <1>7 DEF Closing
<1>17. Attended(g)' /\ Unpaused(g)' BY <1>2, <1>6, <1>7, <1>9 DEF Attended, Unpaused
<1>18. Paid(g)'
  BY <1>1, <1>2, <1>5, <1>7, <1>9, OfType DEF Paid, RowTypes, RunTypes
<1>19. Spent(g)' BY <1>2, <1>5, <1>7, <1>9, OfType DEF Spent
<1>20. Apart' BY <1>1, <1>5 DEF Apart
<1> QED BY <1>8, <1>11, <1>12, <1>13, <1>14, <1>15, <1>16, <1>17, <1>18, <1>19, <1>20, OneGraph
        DEF GraphInv

\* The files of a node that ended go first, and the node comes into hand.
LEMMA ReleaseKeeps ==
  ASSUME TypeOK, Inv, NEW g \in Graph, release_task_files(g)
  PROVE  Inv'
<1> USE DEF rowVars, dataVars, loopVars, userVars, histVars, Goto
<1>1. /\ RowTypes /\ ClaimTypes /\ LoopTypes /\ HandTypes /\ RunTypes /\ GraphInv(g) /\ Apart
  BY TypeParts DEF Inv
<1>2. /\ Crew(g) /\ Grip(g) /\ Holds(g) /\ Ordered(g) /\ Ready(g) /\ Closing(g) /\ Attended(g)
      /\ Spent(g) /\ Paid(g) /\ Unpaused(g)
  BY <1>1 DEF GraphInv
<1>3. PICK n \in hechas[g] : /\ run[n] \in Finished
                             /\ cur' = [cur EXCEPT ![g] = n]
                             /\ claims' = [claims EXCEPT ![n] = {}]
  BY DEF release_task_files
<1>4. n \in Of(g) /\ n \in Node /\ n \in enCurso[g] BY <1>2, <1>3, OfType DEF Grip, Crew
<1>5. /\ cur'[g] = n /\ \A h \in Graph \ {g} : cur'[h] = cur[h]
      /\ claims'[n] = {} /\ \A m \in Node \ {n} : claims'[m] = claims[m]
      /\ loop[g] = "close" /\ loop'[g] = "settle" /\ \A h \in Graph \ {g} : loop'[h] = loop[h]
  BY <1>1, <1>3, <1>4 DEF release_task_files, LoopTypes, HandTypes, ClaimTypes
<1>6. /\ FixedRows /\ UNCHANGED <<run, starts, lost, effect, only, cand, enCurso, hechas, salida, grafo,
                                 verificacion, parada, cancelling, answer>>
  BY DEF release_task_files, FixedRows
<1>7. Untold(g)
  <2>1. \A h \in Graph \ {g} : n \notin Of(h) BY <1>4 DEF Of
  <2> QED BY <1>5, <1>6, <2>1, OfType
       DEF Untold, Same, SameRows, SameRuns, SameLoop, SameData, SameUser, FixedRows
<1>8. Hand(g) = {} /\ Hand(g)' = {} /\ Of(g)' = Of(g) BY <1>5 DEF Hand, Of
<1>9. Crew(g)' BY <1>2, <1>5, <1>6, <1>8 DEF Crew, FixedRows, Resting
<1>10. Grip(g)' BY <1>2, <1>3, <1>5, <1>6 DEF Grip
<1>11. Holds(g)'
  <2>1. run[n] \notin Unfinished BY <1>3 DEF Unfinished, Finished
  <2> QED BY <1>2, <1>5, <1>6, <1>8, <2>1, OfType DEF Holds, FixedRows
<1>12. SameRows(g) BY <1>6 DEF FixedRows, SameRows
<1>13. Ordered(g)' BY <1>2, <1>8, <1>12, SameRowsRead DEF Ordered, SameRows
<1>14. Ready(g)' BY <1>1, <1>6, <1>12, SameReady
<1>15. Closing(g)' BY <1>2, <1>5, <1>6 DEF Closing
<1>16. Attended(g)' /\ Unpaused(g)' /\ Spent(g)' /\ Paid(g)'
  BY <1>2, <1>5, <1>6, <1>8 DEF Attended, Unpaused, Spent, Paid, FixedRows
<1>17. Apart' BY <1>1, <1>5 DEF Apart
<1> QED BY <1>7, <1>9, <1>10, <1>11, <1>13, <1>14, <1>15, <1>16, <1>17, OneGraph DEF GraphInv

\* What the closing of a node may do to the rows of its graph.
Settled(g) ==
  LET n == cur[g] IN
  /\ estado'[n] \notin {"corriendo", "absent"}
  /\ estado'[n] = "hecho" => estado[n] = "corriendo"
  /\ estado'[n] = "pendiente" => n \in Idempotent
  /\ estado'[n] = "bloqueado" => estado[n] = "bloqueado"
  /\ estado[n] = "fallado" => estado'[n] = "fallado"
  /\ \A m \in Of(g) \ {n} :
       \/ estado'[m] = estado[m]
       \/ /\ estado[m] \notin {"corriendo", "hecho", "absent"} /\ estado'[m] = "bloqueado"
          /\ \E d \in deps[m] : estado'[d] \in {"fallado", "bloqueado"}
  /\ \A m \in Of(g) \ {n} : estado[m] \in {"fallado", "bloqueado"} => estado'[m] = estado[m]
  /\ \A m \in Node \ Of(g) : estado'[m] = estado[m]

\* A node is closed: it leaves the nodes in flight with the state its result gives it.
LEMMA ClosedKeeps ==
  ASSUME TypeOK, Inv, NEW g \in Graph, loop[g] \in {"settle", "block"}, Settled(g),
         Closed(g, AfterClose(g)), cur' = [cur EXCEPT ![g] = Nobody],
         UNCHANGED <<intentos, maxIntentos, deps, padre, claims, starts, lost, effect, only, cand,
                     salida, grafo, verificacion, parada, cancelling, answer>>
  PROVE  Inv'
<1>1. /\ RowTypes /\ LoopTypes /\ HandTypes /\ RunTypes /\ GraphInv(g) /\ Apart
  BY TypeParts DEF Inv
<1>2. /\ Crew(g) /\ Grip(g) /\ Holds(g) /\ Ordered(g) /\ Ready(g) /\ Closing(g) /\ Attended(g)
      /\ Spent(g) /\ Paid(g) /\ Unpaused(g)
  BY <1>1 DEF GraphInv
<1>3. PICK n \in Of(g) : n = cur[g] /\ n \in hechas[g] /\ n \in enCurso[g] /\ claims[n] = {}
  BY <1>2 DEF Grip, Crew
<1>4. n \in Node BY OfType
<1>5. /\ enCurso'[g] = enCurso[g] \ {n} /\ hechas'[g] = hechas[g] \ {n}
      /\ run'[n] = "none" /\ \A m \in Node \ {n} : run'[m] = run[m]
      /\ \A h \in Graph \ {g} : /\ enCurso'[h] = enCurso[h] /\ hechas'[h] = hechas[h]
                                /\ cur'[h] = cur[h] /\ loop'[h] = loop[h]
  BY <1>1, <1>3, <1>4 DEF Closed, Become, HandTypes, RunTypes, LoopTypes, Goto
<1>6. /\ loop'[g] \in {"close", "last", "round"}
      /\ loop'[g] = "last" => hechas'[g] = {} /\ salida[g]
      /\ salida[g] => loop'[g] \in {"close", "last"}
  BY <1>1, <1>3, <1>5 DEF Closed, AfterClose, LoopTypes, Goto
<1>7. Untold(g)
  <2>1. \A h \in Graph \ {g} : n \notin Of(h) /\ Of(h) \subseteq Node \ Of(g) BY DEF Of
  <2> QED BY <1>5, <2>1, OfType
       DEF Untold, Same, SameRows, SameRuns, SameLoop, SameData, SameUser, Settled
<1>8. Hand(g) = {} /\ Hand(g)' = {} /\ Of(g)' = Of(g) BY <1>6 DEF Hand, Of
<1>9. /\ estado[n] \in {"corriendo", "fallado"} /\ estado'[n] \notin {"corriendo", "absent"}
      /\ \A m \in Of(g) : estado'[m] = "corriendo" <=> (estado[m] = "corriendo" /\ m # n)
      /\ \A m \in Of(g) : estado[m] = "hecho" => estado'[m] = "hecho"
  BY <1>2, <1>3 DEF Crew, Grip, Settled
<1>10. Crew(g)'
  <2>1. enCurso[g]' = {m \in Of(g)' : run'[m] # "none"}
    BY <1>2, <1>3, <1>5, <1>8, OfType DEF Crew
  <2>2. \A m \in enCurso'[g] : estado'[m] = "corriendo"
    BY <1>2, <1>3, <1>5, <1>9 DEF Crew
  <2>3. \A m \in Of(g) : estado'[m] = "corriendo" => m \in enCurso'[g]
    BY <1>2, <1>3, <1>5, <1>8, <1>9 DEF Crew
  <2>4. loop'[g] \in Resting => enCurso'[g] = {}
    BY <1>2, <1>3, <1>5, <1>6 DEF Grip, Resting
  <2> QED BY <1>8, <2>1, <2>2, <2>3, <2>4 DEF Crew
<1>11. Grip(g)' BY <1>2, <1>3, <1>5, <1>6, <1>8 DEF Grip
<1>12. Holds(g)' BY <1>2, <1>3, <1>5, <1>8, <1>9, OfType DEF Holds, Unfinished
<1>13. Ordered(g)' /\ \A m \in Of(g) : Done(m) => Done(m)'
  <2>1. \A m \in Of(g) : estado'[m] \in {"corriendo", "hecho"} =>
          estado[m] \in {"corriendo", "hecho"} \/ Done(m)
    BY <1>3 DEF Settled
  <2>2. \A m \in Of(g) : estado'[m] = "bloqueado" =>
          \E d \in deps[m] : estado'[d] \in {"fallado", "bloqueado"}
    BY <1>2, <1>3, <1>9 DEF Settled, Ordered
  <2> QED BY <1>2, <1>9, <2>1, <2>2, OrderKept
<1>14. Ready(g)' BY <1>2, <1>3, <1>9, <1>13, ReadyKept DEF Settled
<1>15. Closing(g)' BY <1>2, <1>3, <1>6 DEF Closing
<1>16. Attended(g)' /\ Unpaused(g)' BY <1>2, <1>6, <1>8 DEF Attended, Unpaused
<1>17. Paid(g)' BY <1>2, <1>8 DEF Paid
<1>18. Spent(g)'
  <2>1. \A m \in Of(g) : estado'[m] \in {"pendiente", "absent"} =>
          estado[m] \in {"pendiente", "absent"} \/ m \in Idempotent
    BY <1>3 DEF Settled
  <2> QED BY <1>2, <1>8, <2>1 DEF Spent
<1>19. Apart' BY <1>1 DEF Apart
<1> QED BY <1>7, <1>10, <1>11, <1>12, <1>13, <1>14, <1>15, <1>16, <1>17, <1>18, <1>19, OneGraph
        DEF GraphInv

\* Whatever depends on a node that is not done neither runs nor is done, and has in turn a
\* cause among its own dependencies.
LEMMA Dependents ==
  ASSUME RowTypes, NEW g \in Graph, Ordered(g), NEW n \in Of(g), estado[n] # "hecho"
  PROVE  /\ Dependientes(g, n) \subseteq Rows(g)
         /\ \A m \in Dependientes(g, n) : estado[m] \notin {"corriendo", "hecho"}
         /\ \A m \in Dependientes(g, n) :
              n \in deps[m] \/ \E d \in deps[m] : d \in Dependientes(g, n)
<1> DEFINE D == Dependientes(g, n)
           W == {m \in Rows(g) : estado[m] \notin {"corriendo", "hecho"}}
           C == {m \in D : n \in deps[m] \/ deps[m] \intersect D # {}}
<1>1. D \subseteq Rows(g) BY DEF Dependientes
<1>2. \A S \in SUBSET Rows(g) : ClosedUnder(g, n, S) => D \subseteq S
  BY DEF Dependientes
<1>3. ClosedUnder(g, n, W)
  <2>1. ASSUME NEW k \in Rows(g), n \in deps[k] \/ deps[k] \intersect W # {}
        PROVE  k \in W
    BY <2>1, OfType DEF Ordered, Done
  <2> QED BY <2>1 DEF ClosedUnder
<1>4. ClosedUnder(g, n, D)
  <2>1. ASSUME NEW k \in Rows(g), n \in deps[k] \/ deps[k] \intersect D # {},
               NEW S \in SUBSET Rows(g), ClosedUnder(g, n, S)
        PROVE  k \in S
    <3>1. D \subseteq S BY <1>2, <2>1
    <3> QED BY <2>1, <3>1 DEF ClosedUnder
  <2>2. \A k \in Rows(g) : n \in deps[k] \/ deps[k] \intersect D # {} => k \in D
    BY <2>1 DEF Dependientes
  <2> QED BY <2>2 DEF ClosedUnder
<1>5. ClosedUnder(g, n, C)
  <2>1. ASSUME NEW k \in Rows(g), n \in deps[k] \/ deps[k] \intersect C # {}
        PROVE  k \in C
    <3>1. k \in D BY <1>4, <2>1 DEF ClosedUnder
    <3> QED BY <2>1, <3>1
  <2> QED BY <2>1 DEF ClosedUnder
<1>6. W \in SUBSET Rows(g) /\ C \in SUBSET Rows(g) BY <1>1
<1>7. D \subseteq W /\ D \subseteq C BY <1>2, <1>3, <1>5, <1>6
<1> QED BY <1>1, <1>7

\* The closings: a result, a failure and what it decides, and what the failure blocks.
LEMMA SettleKeeps ==
  ASSUME TypeOK, Inv, NEW g \in Graph, SettleWell(g) \/ SettleFailure(g) \/ Block(g)
  PROVE  Inv'
<1> USE DEF rowVars, dataVars, loopVars, userVars, histVars
<1>1. /\ RowTypes /\ ClaimTypes /\ LoopTypes /\ HandTypes /\ RunTypes /\ GraphInv(g) /\ Apart
  BY TypeParts DEF Inv
<1>2. /\ Crew(g) /\ Grip(g) /\ Holds(g) /\ Ordered(g) /\ Ready(g) /\ Closing(g) /\ Attended(g)
      /\ Spent(g) /\ Paid(g) /\ Unpaused(g)
  BY <1>1 DEF GraphInv
<1>3. PICK n \in Of(g) : n = cur[g] /\ n \in hechas[g] /\ n \in enCurso[g] /\ claims[n] = {}
  BY <1>2 DEF Grip, Crew, SettleWell, SettleFailure, Block
<1>4. n \in Node BY OfType
<1>5. loop[g] = "settle" => estado[n] = "corriendo" BY <1>2, <1>3 DEF Crew
<1>6. CASE SettleWell(g)
  <2>1. /\ estado'[n] \in {"hecho", "esperando_humano"}
        /\ \A m \in Node \ {n} : estado'[m] = estado[m]
    BY <1>1, <1>3, <1>4, <1>6 DEF SettleWell, RowTypes
  <2>2. Settled(g) BY <1>3, <1>5, <1>6, <2>1, OfType DEF Settled, SettleWell
  <2> QED BY <1>6, <2>2, ClosedKeeps DEF SettleWell
<1>7. CASE SettleFailure(g)
  <2>1. PICK d \in Decisions(g) :
          /\ estado' = [estado EXCEPT ![n] = CASE d = "reintentar" -> "pendiente"
                                               [] d = "preguntar"  -> "esperando_humano"
                                               [] d = "fallar"     -> "fallado"]
          /\ IF d = "fallar"
             THEN Goto(g, "block") /\ UNCHANGED <<enCurso, hechas, run, cur>>
             ELSE Closed(g, AfterClose(g)) /\ cur' = [cur EXCEPT ![g] = Nobody]
    BY <1>3, <1>7 DEF SettleFailure
  <2>2. /\ d \in {"reintentar", "preguntar", "fallar"}
        /\ d = "reintentar" => n \in Idempotent
    BY <1>3 DEF Decisions, MayRetry
  <2>3. /\ d = "reintentar" => estado'[n] = "pendiente"
        /\ d = "preguntar" => estado'[n] = "esperando_humano"
        /\ d = "fallar" => estado'[n] = "fallado"
        /\ \A m \in Node \ {n} : estado'[m] = estado[m]
    BY <1>1, <1>4, <2>1, <2>2 DEF RowTypes
  <2>4. loop[g] = "settle" BY <1>7 DEF SettleFailure
  <2>5. CASE d # "fallar"
    <3>1. Settled(g) BY <1>3, <1>5, <2>2, <2>3, <2>4, <2>5, OfType DEF Settled
    <3> QED BY <1>7, <2>1, <2>4, <2>5, <3>1, ClosedKeeps DEF SettleFailure
  <2>6. CASE d = "fallar"
    <3>1. /\ UNCHANGED <<intentos, maxIntentos, deps, padre, only, cand, salida, grafo, verificacion,
                         parada, cancelling, answer, enCurso, hechas, cur>> /\ FixedRuns
          /\ loop'[g] = "block" /\ \A h \in Graph \ {g} : loop'[h] = loop[h]
      BY <1>1, <1>7, <2>1, <2>6 DEF SettleFailure, FixedRuns, LoopTypes, Goto
    <3>2. Untold(g)
      <4>1. \A h \in Graph \ {g} : n \notin Of(h) BY DEF Of
      <4> QED BY <2>3, <3>1, <4>1, OfType
           DEF Untold, Same, SameRows, SameRuns, SameLoop, SameData, SameUser, FixedRuns
    <3>3. Hand(g) = {} /\ Hand(g)' = {} /\ Of(g)' = Of(g) BY <2>4, <3>1 DEF Hand, Of
    <3>4. Crew(g)'
      BY <1>2, <1>3, <2>3, <2>4, <2>6, <3>1, <3>3, OfType DEF Crew, FixedRuns, Resting
    <3>5. Grip(g)' BY <1>2, <1>3, <2>3, <2>4, <2>6, <3>1, <3>3 DEF Grip, FixedRuns
    <3>6. Holds(g)'
      BY <1>2, <1>3, <2>3, <2>4, <3>1, <3>3, OfType DEF Holds, FixedRuns, Grip, Unfinished,
             Finished
    <3>7. Ordered(g)' /\ \A m \in Of(g) : Done(m) => Done(m)'
      <4>1. \A m \in Of(g) : estado'[m] = "bloqueado" =>
              \E k \in deps[m] : estado'[k] \in {"fallado", "bloqueado"}
        BY <1>2, <1>5, <2>3, <2>4, <2>6, OfType DEF Ordered
      <4> QED BY <1>2, <1>5, <2>3, <2>4, <2>6, <3>1, <4>1, OfType, OrderKept
    <3>8. Ready(g)' BY <1>2, <2>3, <2>6, <3>1, <3>7, OfType, ReadyKept
    <3>9. Closing(g)' BY <1>2, <1>3, <2>4, <3>1 DEF Closing
    <3>10. Attended(g)' /\ Unpaused(g)' BY <1>2, <3>1, <3>3 DEF Attended, Unpaused
    <3>11. Paid(g)' BY <1>2, <3>1, <3>3 DEF Paid, FixedRuns
    <3>12. Spent(g)' BY <1>2, <2>3, <2>6, <3>1, <3>3, OfType DEF Spent, FixedRuns
    <3>13. Apart' BY <1>1, <3>1 DEF Apart, FixedRuns
    <3> QED BY <3>2, <3>4, <3>5, <3>6, <3>7, <3>8, <3>9, <3>10, <3>11, <3>12, <3>13, OneGraph
            DEF GraphInv
  <2> QED BY <2>5, <2>6
<1>8. CASE Block(g)
  <2>1. estado[n] = "fallado" /\ loop[g] = "block" BY <1>2, <1>3, <1>8 DEF Block, Grip
  <2>2. \A m \in Node : estado'[m] = IF m \in bloqueados_por(g, n) THEN "bloqueado" ELSE estado[m]
    BY <1>3, <1>8 DEF Block
  <2>3. /\ Dependientes(g, n) \subseteq Of(g)
        /\ \A m \in Dependientes(g, n) : estado[m] \notin {"corriendo", "hecho", "absent"}
        /\ \A m \in Dependientes(g, n) :
             n \in deps[m] \/ \E d \in deps[m] : d \in Dependientes(g, n)
    BY <1>1, <1>2, <2>1, Dependents, OfType DEF Rows
  <2>4. \A m \in bloqueados_por(g, n) :
          m \in Dependientes(g, n) /\ estado[m] \notin {"fallado", "bloqueado", "hecho"}
    BY DEF bloqueados_por, TERMINALES
  <2>5. \A m \in Dependientes(g, n) : estado'[m] \in {"fallado", "bloqueado"}
    BY <1>1, <2>2, <2>3, OfType DEF bloqueados_por, TERMINALES
  <2>6. n \notin bloqueados_por(g, n) BY <2>1, <2>4
  <2>7. Settled(g)
    BY <1>3, <1>4, <2>1, <2>2, <2>3, <2>4, <2>5, <2>6, OfType DEF Settled
  <2> QED BY <1>8, <2>1, <2>7, ClosedKeeps DEF Block
<1> QED BY <1>6, <1>7, <1>8

\* A repaired row was running with nobody behind it, or waited with no attempt left.
LEMMA HealKeeps ==
  ASSUME TypeOK, Inv, Results, NEW g \in Graph, NEW n \in Node, sanar(g, n)
  PROVE  Inv'
<1> USE DEF rowVars, dataVars, loopVars, userVars, histVars
<1>1. /\ RowTypes /\ ClaimTypes /\ GraphInv(g) /\ Apart
  BY TypeParts DEF Inv
<1>2. /\ Crew(g) /\ Grip(g) /\ Holds(g) /\ Ordered(g) /\ Ready(g) /\ Closing(g) /\ Attended(g)
      /\ Spent(g) /\ Paid(g) /\ Unpaused(g)
  BY <1>1 DEF GraphInv
<1>3. /\ n \in Rows(g) /\ n \in Of(g) /\ loop[g] \in {"boot", "heal", "resume"}
      /\ estado[n] \in {"corriendo", "pendiente"} /\ enCurso[g] = {}
  BY <1>2, OfType DEF sanar, Healable, Rows, Crew, Resting
<1>4. /\ claims'[n] = {} /\ \A m \in Node \ {n} : claims'[m] = claims[m]
      /\ \A m \in Node \ {n} : estado'[m] = estado[m]
      /\ estado'[n] \in {"hecho", "pendiente", "esperando_humano"}
      /\ estado'[n] = "hecho" => chat[n] = "complete"
      /\ estado'[n] = "pendiente" => n \in Idempotent
  BY <1>1 DEF sanar, RowTypes, ClaimTypes, MayRetry
<1>5. UNCHANGED <<intentos, maxIntentos, deps, padre, run, starts, lost, effect, loop, only, cand, cur,
                  enCurso, hechas, salida, grafo, verificacion, parada, cancelling, answer>>
  BY DEF sanar
<1>6. estado'[n] = "hecho" => Done(n)
  BY <1>2, <1>3, <1>4 DEF Results, Ordered
<1>7. Untold(g)
  <2>1. \A h \in Graph \ {g} : n \notin Of(h) BY <1>3 DEF Of
  <2> QED BY <1>4, <1>5, <2>1, OfType
       DEF Untold, Same, SameRows, SameRuns, SameLoop, SameData, SameUser
<1>8. Hand(g) = {} /\ Hand(g)' = {} /\ Of(g)' = Of(g) BY <1>3, <1>5 DEF Hand, Of
<1>9. run[n] = "none" BY <1>2, <1>3 DEF Crew
<1>10. Crew(g)'
  BY <1>2, <1>3, <1>4, <1>5, <1>8, OfType DEF Crew
<1>11. Grip(g)' BY <1>2, <1>3, <1>5 DEF Grip
<1>12. Holds(g)' BY <1>2, <1>4, <1>5, <1>8, <1>9, OfType DEF Holds, Unfinished
<1>13. Ordered(g)' /\ \A m \in Of(g) : Done(m) => Done(m)'
  <2>1. \A m \in Of(g) : estado'[m] = "bloqueado" =>
          \E d \in deps[m] : estado'[d] \in {"fallado", "bloqueado"}
    BY <1>2, <1>3, <1>4, OfType DEF Ordered
  <2> QED BY <1>2, <1>3, <1>4, <1>5, <1>6, <2>1, OfType, OrderKept
<1>14. Ready(g)' BY <1>2, <1>4, <1>5, <1>13, OfType, ReadyKept
<1>15. Closing(g)'
  <2>1. ~TodoHecho(g) BY <1>3, OpenIsOperative DEF TERMINALES
  <2> QED BY <1>2, <1>3, <1>5, <2>1 DEF Closing
<1>16. Attended(g)' /\ Unpaused(g)' BY <1>2, <1>5, <1>8 DEF Attended, Unpaused
<1>17. Paid(g)' BY <1>2, <1>5, <1>8 DEF Paid
<1>18. Spent(g)' BY <1>2, <1>4, <1>5, <1>8, OfType DEF Spent
<1>19. Apart' BY <1>1, <1>4 DEF Apart
<1> QED BY <1>7, <1>10, <1>11, <1>12, <1>13, <1>14, <1>15, <1>16, <1>17, <1>18, <1>19, OneGraph
        DEF GraphInv

\* The verifier asks for a fix, or the graph fails: a new row, without dependencies.
LEMMA ContinueKeeps ==
  ASSUME TypeOK, Inv, NEW g \in Graph, Continue(g)
  PROVE  Inv'
<1> USE DEF rowVars, dataVars, loopVars, userVars, histVars, Goto
<1>1. /\ RowTypes /\ DataTypes /\ LoopTypes /\ GraphInv(g) /\ Apart
  BY TypeParts DEF Inv
<1>2. /\ Crew(g) /\ Grip(g) /\ Holds(g) /\ Ordered(g) /\ Ready(g) /\ Closing(g) /\ Attended(g)
      /\ Spent(g) /\ Paid(g) /\ Unpaused(g)
  BY <1>1 DEF GraphInv
<1>3. PICK n \in Fixes, proceed \in BOOLEAN :
        /\ GraphOf[n] = g /\ estado[n] = "absent"
        /\ estado' = [estado EXCEPT ![n] = IF proceed THEN "pendiente" ELSE "fallado"]
        /\ grafo' = [grafo EXCEPT ![g] = IF proceed THEN "activo" ELSE "fallado"]
        /\ loop' = [loop EXCEPT ![g] = IF proceed THEN "round" ELSE "cut"]
  BY DEF Continue
<1>4. n \in Node /\ n \in Of(g) /\ n \notin Idempotent
  BY <1>3, KindsAssumption, IdempotentAssumption DEF Node, Of
<1>5. /\ estado'[n] \in {"pendiente", "fallado"} /\ \A m \in Node \ {n} : estado'[m] = estado[m]
      /\ loop[g] = "verdict" /\ ~only[g]
      /\ \/ loop'[g] = "round" /\ grafo'[g] = "activo"
         \/ loop'[g] = "cut" /\ grafo'[g] = "fallado"
      /\ \A h \in Graph \ {g} :
           loop'[h] = loop[h] /\ grafo'[h] = grafo[h] /\ verificacion'[h] = verificacion[h]
  <2>1. \A h \in Graph \ {g} : verificacion'[h] = verificacion[h]
    BY <1>1 DEF Continue, Record, DataTypes
  <2> QED BY <1>1, <1>3, <1>4, <2>1 DEF Continue, RowTypes, DataTypes, LoopTypes
<1>6. UNCHANGED <<intentos, maxIntentos, deps, padre, claims, run, starts, lost, effect, only, cand, cur,
                  enCurso, hechas, salida, parada, cancelling, answer>>
  BY DEF Continue
<1>7. Untold(g)
  <2>1. \A h \in Graph \ {g} : n \notin Of(h) BY <1>3 DEF Of
  <2> QED BY <1>5, <1>6, <2>1, OfType
       DEF Untold, Same, SameRows, SameRuns, SameLoop, SameData, SameUser
<1>8. Hand(g) = {} /\ Hand(g)' = {} /\ Of(g)' = Of(g) /\ enCurso[g] = {}
  BY <1>2, <1>5 DEF Hand, Of, Crew, Resting
<1>9. Crew(g)' BY <1>2, <1>4, <1>5, <1>6, <1>8, OfType DEF Crew
<1>10. Grip(g)' BY <1>2, <1>5, <1>6 DEF Grip
<1>11. Holds(g)' BY <1>2, <1>3, <1>5, <1>6, <1>8, OfType DEF Holds
<1>12. Ordered(g)' /\ \A m \in Of(g) : Done(m) => Done(m)'
  <2>1. \A m \in Of(g) : estado'[m] = "bloqueado" =>
          \E d \in deps[m] : estado'[d] \in {"fallado", "bloqueado"}
    BY <1>2, <1>3, <1>4, <1>5, OfType DEF Ordered
  <2> QED BY <1>2, <1>3, <1>5, <1>6, <2>1, OfType, OrderKept
<1>13. Ready(g)' BY <1>2, <1>5, <1>6, <1>12, OfType, ReadyKept
<1>14. Closing(g)' BY <1>5, <1>6, <1>8 DEF Closing
<1>15. Attended(g)' /\ Unpaused(g)' BY <1>2, <1>5, <1>6, <1>8 DEF Attended, Unpaused
<1>16. Paid(g)' BY <1>2, <1>6, <1>8 DEF Paid
<1>17. Spent(g)' BY <1>2, <1>3, <1>4, <1>5, <1>6, <1>8, OfType DEF Spent
<1>18. Apart' BY <1>1, <1>6 DEF Apart
<1> QED BY <1>7, <1>9, <1>10, <1>11, <1>12, <1>13, <1>14, <1>15, <1>16, <1>17, <1>18, OneGraph
        DEF GraphInv

\* The rest of a split takes the place of the node before whatever waited for it.
LEMMA SplitKeeps ==
  ASSUME TypeOK, Inv, NEW n \in Node, Split(n)
  PROVE  Inv'
<1> USE DEF rowVars, dataVars, loopVars, userVars, histVars
<1> DEFINE H == {h \in Halves : GraphOf[h] = GraphOf[n]}
<1>0. PICK g \in Graph : g = GraphOf[n] BY GraphAssumption
<1>1. /\ RowTypes /\ RunTypes /\ GraphInv(g) /\ Apart
  BY TypeParts DEF Inv
<1>2. /\ Crew(g) /\ Grip(g) /\ Holds(g) /\ Ordered(g) /\ Ready(g) /\ Closing(g) /\ Attended(g)
      /\ Spent(g) /\ Paid(g) /\ Unpaused(g)
  BY <1>1 DEF GraphInv
<1>3. H \subseteq Of(g) /\ n \in Of(g) BY <1>0 DEF Of, Node
<1>4. /\ \A m \in H : estado[m] = "absent" /\ estado'[m] = "pendiente"
      /\ \A m \in Node \ H : estado'[m] = estado[m]
      /\ \A m \in H : padre'[m] = n /\ deps'[m] = deps[n]
      /\ \A m \in Node \ H : padre'[m] = padre[m]
      /\ \A m \in Node \ H : n \notin deps[m] => deps'[m] = deps[m]
      /\ \A m \in Node \ H : n \in deps[m] => deps'[m] = (deps[m] \ {n}) \union H
  BY <1>1, <1>3, OfType DEF Split, RowTypes
<1>5. /\ run[n] = "work" /\ run'[n] = "parted" /\ \A m \in Node \ {n} : run'[m] = run[m]
      /\ UNCHANGED <<intentos, maxIntentos, claims, starts, lost, effect>>
      /\ \A h \in Graph : SameLoop(h) /\ SameData(h) /\ SameUser(h)
  BY <1>1 DEF Split, Become, RunTypes, SameLoop, SameData, SameUser
<1>6. n \in enCurso[g] /\ estado[n] = "corriendo" /\ n \notin H
  BY <1>2, <1>3, <1>4, <1>5 DEF Crew, Grip, Finished
<1>7. \A m \in Of(g) : estado[m] \in {"corriendo", "hecho"} => n \notin deps[m]
  BY <1>2, <1>6 DEF Ordered, Done
<1>8. Untold(g)
  <2>1. ASSUME NEW h \in Graph \ {g}, NEW m \in Of(h)
        PROVE  m \in Node \ H /\ m # n /\ n \notin deps[m]
    <3>1. Ordered(h) BY DEF Inv, GraphInv
    <3> QED BY <1>3, <2>1, <3>1 DEF Of, Ordered
  <2> HIDE DEF H
  <2> QED BY <1>4, <1>5, <2>1
       DEF Untold, Same, SameRows, SameRuns
<1> HIDE DEF H
<1>9. Hand(g)' = Hand(g) /\ Of(g)' = Of(g) BY <1>5 DEF Hand, Of, SameLoop
<1>10. \A m \in Of(g) : estado'[m] \in {"corriendo", "hecho"} => estado[m] = estado'[m] /\ m \notin H
  BY <1>3, <1>4, OfType
<1>11. \A m \in Of(g) : Done(m) => deps'[m] = deps[m] \/ m \in H
  BY <1>4, <1>6, OfType DEF Done
<1>12. \A m \in Of(g) : estado[m] = "hecho" => estado'[m] = "hecho" BY <1>4, OfType
<1>13. \A m \in Of(g) \ H : Done(m) => Done(m)'
  BY <1>2, <1>11, <1>12 DEF Done, Ordered
<1>14. Done(n) BY <1>2, <1>3, <1>6 DEF Ordered
<1>15. Crew(g)'
  <2>1. loop[g] = "block" => cur[g] # n BY <1>2, <1>5 DEF Grip, Finished
  <2> QED BY <1>2, <1>3, <1>4, <1>5, <1>6, <1>9, <1>10, <2>1, OfType DEF Crew, SameLoop
<1>16. Grip(g)'
  <2>1. loop[g] \in {"settle", "block", "claim", "rollback"} => cur[g] # n
    BY <1>2, <1>5 DEF Grip, Finished
  <2>2. loop[g] \in {"settle", "block", "admit", "claim", "rollback"} => cur[g] \in Of(g)
    BY <1>2 DEF Grip, Crew
  <2>3. loop[g] \in {"block", "claim", "rollback"} => cur[g] \notin H
    BY <1>2, <1>4 DEF Grip
  <2> QED BY <1>2, <1>4, <1>5, <1>9, <2>1, <2>2, <2>3, OfType DEF Grip, SameLoop
<1>17. Holds(g)'
  BY <1>2, <1>3, <1>4, <1>5, <1>9, OfType DEF Holds, Unfinished
<1>18. Ordered(g)'
  <2>1. ASSUME NEW m \in Of(g) PROVE deps'[m] \subseteq Of(g)
    BY <1>2, <1>3, <1>4, <2>1, OfType DEF Ordered
  <2>2. ASSUME NEW m \in Of(g), estado'[m] \in {"corriendo", "hecho"} PROVE Done(m)'
    BY <1>2, <1>10, <1>13, <2>2 DEF Ordered
  <2>3. ASSUME NEW m \in Of(g), NEW p, p = padre'[m], p # Nobody
        PROVE  p \in Of(g) /\ Done(p)'
    <3>1. CASE m \in H
      <4>1. p = n BY <1>4, <2>3, <3>1
      <4> QED BY <1>3, <1>6, <1>13, <1>14, <4>1
    <3>2. CASE m \notin H
      <4>1. p = padre[m] /\ p \in Of(g) /\ Done(p)
        BY <1>2, <1>4, <2>3, <3>2, OfType DEF Ordered
      <4>2. CASE p \notin H BY <1>13, <4>1, <4>2
      <4>3. CASE p \in H
        BY <1>2, <1>3, <1>4, <1>12, <1>14, <4>1, <4>3 DEF Done, Ordered
      <4> QED BY <4>2, <4>3
    <3> QED BY <3>1, <3>2
  <2>4. ASSUME NEW m \in Of(g), estado'[m] = "bloqueado"
        PROVE  \E d \in deps'[m] : estado'[d] \in {"fallado", "bloqueado"}
    <3>1. m \notin H /\ estado[m] = "bloqueado" BY <1>4, <2>4, OfType
    <3>2. PICK d \in deps[m] : estado[d] \in {"fallado", "bloqueado"}
      BY <1>2, <3>1 DEF Ordered
    <3>3. d # n /\ d \notin H /\ d \in Node
      BY <1>2, <1>4, <1>6, <3>2, OfType DEF Ordered
    <3> QED BY <1>4, <3>1, <3>2, <3>3, OfType
  <2>5. \A m \in Of(g) : padre'[m] # Nobody => padre'[m] \in Of(g) /\ Done(padre[m])'
    BY <2>3
  <2> QED BY <1>9, <2>1, <2>2, <2>4, <2>5 DEF Ordered
<1>19. Ready(g)'
  <2>1. \A c \in cand[g] : c[1] \notin H BY <1>2, <1>4 DEF Ready
  <2> QED BY <1>2, <1>4, <1>5, <1>9, <1>13, <2>1, OfType DEF Ready, SameLoop
<1>20. Closing(g)' BY <1>2, <1>5, <1>6 DEF Closing, SameLoop, SameData, Crew, Resting
<1>21. Attended(g)' /\ Unpaused(g)'
  BY <1>2, <1>5, <1>9 DEF Attended, Unpaused, SameLoop, SameData, SameUser
<1>22. Paid(g)' BY <1>2, <1>5, <1>9 DEF Paid
<1>23. Spent(g)' BY <1>2, <1>4, <1>5, <1>9, OfType DEF Spent
<1>24. Apart' BY <1>1, <1>5 DEF Apart
<1> QED BY <1>8, <1>15, <1>16, <1>17, <1>18, <1>19, <1>20, <1>21, <1>22, <1>23, <1>24, OneGraph
        DEF GraphInv

\* What a resume reopens had failed or was blocked; and what it leaves blocked keeps a cause.
LEMMA ReopenedIs ==
  ASSUME RowTypes, NEW g \in Graph, Ordered(g)
  PROVE  /\ Reopened(g) \subseteq Rows(g)
         /\ \A m \in Reopened(g) : estado[m] \in {"fallado", "bloqueado"}
         /\ \A m \in Rows(g) \ Reopened(g) : estado[m] = "bloqueado" =>
              \E d \in deps[m] \ Reopened(g) : estado[d] \in {"fallado", "bloqueado"}
<1> DEFINE R == Reopened(g)
           W == {m \in Rows(g) : estado[m] \in {"fallado", "bloqueado"}}
<1>1. R \subseteq Rows(g) BY DEF Reopened
<1>2. \A S \in SUBSET Rows(g) :
        Granted(g) \subseteq S /\ (\A k \in Rows(g) : Opens(g, S, k) => k \in S) => R \subseteq S
  BY DEF Reopened
<1>3. R \subseteq W
  <2>1. Granted(g) \subseteq W BY DEF Granted
  <2>2. \A k \in Rows(g) : Opens(g, W, k) => k \in W BY DEF Opens
  <2>3. W \in SUBSET Rows(g) OBVIOUS
  <2> QED BY <1>2, <2>1, <2>2, <2>3
<1>4. ASSUME NEW k \in Rows(g), Opens(g, R, k) PROVE k \in R
  <2>1. ASSUME NEW S \in SUBSET Rows(g), Granted(g) \subseteq S,
               \A j \in Rows(g) : Opens(g, S, j) => j \in S
        PROVE  k \in S
    <3>1. R \subseteq S BY <1>2, <2>1
    <3>2. Opens(g, S, k) BY <1>4, <3>1 DEF Opens
    <3> QED BY <2>1, <3>2
  <2> QED BY <2>1 DEF Reopened
<1>5. ASSUME NEW m \in Rows(g) \ R, estado[m] = "bloqueado"
      PROVE  \E d \in deps[m] \ R : estado[d] \in {"fallado", "bloqueado"}
  <2>1. PICK d \in deps[m] : estado[d] \in {"fallado", "bloqueado"} /\ d \in Of(g)
    BY <1>5, OfType DEF Ordered
  <2>2. m \notin sustituidos(g)
    <3>1. ~Done(m) BY <2>1 DEF Done
    <3>2. \A k \in Rows(g) : padre[k] # m
      BY <1>5, <3>1, OfType, KindsAssumption DEF Ordered, Rows
    <3> QED BY <3>2 DEF sustituidos
  <2>3. ~Opens(g, R, m) BY <1>4, <1>5
  <2>4. deps[m] \intersect R = {} \/ \E k \in deps[m] : k \notin R /\ Dead(k)
    BY <1>5, <2>2, <2>3 DEF Opens
  <2> QED BY <2>1, <2>4 DEF Dead
<1> QED BY <1>1, <1>3, <1>5

\* A resume reopens what failed by its budget and what that had blocked.
LEMMA ResumeKeeps ==
  ASSUME TypeOK, Inv, NEW g \in Graph, prepare_graph_resume(g)
  PROVE  Inv'
<1> USE DEF rowVars, dataVars, loopVars, userVars, histVars
<1>1. /\ RowTypes /\ DataTypes /\ LoopTypes /\ HandTypes /\ RunTypes /\ GraphInv(g) /\ Apart
  BY TypeParts DEF Inv
<1>2. /\ Crew(g) /\ Grip(g) /\ Holds(g) /\ Ordered(g) /\ Ready(g) /\ Closing(g) /\ Attended(g)
      /\ Spent(g) /\ Paid(g) /\ Unpaused(g)
  BY <1>1 DEF GraphInv
<1>3. /\ UNCHANGED <<intentos, deps, padre, verificacion, claims, parada, cand, cur, enCurso, hechas,
                     salida, cancelling, answer, starts, lost, run>>
      /\ loop[g] = "resume"
  BY DEF prepare_graph_resume
<1>4. /\ loop'[g] \in {"off", "start"} /\ \A h \in Graph \ {g} : loop'[h] = loop[h]
      /\ loop'[g] = "off" => grafo'[g] = grafo[g] /\ only'[g] = only[g]
      /\ loop'[g] = "start" => grafo'[g] = "activo"
      /\ \A h \in Graph \ {g} : grafo'[h] = grafo[h] /\ only'[h] = only[h]
  <2>1. \/ loop' = [loop EXCEPT ![g] = "off"] /\ UNCHANGED <<grafo, only>>
        \/ /\ loop' = [loop EXCEPT ![g] = "start"] /\ grafo' = [grafo EXCEPT ![g] = "activo"]
           /\ \E b : only' = [only EXCEPT ![g] = b]
    BY Zenon DEF prepare_graph_resume, Goto
  <2> QED BY <1>1, <2>1 DEF LoopTypes, DataTypes
<1>5. ~only[g] /\ enCurso[g] = {} BY <1>2, <1>3 DEF Closing, Crew, Resting
<1>6. Hand(g) = {} /\ Hand(g)' = {} /\ Of(g)' = Of(g) BY <1>3, <1>4 DEF Hand, Of
<1>7. Crew(g) /\ Grip(g) => Grip(g)' BY <1>3, <1>4 DEF Grip
<1>8. Attended(g)' /\ Unpaused(g)' BY <1>2, <1>3, <1>4, <1>6 DEF Attended, Unpaused
<1>9. CASE UNCHANGED <<estado, maxIntentos, presupuesto, effect>>
  <2>1. FixedRows /\ FixedRuns /\ Elsewhere(g)
    BY <1>3, <1>4, <1>9 DEF FixedRows, FixedRuns, Elsewhere, SameLoop, SameData, SameUser
  <2>2. Crew(g)' BY <1>2, <1>3, <1>5, <1>6, <2>1 DEF Crew, FixedRows
  <2>3. Ready(g)' BY <1>1, <1>3, <2>1, SameReady DEF FixedRows, SameRows
  <2>4. Closing(g)'
    BY <1>2, <1>3, <1>4, <1>5, <2>1, SameRowsRead DEF FixedRows, SameRows, Closing
  <2> QED BY <1>2, <1>6, <1>7, <1>8, <2>1, <2>2, <2>3, <2>4, Quiet
<1>10. CASE ~UNCHANGED <<estado, maxIntentos, presupuesto, effect>>
  <2> DEFINE R == Reopened(g)
  <2>1. Grant(g) BY <1>10 DEF prepare_graph_resume
  <2>2. /\ Granted(g) # {}
        /\ estado' = [n \in Node |-> IF n \in R THEN "pendiente" ELSE estado[n]]
        /\ maxIntentos' = [n \in Node |-> IF n \in R /\ maxIntentos[n] <= intentos[n]
                                         THEN intentos[n] + 1 ELSE maxIntentos[n]]
        /\ effect' = effect \ R
    BY <1>10, <2>1, Zenon DEF Grant
  <2>3. /\ R \subseteq Rows(g) /\ R \subseteq Of(g)
        /\ \A m \in R : estado[m] \in {"fallado", "bloqueado"}
        /\ \A m \in Rows(g) \ R : estado[m] = "bloqueado" =>
             \E d \in deps[m] \ R : estado[d] \in {"fallado", "bloqueado"}
    BY <1>1, <1>2, ReopenedIs, OfType
  <2>4. ~TodoHecho(g)
    BY <2>2 DEF Granted, TodoHecho, Operativos
  <2> HIDE DEF R
  <2>5. Untold(g)
    <3>1. \A h \in Graph \ {g} : \A m \in Of(h) : m \in Node /\ m \notin R BY <2>3 DEF Of
    <3> QED BY <1>1, <1>3, <1>4, <2>2, <3>1
         DEF Untold, Same, SameRows, SameRuns, SameLoop, SameData, SameUser, RowTypes
  <2>6. Crew(g)' BY <1>2, <1>3, <1>5, <1>6, <2>2, <2>3, OfType DEF Crew
  <2>7. Holds(g)' BY <1>2, <1>3, <1>6, <2>2, <2>3, OfType DEF Holds
  <2>8. Ordered(g)' /\ \A m \in Of(g) : Done(m) => Done(m)'
    <3>1. ASSUME NEW m \in Of(g), estado'[m] = "bloqueado"
          PROVE  \E d \in deps[m] : estado'[d] \in {"fallado", "bloqueado"}
      <4>1. m \in Rows(g) \ R /\ estado[m] = "bloqueado"
        BY <2>2, <3>1, OfType DEF Rows, Of
      <4>2. PICK d \in deps[m] \ R : estado[d] \in {"fallado", "bloqueado"}
        BY <2>3, <4>1
      <4> QED BY <1>2, <2>2, <4>2, OfType DEF Ordered
    <3>2. \A m \in Of(g) : estado'[m] \in {"corriendo", "hecho"} => estado[m] \in {"corriendo", "hecho"}
      BY <2>2, OfType
    <3>3. \A m \in Of(g) : estado[m] = "hecho" => estado'[m] = "hecho"
      BY <2>2, <2>3, OfType
    <3> QED BY <1>2, <1>3, <3>1, <3>2, <3>3, OrderKept
  <2>9. Ready(g)'
    <3>1. \A m \in Of(g) : estado[m] # "absent" => estado'[m] # "absent" BY <2>2, OfType
    <3> QED BY <1>2, <1>3, <2>8, <3>1, ReadyKept
  <2>10. Closing(g)' BY <1>2, <1>3, <1>4, <1>5, <2>4 DEF Closing
  <2>11. Paid(g)'
    BY <1>1, <1>2, <1>3, <1>6, <2>2, OfType DEF Paid, RowTypes
  <2>12. Spent(g)' BY <1>2, <1>6, <2>2, OfType DEF Spent
  <2>13. Apart' BY <1>1, <1>3 DEF Apart
  <2> QED
    BY <1>2, <1>7, <1>8, <2>5, <2>6, <2>7, <2>8, <2>9, <2>10, <2>11, <2>12, <2>13, OneGraph
          DEF GraphInv
<1> QED BY <1>9, <1>10

\* An answer moves the row that waits, and a failure by decision blocks its dependents.
LEMMA AnswerKeeps ==
  ASSUME TypeOK, Inv, NEW g \in Graph, retomar_grafo_tras_respuesta(g)
  PROVE  Inv'
<1> USE DEF rowVars, dataVars, loopVars, userVars, histVars
<1>1. /\ RowTypes /\ DataTypes /\ LoopTypes /\ HandTypes /\ RunTypes /\ UserTypes /\ GraphInv(g) /\ Apart
  BY TypeParts DEF Inv
<1>2. /\ Crew(g) /\ Grip(g) /\ Holds(g) /\ Ordered(g) /\ Ready(g) /\ Closing(g) /\ Attended(g)
      /\ Spent(g) /\ Paid(g) /\ Unpaused(g)
  BY <1>1 DEF GraphInv
<1>3. PICK n \in Of(g), choice \in Choice : answer[g] = <<n, choice>>
  <2>1. answer[g] # <<>> /\ answer[g] \in Node \X Choice
    BY <1>1 DEF retomar_grafo_tras_respuesta, UserTypes
  <2>2. PICK m \in Node, choice \in Choice : answer[g] = <<m, choice>> BY <2>1
  <2>3. m \in Of(g) BY <1>2, <2>1, <2>2 DEF Attended
  <2> QED BY <2>2, <2>3
<1>4. n \in Node /\ answer[g] # <<>> BY <1>3, OfType DEF retomar_grafo_tras_respuesta
<1>5. UNCHANGED <<intentos, deps, padre, verificacion, claims, parada, only, cand, cur, enCurso, hechas,
                  salida, starts, lost, run>>
  BY DEF retomar_grafo_tras_respuesta
<1>6. Of(g)' = Of(g) /\ loop[g] # "boot" BY <1>2, <1>4 DEF Of, Attended
<1>7. CASE ~(estado[n] = "esperando_humano" /\ choice # "parar")
  <2>1. /\ UNCHANGED <<estado, maxIntentos, effect, grafo, loop>>
        /\ answer'[g] \in {<<>>, answer[g]}
        /\ \A h \in Graph \ {g} : answer'[h] = answer[h] /\ cancelling'[h] = cancelling[h]
    BY <1>1, <1>3, <1>7 DEF retomar_grafo_tras_respuesta, Interrupt, UserTypes
  <2>2. FixedRows /\ FixedRuns /\ Elsewhere(g)
    BY <1>5, <2>1 DEF FixedRows, FixedRuns, Elsewhere, SameLoop, SameData, SameUser
  <2>3. Hand(g)' = Hand(g) BY <1>5, <2>1 DEF Hand
  <2>4. Crew(g)' /\ Grip(g)'
    BY <1>2, <1>5, <1>6, <2>1, <2>2, <2>3 DEF Crew, Grip
  <2>5. Ready(g)' BY <1>1, <1>5, <2>2, SameReady DEF FixedRows, SameRows
  <2>6. Closing(g)' BY <1>2, <1>5, <2>1, <2>2, SameRowsRead DEF FixedRows, SameRows, Closing
  <2>7. Attended(g)' /\ Unpaused(g)'
    BY <1>2, <1>5, <1>6, <2>1 DEF Attended, Unpaused
  <2> QED BY <2>2, <2>3, <2>4, <2>5, <2>6, <2>7, Quiet
<1>8. CASE estado[n] = "esperando_humano" /\ choice # "parar"
  <2> DEFINE B == IF choice \in {"reintentar", "responder"} THEN {} ELSE bloqueados_por(g, n) \ {n}
  <2>1. /\ Apply(n, choice) /\ answer' = [answer EXCEPT ![g] = <<>>] /\ UNCHANGED cancelling
        /\ \/ loop[g] = "off" /\ grafo' = [grafo EXCEPT ![g] = "activo"] /\ loop' = [loop EXCEPT ![g] = "start"]
           \/ UNCHANGED <<grafo, loop>>
    BY <1>3, <1>8 DEF retomar_grafo_tras_respuesta, Goto
  <2>2. /\ \A h \in Graph \ {g} : answer'[h] = answer[h] /\ grafo'[h] = grafo[h] /\ loop'[h] = loop[h]
        /\ answer'[g] = <<>>
        /\ \/ loop[g] = "off" /\ grafo'[g] = "activo" /\ loop'[g] = "start"
           \/ grafo'[g] = grafo[g] /\ loop'[g] = loop[g]
    BY <1>1, <2>1 DEF UserTypes, DataTypes, LoopTypes
  <2>3. GraphOf[n] = g BY <1>3 DEF Of
  <2>4. /\ estado'[n] \in {"pendiente", "fallado"}
        /\ \A m \in B : m \in Node => estado'[m] = "bloqueado"
        /\ \A m \in Node \ (B \union {n}) : estado'[m] = estado[m]
        /\ B # {} => estado'[n] = "fallado"
        /\ \A m \in Node \ {n} : maxIntentos'[m] = maxIntentos[m]
        /\ maxIntentos'[n] \in {maxIntentos[n], intentos[n] + 1}
        /\ effect' = IF estado'[n] = "pendiente" THEN effect \ {n} ELSE effect
    BY <1>1, <1>4, <2>1, <2>3 DEF Apply, RowTypes
  <2>5. /\ Dependientes(g, n) \subseteq Of(g)
        /\ \A m \in Dependientes(g, n) : estado[m] \notin {"corriendo", "hecho", "absent"}
        /\ \A m \in Dependientes(g, n) :
             n \in deps[m] \/ \E d \in deps[m] : d \in Dependientes(g, n)
    BY <1>1, <1>2, <1>3, <1>8, Dependents, OfType DEF Rows
  <2>6. \A m \in B : /\ m \in Dependientes(g, n) /\ m # n /\ m \in Of(g) /\ m \in Node
                     /\ estado[m] \notin {"corriendo", "hecho", "absent", "fallado", "bloqueado"}
    BY <2>5, OfType DEF bloqueados_por, TERMINALES
  <2>7. B # {} => \A m \in Dependientes(g, n) : m \in B \/ m = n \/ estado[m] \in {"fallado", "bloqueado"}
    BY <2>5 DEF bloqueados_por, TERMINALES
  <2> HIDE DEF B
  <2>8. Untold(g)
    <3>1. \A h \in Graph \ {g} : \A m \in Of(h) : m \in Node /\ m # n /\ m \notin B
      BY <2>3, <2>6 DEF Of
    <3> QED BY <1>5, <2>1, <2>2, <2>4, <3>1
         DEF Untold, Same, SameRows, SameRuns, SameLoop, SameData, SameUser
  <2>9. Hand(g)' = Hand(g) BY <1>5, <2>2 DEF Hand
  <2>10. \A m \in Of(g) : /\ estado'[m] = "corriendo" <=> estado[m] = "corriendo"
                          /\ estado'[m] = "hecho" <=> estado[m] = "hecho"
                          /\ estado[m] \in {"fallado", "bloqueado"} => estado'[m] = estado[m]
                          /\ estado'[m] = "absent" <=> estado[m] = "absent"
                          /\ estado'[m] = "pendiente" => estado[m] = "pendiente" \/ m = n
    <3>1. ASSUME NEW m \in Of(g), m = n PROVE estado'[m] \in {"pendiente", "fallado"}
      BY <2>4, <3>1
    <3>2. ASSUME NEW m \in Of(g), m # n, m \in B PROVE estado'[m] = "bloqueado"
      BY <2>4, <3>2, OfType
    <3>3. ASSUME NEW m \in Of(g), m # n, m \notin B PROVE estado'[m] = estado[m]
      BY <2>4, <3>3, OfType
    <3> QED BY <1>8, <2>6, <3>1, <3>2, <3>3
  <2>11. Crew(g)'
    <3>1. loop'[g] \in Resting => loop[g] \in Resting BY <2>2 DEF Resting
    <3>2. loop[g] = "block" => estado'[cur[g]] = "fallado"
      BY <1>2, <2>10 DEF Grip, Crew
    <3> QED BY <1>2, <1>5, <1>6, <2>2, <2>9, <2>10, <3>1 DEF Crew
  <2>12. Grip(g)'
    <3>1. loop[g] \in {"settle", "block", "admit", "claim", "rollback"} => cur[g] \in Of(g)
      BY <1>2 DEF Grip, Crew
    <3> QED BY <1>2, <1>5, <1>6, <2>2, <2>10, <3>1 DEF Grip
  <2>13. Holds(g)' BY <1>2, <1>5, <1>6, <2>10 DEF Holds
  <2>14. Ordered(g)' /\ \A m \in Of(g) : Done(m) => Done(m)'
    <3>1. ASSUME NEW m \in Of(g), estado'[m] = "bloqueado"
          PROVE  \E d \in deps[m] : estado'[d] \in {"fallado", "bloqueado"}
      <4>1. CASE m \in B
        <5>1. \A d \in Dependientes(g, n) : estado'[d] \in {"fallado", "bloqueado"}
          BY <2>4, <2>5, <2>6, <2>7, <2>10, <4>1
        <5> QED BY <2>4, <2>5, <2>6, <4>1, <5>1
      <4>2. CASE m \notin B
        <5>1. estado[m] = "bloqueado" BY <2>4, <3>1, <4>2, OfType
        <5> QED BY <1>2, <2>10, <5>1 DEF Ordered
      <4> QED BY <4>1, <4>2
    <3> QED BY <1>2, <1>5, <2>10, <3>1, OrderKept
  <2>15. Ready(g)' BY <1>2, <1>5, <2>10, <2>14, ReadyKept
  <2>16. Closing(g)'
    <3>1. n \in Rows(g) BY <1>3, <1>8 DEF Rows, Of
    <3>2. ~TodoHecho(g) BY <1>8, <3>1, OpenIsOperative DEF TERMINALES
    <3>3. estado_del_grafo(g) \notin {"hecho", "fallado"} BY <1>8, <3>1, StateRead
    <3>4. ~(loop[g] = "off" /\ only[g]) /\ (loop[g] = "off" => enCurso[g] = {})
      BY <1>2 DEF Closing, Crew, Resting
    <3> QED BY <1>2, <1>5, <2>2, <3>2, <3>3, <3>4 DEF Closing
  <2>17. Attended(g)' /\ Unpaused(g)'
    BY <1>2, <1>5, <1>6, <2>1, <2>2 DEF Attended, Unpaused
  <2>18. Paid(g)'
    <3>1. \A m \in Of(g) : intentos[m] <= maxIntentos'[m]
      BY <1>1, <1>2, <2>4, OfType DEF Paid, RowTypes
    <3> QED BY <1>2, <1>5, <1>6, <2>9, <3>1 DEF Paid
  <2>19. Spent(g)'
    <3>1. \A m \in Of(g) : m \in effect' => m \in effect /\ ~(m = n /\ estado'[n] = "pendiente")
      BY <2>4
    <3> QED BY <1>2, <1>6, <2>9, <2>10, <3>1 DEF Spent
  <2>20. Apart' BY <1>1, <1>5 DEF Apart
  <2> QED
    BY <2>8, <2>11, <2>12, <2>13, <2>14, <2>15, <2>16, <2>17, <2>18, <2>19, <2>20, OneGraph
          DEF GraphInv
<1> QED BY <1>7, <1>8

\* The sweep of one graph reads the claims of all, and takes none from a row that runs.
LEMMA SweepKeeps ==
  ASSUME TypeOK, Inv, NEW g \in Graph, release_dead_claims(g)
  PROVE  Inv'
<1> USE DEF rowVars, dataVars, loopVars, userVars, histVars, Goto
<1>1. /\ ClaimTypes /\ LoopTypes /\ RunTypes /\ Apart BY TypeParts DEF Inv
<1>2. \A n \in Node : \/ claims'[n] = claims[n]
                      \/ claims'[n] = {} /\ (run[n] = "none" \/ estado[n] # "corriendo")
  BY <1>1 DEF release_dead_claims, ClaimTypes
<1>3. /\ FixedRows /\ UNCHANGED <<run, starts, lost, effect>>
      /\ \A h \in Graph : SameData(h) /\ SameUser(h)
      /\ \A h \in Graph \ {g} : SameLoop(h)
      /\ UNCHANGED <<only, cand, cur, enCurso, hechas, salida>>
      /\ loop[g] = "heal" /\ loop'[g] = "round"
  BY <1>1 DEF release_dead_claims, FixedRows, SameData, SameUser, SameLoop, LoopTypes
<1>4. \A h \in Graph : \/ loop'[h] = loop[h]
                       \/ loop[h] = "heal" /\ loop'[h] = "round"
  BY <1>3 DEF SameLoop
<1>5. ASSUME NEW h \in Graph PROVE GraphInv(h)'
  <2>1. GraphInv(h) BY DEF Inv
  <2>2. /\ Crew(h) /\ Grip(h) /\ Holds(h) /\ Ordered(h) /\ Ready(h) /\ Closing(h) /\ Attended(h)
        /\ Spent(h) /\ Paid(h) /\ Unpaused(h)
    BY <2>1 DEF GraphInv
  <2>3. SameRows(h) BY <1>3 DEF FixedRows, SameRows
  <2>4. Hand(h)' = Hand(h) /\ Of(h)' = Of(h) BY <1>3, <1>4 DEF Hand, Of
  <2>5. Crew(h)' BY <1>3, <1>4, <2>2, <2>4 DEF Crew, FixedRows, Resting
  <2>6. Grip(h)'
    <3>1. loop[h] \in {"settle", "block"} => cur[h] \in Node
      BY <2>2, OfType DEF Grip, Crew
    <3> QED BY <1>2, <1>3, <1>4, <2>2, <2>4, <3>1 DEF Grip, FixedRows
  <2>7. Holds(h)'
    <3>1. ASSUME NEW n \in Of(h), run[n] \in Unfinished
          PROVE  estado[n] = "corriendo" /\ run[n] # "none"
      BY <2>2, <3>1 DEF Crew, Grip, Unfinished, Finished
    <3> QED BY <1>2, <1>3, <2>2, <2>4, <3>1, OfType DEF Holds, FixedRows
  <2>8. Ordered(h)' BY <2>2, <2>3, <2>4, SameRowsRead DEF Ordered, SameRows
  <2>9. Ready(h)' BY <1>3, <2>1, <2>3, SameReady
  <2>10. Closing(h)' BY <1>3, <1>4, <2>2, <2>3, SameRowsRead DEF Closing, SameData
  <2>11. Attended(h)' /\ Unpaused(h)' /\ Spent(h)' /\ Paid(h)'
    BY <1>3, <1>4, <2>2, <2>4 DEF Attended, Unpaused, Spent, Paid, FixedRows, SameData, SameUser
  <2> QED BY <2>5, <2>6, <2>7, <2>8, <2>9, <2>10, <2>11 DEF GraphInv
<1>6. Apart' BY <1>1, <1>2 DEF Apart
<1> QED BY <1>5, <1>6 DEF Inv

\* A process that dies leaves rows, claims and questions, and the attempt it had charged.
LEMMA CrashKeeps ==
  ASSUME TypeOK, Inv, Crash
  PROVE  Inv'
<1> USE DEF rowVars, dataVars, loopVars, userVars, histVars
<1>1. /\ LoopTypes /\ RunTypes /\ DataTypes /\ Apart BY TypeParts DEF Inv
<1>2. /\ FixedRows /\ UNCHANGED <<claims, starts, effect, grafo, verificacion, parada>>
  BY DEF Crash, FixedRows
<1>3. \A n \in Node : /\ run'[n] = "none"
                      /\ lost'[n] = IF \E k \in Graph : cur[k] = n /\ loop[k] \in {"claim", "rollback"}
                                    THEN lost[n] + 1 ELSE lost[n]
  BY DEF Crash
<1>4. ASSUME NEW h \in Graph PROVE GraphInv(h)'
  <2>1. GraphInv(h) BY DEF Inv
  <2>2. /\ Crew(h) /\ Grip(h) /\ Holds(h) /\ Ordered(h) /\ Ready(h) /\ Closing(h) /\ Attended(h)
        /\ Spent(h) /\ Paid(h) /\ Unpaused(h)
    BY <2>1 DEF GraphInv
  <2>3. /\ loop'[h] = IF grafo[h] = "activo" THEN "boot" ELSE "off"
        /\ ~only'[h] /\ cand'[h] = {} /\ enCurso'[h] = {} /\ hechas'[h] = {} /\ ~salida'[h]
        /\ cancelling'[h] = "no" /\ answer'[h] = <<>>
    BY DEF Crash
  <2>4. Hand(h)' = {} /\ Of(h)' = Of(h) BY <2>3 DEF Hand, Of
  <2>5. SameRows(h) BY <1>2 DEF FixedRows, SameRows
  <2>6. \A n \in Of(h) : n \in Hand(h) <=>
          \E k \in Graph : cur[k] = n /\ loop[k] \in {"claim", "rollback"}
    <3>1. \A k \in Graph : loop[k] \in {"claim", "rollback"} => cur[k] \in Of(k)
      BY DEF Inv, GraphInv, Grip
    <3> QED BY <3>1 DEF Hand, Of
  <2>7. Crew(h)'
    <3>1. grafo[h] # "activo" => \A n \in Of(h) : estado[n] # "corriendo"
      BY <2>2 DEF Closing, Crew, Hand
    <3> QED BY <1>2, <1>3, <2>3, <2>4, <3>1, OfType DEF Crew, FixedRows
  <2>8. Grip(h)' BY <2>3 DEF Grip
  <2>9. Holds(h)' BY <1>2, <1>3, <2>2, <2>4, OfType DEF Holds, FixedRows, Unfinished
  <2>10. Ordered(h)' BY <2>2, <2>4, <2>5, SameRowsRead DEF Ordered, SameRows
  <2>11. Ready(h)' BY <2>3 DEF Ready
  <2>12. Closing(h)' BY <1>2, <2>2, <2>3, <2>5, SameRowsRead DEF Closing
  <2>13. Attended(h)' /\ Unpaused(h)' BY <2>3 DEF Attended, Unpaused
  <2>14. Paid(h)'
    BY <1>1, <1>2, <1>3, <2>2, <2>4, <2>6, OfType DEF Paid, FixedRows, RunTypes
  <2>15. Spent(h)' BY <1>2, <2>2, <2>4 DEF Spent, FixedRows
  <2> QED BY <2>7, <2>8, <2>9, <2>10, <2>11, <2>12, <2>13, <2>14, <2>15 DEF GraphInv
<1>5. Apart' BY <1>1, <1>2 DEF Apart
<1> QED BY <1>4, <1>5 DEF Inv

-----------------------------------------------------------------------------
(* A complete result is settled as done, whoever finds it.                   *)

\* A step that leaves chats and executors owes only the rows of complete results.
LEMMA ResultsStay ==
  ASSUME Results, UNCHANGED <<chat, run>>,
         \A n \in Node : chat[n] = "complete" /\ estado[n] \in {"corriendo", "hecho"} =>
           estado'[n] \in {"corriendo", "hecho"},
         \A n \in Node : chat[n] = "complete" /\ InHand(n)' => InHand(n)
  PROVE  Results'
BY DEF Results

\* What may become blocked neither runs nor is done.
LEMMA BlockedIdle ==
  ASSUME RowTypes, NEW g \in Graph, Ordered(g), NEW n \in Of(g), estado[n] # "hecho"
  PROVE  \A m \in bloqueados_por(g, n) : estado[m] \notin {"corriendo", "hecho"}
BY Dependents DEF bloqueados_por

\* A complete result outlives the steps of the loop ...
LEMMA LoopResults ==
  ASSUME TypeOK, Inv, Results, NEW g \in Graph, LoopStep(g)
  PROVE  Results'
<1> USE DEF rowVars, dataVars, loopVars, userVars, histVars, Goto
<1>1. /\ RowTypes /\ LoopTypes /\ HandTypes /\ RunTypes /\ Crew(g) /\ Grip(g) /\ Ordered(g)
  BY TypeParts DEF Inv, GraphInv
<1>2. ASSUME \/ in_workspace(g) \/ release_dead_claims(g) \/ Round(g) \/ Pick(g) \/ NoMore(g)
             \/ Wake(g) \/ release_task_files(g) \/ End(g) \/ Verdict(g) \/ CloseOnly(g)
             \/ OnlyStopped(g) \/ Unwind(g) \/ Last(g)
      PROVE  Results'
  <2>1. UNCHANGED <<chat, run, estado>>
    BY <1>2 DEF in_workspace, release_dead_claims, Round, Pick, NoMore, Wake,
           release_task_files, End,
       Verdict, CloseOnly, OnlyStopped, Unwind, Last
  <2>2. loop'[g] \notin {"claim", "rollback"} /\ \A h \in Graph \ {g} : loop'[h] = loop[h]
    BY <1>1, <1>2 DEF in_workspace, release_dead_claims, Round, Pick, NoMore, Wake,
       release_task_files, End, Verdict, CloseOnly, OnlyStopped, Unwind, Last, LoopTypes
  <2>3. \A h \in Graph \ {g} : cur'[h] = cur[h]
    BY <1>1, <1>2 DEF in_workspace, release_dead_claims, Round, Pick, NoMore, Wake,
       release_task_files, End, Verdict, CloseOnly, OnlyStopped, Unwind, Last, HandTypes
  <2> QED BY <2>1, <2>2, <2>3, ResultsStay DEF InHand
<1>3. CASE Admit(g)
  <2>1. \A n \in Node : InHand(n)' => InHand(n) \/ estado[n] = "pendiente"
    BY <1>1, <1>3 DEF Admit, Admissible, Leave, InHand, LoopTypes, HandTypes
  <2>2. \A n \in Node : estado'[n] \in {estado[n], "corriendo"}
    BY <1>1, <1>3 DEF Admit, RowTypes
  <2> QED BY <1>3, <2>1, <2>2, ResultsStay DEF Admit, Results
<1>4. CASE Claim(g) \/ ClaimCancelled(g)
  <2>1. PICK n \in Node : n = cur[g] /\ loop[g] = "claim"
    BY <1>1, <1>4, OfType DEF Claim, ClaimCancelled, Grip
  <2>2. chat[n] # "complete" BY <2>1 DEF Results, InHand
  <2>3. \A m \in Node \ {n} : run'[m] = run[m]
    BY <1>1, <1>4, <2>1 DEF Claim, ClaimCancelled, RunTypes
  <2>4. \A m \in Node : InHand(m)' => InHand(m)
    <3>1. \A h \in Graph \ {g} : loop'[h] = loop[h] /\ cur'[h] = cur[h]
      BY <1>1, <1>4 DEF Claim, ClaimCancelled, Leave, LoopTypes, HandTypes
    <3>2. loop'[g] \in {"claim", "rollback"} => cur'[g] = cur[g]
      BY <1>1, <1>4 DEF Claim, ClaimCancelled, Leave, LoopTypes, HandTypes
    <3> QED BY <2>1, <3>1, <3>2 DEF InHand
  <2> QED BY <1>4, <2>2, <2>3, <2>4 DEF Claim, ClaimCancelled, Results
<1>5. CASE rollback_task_admission(g)
  <2>1. PICK n \in Node : n = cur[g] /\ loop[g] = "rollback"
    BY <1>1, <1>5, OfType DEF rollback_task_admission, Grip
  <2>2. chat[n] # "complete" BY <2>1 DEF Results, InHand
  <2>3. \A m \in Node \ {n} : estado'[m] = estado[m]
    BY <1>1, <1>5, <2>1 DEF rollback_task_admission, RowTypes
  <2>4. \A m \in Node : InHand(m)' => InHand(m)
    BY <1>1, <1>5 DEF rollback_task_admission, Leave, InHand, LoopTypes, HandTypes
  <2> QED BY <1>5, <2>2, <2>3, <2>4 DEF rollback_task_admission, Results
<1>6. CASE SettleWell(g) \/ SettleFailure(g) \/ Block(g)
  <2>1. PICK n \in Of(g) : n = cur[g] /\ run[n] \in Finished
    BY <1>1, <1>6 DEF Grip, Crew, SettleWell, SettleFailure, Block
  <2>2. n \in Node BY OfType
  <2>3. \A m \in Node \ {n} : /\ run'[m] = run[m]
                              /\ estado[m] \in {"corriendo", "hecho"} => estado'[m] = estado[m]
    <3>1. CASE SettleWell(g)
      BY <1>1, <2>1, <3>1 DEF SettleWell, Closed, Become, RowTypes, RunTypes
    <3>2. CASE SettleFailure(g)
      <4>1. \A m \in Node \ {n} : estado'[m] = estado[m]
        BY <1>1, <2>1, <3>2 DEF SettleFailure, RowTypes
      <4>2. \A m \in Node \ {n} : run'[m] = run[m]
        BY <1>1, <2>1, <3>2 DEF SettleFailure, Closed, Become, RunTypes
      <4> QED BY <4>1, <4>2
    <3>3. CASE Block(g)
      <4>1. \A m \in bloqueados_por(g, n) : estado[m] \notin {"corriendo", "hecho"}
        BY <1>1, <2>1, <3>3, BlockedIdle DEF Block, Grip
      <4> QED BY <1>1, <2>1, <3>3, <4>1 DEF Block, Closed, Become, RowTypes, RunTypes
    <3> QED BY <1>6, <3>1, <3>2, <3>3
  <2>4. \A m \in Node : InHand(m)' => InHand(m)
    <3>1. loop'[g] \notin {"claim", "rollback"} /\ \A h \in Graph \ {g} : loop'[h] = loop[h]
      BY <1>1, <1>6 DEF SettleWell, SettleFailure, Block, Closed, AfterClose, LoopTypes
    <3>2. \A h \in Graph \ {g} : cur'[h] = cur[h]
      BY <1>1, <1>6 DEF SettleWell, SettleFailure, Block, HandTypes
    <3> QED BY <3>1, <3>2 DEF InHand
  <2>5. chat[n] = "complete" => estado'[n] = "hecho" /\ run'[n] \in {"none", "ok"}
    <3>1. chat[n] = "complete" => run[n] = "ok" /\ loop[g] = "settle"
      BY <1>1, <1>6, <2>1, <2>2 DEF Results, Finished, Grip, SettleWell, SettleFailure, Block
    <3>2. chat[n] = "complete" => SettleWell(g)
      BY <1>6, <2>1, <3>1 DEF SettleFailure, Block
    <3> QED BY <1>1, <2>1, <2>2, <3>1, <3>2 DEF SettleWell, Closed, Become, RowTypes, RunTypes
  <2>6. ASSUME chat[n] = "complete" PROVE ~InHand(n)
    BY <2>2, <2>6 DEF Results
  <2>7. UNCHANGED chat BY <1>6 DEF SettleWell, SettleFailure, Block
  <2> QED BY <2>2, <2>3, <2>4, <2>5, <2>6, <2>7 DEF Results
<1>7. CASE Continue(g)
  <2>1. PICK n \in Fixes : /\ estado[n] = "absent"
                           /\ \E e : estado' = [estado EXCEPT ![n] = e]
    BY <1>7 DEF Continue
  <2>2. \A m \in Node \ {n} : estado'[m] = estado[m] BY <1>1, <2>1 DEF RowTypes
  <2>3. loop'[g] \notin {"claim", "rollback"} /\ \A h \in Graph \ {g} : loop'[h] = loop[h]
    BY <1>1, <1>7 DEF Continue, LoopTypes
  <2> QED BY <1>7, <2>1, <2>2, <2>3, ResultsStay DEF Continue, InHand
<1>8. CASE Cut(g)
  <2>1. \A n \in Node : chat'[n] = "complete" => chat[n] = "complete" /\ run'[n] = run[n]
    <3>1. \A n \in Node : chat[n] = "complete" => run[n] \notin Unfinished
      BY DEF Results, Unfinished
    <3> QED BY <1>8, <3>1 DEF Cut
  <2>2. loop'[g] \notin {"claim", "rollback"} /\ \A h \in Graph \ {g} : loop'[h] = loop[h]
    BY <1>1, <1>8 DEF Cut, LoopTypes
  <2>3. UNCHANGED <<estado, cur>> BY <1>8 DEF Cut
  <2> QED BY <2>1, <2>2, <2>3 DEF Results, InHand
<1> QED BY <1>2, <1>3, <1>4, <1>5, <1>6, <1>7, <1>8 DEF LoopStep

\* ... and all the others.
LEMMA OtherResults ==
  ASSUME TypeOK, Inv, Results, Next, \A g \in Graph : ~LoopStep(g)
  PROVE  Results'
<1> USE DEF rowVars, dataVars, loopVars, userVars, histVars, Goto
<1>1. RowTypes /\ LoopTypes /\ RunTypes /\ UserTypes
  BY TypeParts
<1>2. ASSUME NEW g \in Graph, Booted(g) PROVE Results'
  BY <1>1, <1>2, ResultsStay DEF Booted, InHand, LoopTypes
<1>3. ASSUME NEW g \in Graph, NEW n \in Node, sanar(g, n) PROVE Results'
  <2>1. /\ \A m \in Node \ {n} : estado'[m] = estado[m]
        /\ chat[n] = "complete" => estado'[n] = "hecho"
    BY <1>1, <1>3 DEF sanar, RowTypes
  <2> QED BY <1>3, <2>1, ResultsStay DEF sanar, InHand
<1>4. ASSUME NEW n \in Node, NodeStep(n) PROVE Results'
  <2>1. UNCHANGED <<loop, cur>> BY <1>4 DEF NodeStep, Prepare, Break, AskHuman, Finish, Split
  <2>2. \A m \in Node \ {n} : run'[m] = run[m]
    BY <1>1, <1>4 DEF NodeStep, Prepare, Break, AskHuman, Finish, Split, Become, RunTypes
  <2>3. \A m \in Node \ {n} : chat'[m] = chat[m]
    BY <1>1, <1>4 DEF NodeStep, Prepare, Break, AskHuman, Finish, Split, RowTypes
  <2>4. \A m \in Node : estado'[m] = estado[m] \/ estado[m] = "absent"
    BY <1>1, <1>4 DEF NodeStep, Prepare, Break, AskHuman, Finish, Split, RowTypes
  <2>5. ASSUME chat'[n] = "complete"
        PROVE  estado'[n] \in {"corriendo", "hecho"} /\ run'[n] \in {"none", "ok"} /\ ~InHand(n)
    <3>1. run[n] \in Unfinished
      BY <1>4 DEF NodeStep, Prepare, Break, AskHuman, Finish, Split, Unfinished
    <3>2. chat[n] # "complete" BY <3>1 DEF Results, Unfinished
    <3>3. Finish(n)
      BY <1>1, <1>4, <2>5, <3>2 DEF NodeStep, Prepare, Break, AskHuman, Split, RowTypes
    <3>4. run'[n] = "ok"
      BY <1>1, <2>5, <3>3 DEF Finish, Become, RowTypes, RunTypes
    <3>5. estado[n] = "corriendo" /\ ~InHand(n)
      <4>1. PICK g \in Graph : n \in Of(g) BY GraphAssumption DEF Of
      <4>2. \A h \in Graph : Crew(h) /\ Grip(h) BY DEF Inv, GraphInv
      <4>3. estado[n] = "corriendo"
        BY <3>1, <4>1, <4>2 DEF Crew, Grip, Unfinished, Finished
      <4>4. ~InHand(n) BY <3>1, <4>2 DEF InHand, Grip, Unfinished
      <4> QED BY <4>3, <4>4
    <3> QED BY <2>4, <3>4, <3>5
  <2> QED BY <2>1, <2>2, <2>3, <2>4, <2>5 DEF Results, InHand
<1>5. ASSUME NEW n \in Node, preguntar_por_la_tarea(n) PROVE Results'
  BY <1>5, ResultsStay DEF preguntar_por_la_tarea, InHand
<1>6. ASSUME NEW g \in Graph, HandlerStep(g) PROVE Results'
  <2>1. CASE prepare_graph_resume(g)
    <3>1. /\ UNCHANGED <<chat, run, cur>>
          /\ loop'[g] \notin {"claim", "rollback"} /\ \A h \in Graph \ {g} : loop'[h] = loop[h]
      BY <1>1, <2>1 DEF prepare_graph_resume, LoopTypes
    <3>2. \A n \in Node : estado[n] \in {"corriendo", "hecho"} => estado'[n] = estado[n]
      <4>1. CASE UNCHANGED estado BY <4>1
      <4>2. CASE ~UNCHANGED estado
        <5>1. estado' = [n \in Node |-> IF n \in Reopened(g) THEN "pendiente" ELSE estado[n]]
          BY <2>1, <4>2, Zenon DEF prepare_graph_resume, Grant
        <5> QED BY <1>1, <5>1, ReopenedIs DEF Inv, GraphInv
      <4> QED BY <4>1, <4>2
    <3> QED BY <3>1, <3>2, ResultsStay DEF InHand
  <2>2. CASE retomar_grafo_tras_respuesta(g)
    <3>1. /\ UNCHANGED <<chat, run, cur>>
          /\ loop'[g] \in {loop[g], "start"} /\ \A h \in Graph \ {g} : loop'[h] = loop[h]
      BY <1>1, <2>2 DEF retomar_grafo_tras_respuesta, LoopTypes
    <3>2. \A n \in Node : estado[n] \in {"corriendo", "hecho"} => estado'[n] = estado[n]
      <4>1. CASE UNCHANGED estado BY <4>1
      <4>2. CASE ~UNCHANGED estado
        <5>1. PICK m \in Of(g), choice \in Choice : answer[g] = <<m, choice>>
          <6>1. answer[g] # <<>> /\ answer[g] \in Node \X Choice
            BY <1>1, <2>2 DEF retomar_grafo_tras_respuesta, UserTypes
          <6>2. answer[g][1] \in Of(g) BY <6>1 DEF Inv, GraphInv, Attended
          <6> QED BY <6>1, <6>2
        <5>2. estado[m] = "esperando_humano" /\ Apply(m, choice)
          BY <2>2, <4>2, <5>1 DEF retomar_grafo_tras_respuesta
        <5>3. GraphOf[m] = g /\ m \in Node BY <5>1 DEF Of
        <5>4. \A n \in bloqueados_por(g, m) : estado[n] \notin {"corriendo", "hecho"}
          BY <1>1, <5>1, <5>2, BlockedIdle DEF Inv, GraphInv
        <5> QED BY <1>1, <5>2, <5>3, <5>4 DEF Apply, RowTypes
      <4> QED BY <4>1, <4>2
    <3> QED BY <3>1, <3>2, ResultsStay DEF InHand
  <2>3. CASE FinishCancel(g) \/ CancelDone(g)
    BY <2>3, ResultsStay DEF FinishCancel, CancelDone, InHand
  <2> QED BY <1>6, <2>1, <2>2, <2>3 DEF HandlerStep
<1>7. CASE PersonStep
  <2>1. UNCHANGED <<estado, chat, run, cur>>
    BY <1>7 DEF PersonStep, Resume, Pause, Unpause, graphs_cancel, skip_expert_question, Answer
  <2>2. \A h \in Graph : loop'[h] \in {loop[h], "resume"}
    BY <1>1, <1>7 DEF PersonStep, Resume, Pause, Unpause, graphs_cancel, skip_expert_question,
           Answer,
       LoopTypes
  <2> QED BY <2>1, <2>2, ResultsStay DEF InHand
<1>8. CASE Crash
  BY <1>8 DEF Crash, Results, InHand
<1> QED BY <1>2, <1>3, <1>4, <1>5, <1>6, <1>7, <1>8 DEF Next, RepairStep


-----------------------------------------------------------------------------
(* Every step keeps the invariant.                                           *)

\* A plan as it is stored, with no worker, satisfies the invariant.
LEMMA InitInv == ASSUME Init PROVE IInv
<1>1. TypeOK
  BY GraphAssumption, DepsAssumption, KindsAssumption, AttemptsAssumption
     DEF Init, TypeOK, Estado, Place, Working, Unfinished, Finished, Node
<1>2. Apart /\ Results
  BY DEF Init, Apart, Results
<1>3. ASSUME NEW g \in Graph PROVE GraphInv(g)
  <2>1. Hand(g) = {} BY DEF Init, Hand
  <2>2. Crew(g) /\ Grip(g) BY <2>1 DEF Init, Crew, Grip, Of, Resting
  <2>5. Holds(g) /\ Ready(g) /\ Unpaused(g) BY DEF Init, Holds, Ready, Unpaused, Unfinished, Of
  <2>6. Closing(g) /\ Attended(g) BY DEF Init, Closing, Attended
  <2>7. Spent(g) BY <2>1 DEF Init, Spent
  <2>3. Ordered(g)
    <3>1. \A n \in Of(g) : deps[n] \subseteq Of(g)
      BY DepsAssumption DEF Init, Of, Node
    <3> QED BY <3>1 DEF Init, Ordered, Of
  <2>4. Paid(g)
    BY <2>1, AttemptsAssumption DEF Init, Paid, Of
  <2> QED BY <2>2, <2>3, <2>4, <2>5, <2>6, <2>7 DEF GraphInv
<1> QED BY <1>1, <1>2, <1>3 DEF IInv, Inv

\* A step of the loop keeps it.
LEMMA LoopKeeps ==
  ASSUME IInv, NEW g \in Graph, LoopStep(g)
  PROVE  IInv'
<1>0. TypeOK /\ Inv /\ Results /\ GraphInv(g) BY DEF IInv, Inv
<1>1. TypeOK'
  <2>1. loop[g] \in {"admit", "claim", "rollback", "settle"} => cur[g] \in Of(g)
    BY <1>0 DEF GraphInv, Grip, Crew
  <2>2. loop[g] = "rollback" => intentos[cur[g]] > 0
    <3>1. HAVE loop[g] = "rollback"
    <3>2. cur[g] \in Of(g) /\ cur[g] \in Hand(g) BY <2>1, <3>1 DEF Hand
    <3>3. intentos[cur[g]] = starts[cur[g]] + lost[cur[g]] + 1
      BY <1>0, <3>2 DEF GraphInv, Paid
    <3>4. starts[cur[g]] \in Nat /\ lost[cur[g]] \in Nat
      BY <1>0, <3>2, OfType, TypeParts DEF RunTypes
    <3> QED BY <3>3, <3>4
  <2>3. loop[g] = "verdict" => estado_del_grafo(g) \in {"hecho", "fallado"}
    BY <1>0 DEF GraphInv, Closing
  <2>4. \A n \in Of(g) : n \in Node BY OfType
  <2> QED BY <1>0, <2>1, <2>2, <2>3, <2>4, LoopStepTypes
<1>2. Inv'
  BY <1>0, RestingMoves, PassMoves, ClosingMoves, EndMoves, CutKeeps, AdmitKeeps, ClaimKeeps,
     RollbackKeeps, ReleaseKeeps, SettleKeeps, ContinueKeeps, SweepKeeps DEF LoopStep
<1>3. Results' BY <1>0, LoopResults
<1> QED BY <1>1, <1>2, <1>3 DEF IInv

\* So do repairs, handlers, executors, people and a restart ...
LEMMA OtherKeeps ==
  ASSUME IInv, Next, \A g \in Graph : ~LoopStep(g)
  PROVE  IInv'
<1>0. TypeOK /\ Inv /\ Results BY DEF IInv
<1>1. TypeOK' BY <1>0, OtherStepTypes
<1>2. Results' BY <1>0, OtherResults
<1>3. Inv'
  <2>1. ASSUME NEW g \in Graph, RepairStep(g) PROVE Inv'
    BY <1>0, <2>1, RestingMoves, HealKeeps DEF RepairStep
  <2>2. ASSUME NEW g \in Graph, HandlerStep(g) PROVE Inv'
    BY <1>0, <2>2, ResumeKeeps, AnswerKeeps, RestingMoves DEF HandlerStep
  <2>3. ASSUME NEW n \in Node, NodeStep(n) PROVE Inv'
    BY <1>0, <2>3, ExecutorMoves, SplitKeeps DEF NodeStep
  <2>4. ASSUME NEW n \in Node, preguntar_por_la_tarea(n) PROVE Inv'
    BY <1>0, <2>4, QuestionMoves
  <2>5. CASE PersonStep
    BY <1>0, <2>5, RestingMoves, QuestionMoves DEF PersonStep
  <2>6. CASE Crash BY <1>0, <2>6, CrashKeeps
  <2> QED BY <2>1, <2>2, <2>3, <2>4, <2>5, <2>6 DEF Next
<1> QED BY <1>1, <1>2, <1>3 DEF IInv

\* ... and a step of nobody.
LEMMA StutterKeeps == ASSUME IInv, UNCHANGED vars PROVE IInv'
<1> USE DEF vars, rowVars, dataVars, loopVars, userVars, histVars
<1>0. TypeOK /\ Inv /\ Results BY DEF IInv
<1>1. TypeOK' BY <1>0 DEF TypeOK
<1>2. Results' BY <1>0 DEF Results, InHand
<1>3. Apart' BY <1>0 DEF Inv, Apart
<1>4. \A g \in Graph : Same(g)
  BY DEF Same, SameRows, SameRuns, SameLoop, SameData, SameUser
<1>5. \A g \in Graph : GraphInv(g)' BY <1>0, <1>4, Untouched DEF Inv
<1> QED BY <1>1, <1>2, <1>3, <1>5 DEF IInv, Inv

\* The rows, loops and executors of a graph stay consistent through every interleaving of
\* the loop of _vueltas, the executors, the repair at boot, and the handlers of people.
THEOREM Invariance == Spec => []IInv
<1>1. Init => IInv BY InitInv
<1>2. IInv /\ [Next]_vars => IInv'
  <2> SUFFICES ASSUME IInv, [Next]_vars PROVE IInv' OBVIOUS
  <2>1. CASE \E g \in Graph : LoopStep(g) BY <2>1, LoopKeeps
  <2>2. CASE Next /\ \A g \in Graph : ~LoopStep(g) BY <2>2, OtherKeeps
  <2>3. CASE UNCHANGED vars BY <2>3, StutterKeeps
  <2> QED BY <2>1, <2>2, <2>3
<1> QED BY <1>1, <1>2, PTL DEF Spec

-----------------------------------------------------------------------------
(* The properties.                                                           *)

\* Each node is of one graph.
LEMMA NodeInGraph ==
  ASSUME NEW n \in Node
  PROVE  GraphOf[n] \in Graph /\ n \in Of(GraphOf[n])
BY GraphAssumption DEF Of

\* Every row, loop and executor keeps the form that the code of correr_grafo expects.
THEOREM TypeCorrect == Spec => []TypeOK
<1>1. IInv => TypeOK BY DEF IInv
<1> QED BY <1>1, Invariance, PTL

\* Two nodes at work never own a file in common: claim_task_files looks at the claims of
\* every graph, a node at work holds all that it declared, and the sweep of
\* release_dead_claims takes nothing from a row that runs.
THEOREM FileOwnedHolds == Spec => []FileOwned
<1>1. IInv => FileOwned
  <2> SUFFICES ASSUME IInv, NEW m \in Node, NEW n \in Node, m # n,
                      run[m] \in Unfinished, run[n] \in Unfinished
               PROVE  Files[m] \intersect Files[n] = {}
    BY DEF FileOwned
  <2>1. Files[m] \subseteq claims[m] /\ Files[n] \subseteq claims[n]
    BY NodeInGraph DEF IInv, Inv, GraphInv, Holds
  <2>2. claims[m] \intersect claims[n] = {} BY DEF IInv, Inv, Apart
  <2> QED BY <2>1, <2>2
<1> QED BY <1>1, Invariance, PTL

\* The node in hand of its graph is the one node in hand anywhere.
LEMMA InHandIs ==
  ASSUME IInv, NEW n \in Node
  PROVE  InHand(n) /\ estado[n] = "corriendo" <=> n \in Hand(GraphOf[n])
<1>1. \A g \in Graph : Grip(g) BY DEF IInv, Inv, GraphInv
<1>2. \A g \in Graph : loop[g] \in {"claim", "rollback"} =>
        GraphOf[cur[g]] = g /\ estado[cur[g]] = "corriendo"
  BY <1>1 DEF Grip, Of
<1> QED BY <1>2, NodeInGraph DEF InHand, Hand

\* The attempts of a row are the executions it had, what a restart took and the admission
\* under way, whatever was rejected, cancelled or rolled back; they never pass the limit.
THEOREM AttemptsPaidHolds == Spec => []AttemptsPaid
<1>1. IInv => AttemptsPaid
  <2> SUFFICES ASSUME IInv, NEW n \in Node
               PROVE  /\ intentos[n] = starts[n] + lost[n]
                           + (IF InHand(n) /\ estado[n] = "corriendo" THEN 1 ELSE 0)
                      /\ intentos[n] <= maxIntentos[n]
    BY DEF AttemptsPaid
  <2>1. Paid(GraphOf[n]) BY NodeInGraph DEF IInv, Inv, GraphInv
  <2>2. InHand(n) /\ estado[n] = "corriendo" <=> n \in Hand(GraphOf[n]) BY InHandIs
  <2> QED BY <2>1, <2>2, NodeInGraph DEF Paid
<1> QED BY <1>1, Invariance, PTL

\* A worker that ended leaves no row running, no executor and no file taken.
THEOREM QuietWhenOffHolds == Spec => []QuietWhenOff
<1>1. IInv => QuietWhenOff
  <2> SUFFICES ASSUME IInv, NEW g \in Graph, loop[g] = "off", NEW n \in Rows(g)
               PROVE  estado[n] # "corriendo" /\ run[n] = "none" /\ claims[n] = {}
    BY DEF QuietWhenOff
  <2>1. Crew(g) /\ Holds(g) /\ n \in Of(g) BY OfType DEF IInv, Inv, GraphInv
  <2>2. Hand(g) = {} /\ enCurso[g] = {} BY <2>1 DEF Hand, Crew, Resting
  <2>3. estado[n] # "corriendo" /\ run[n] = "none" BY <2>1, <2>2 DEF Crew
  <2> QED BY <2>1, <2>3 DEF Holds
<1> QED BY <1>1, Invariance, PTL

\* Nothing is blocked without a failed or blocked dependency of its own, through splits
\* (add_tasks_to_graph), failures (bloqueados_por) and resumes (prepare_graph_resume).
THEOREM BlockedHasCauseHolds == Spec => []BlockedHasCause
<1>1. IInv => BlockedHasCause
  <2> SUFFICES ASSUME IInv, NEW n \in Node, estado[n] = "bloqueado"
               PROVE  \E d \in deps[n] : estado[d] \in {"fallado", "bloqueado"}
    BY DEF BlockedHasCause
  <2>1. Ordered(GraphOf[n]) /\ n \in Of(GraphOf[n])
    BY NodeInGraph DEF IInv, Inv, GraphInv
  <2> QED BY <2>1 DEF Ordered
<1> QED BY <1>1, Invariance, PTL

\* A graph closed as done has every operative node done and, with a verifier, a result
\* recorded for the rows as they are.
THEOREM ClosedVerifiedHolds == Spec => []ClosedVerified
<1>1. IInv => ClosedVerified
  BY DEF IInv, Inv, GraphInv, Closing, ClosedVerified
<1> QED BY <1>1, Invariance, PTL

\* An executor begins in Claim and nowhere else, for the node in hand.
LEMMA BeginsInClaim ==
  ASSUME TypeOK, Inv, Next, NEW n \in Node, Begins(n)
  PROVE  loop[GraphOf[n]] = "claim" /\ n \in Hand(GraphOf[n])
<1> USE DEF rowVars, dataVars, loopVars, userVars, histVars
<1>0. RunTypes /\ \A g \in Graph : Grip(g) BY TypeParts DEF Inv, GraphInv
<1>1. ASSUME NEW g \in Graph, LoopStep(g)
      PROVE  loop[GraphOf[n]] = "claim" /\ n \in Hand(GraphOf[n])
  <2>1. CASE Claim(g)
    <3>1. loop[g] = "claim" /\ cur[g] \in Of(g) BY <1>0, <2>1 DEF Claim, Grip
    <3>2. n = cur[g]
      BY <1>0, <2>1 DEF Claim, Begins, RunTypes
    <3> QED BY <3>1, <3>2 DEF Hand, Of
  <2>2. CASE SettleWell(g) \/ SettleFailure(g) \/ Block(g)
    BY <1>0, <2>2 DEF SettleWell, SettleFailure, Block, Closed, Become, Begins, RunTypes
  <2>3. CASE Cut(g)
    BY <2>3 DEF Cut, Begins
  <2>4. CASE ~(Claim(g) \/ SettleWell(g) \/ SettleFailure(g) \/ Block(g) \/ Cut(g))
    <3>1. UNCHANGED run
      BY <1>1, <2>4 DEF LoopStep, in_workspace, release_dead_claims, Round, Pick, NoMore, Admit,
         ClaimCancelled, rollback_task_admission, Wake, release_task_files, End, Verdict, Continue,
         CloseOnly, OnlyStopped, Unwind, Last
    <3> QED BY <3>1 DEF Begins
  <2> QED BY <2>1, <2>2, <2>3, <2>4
<1>2. ASSUME NEW m \in Node, NodeStep(m) PROVE FALSE
  BY <1>0, <1>2 DEF NodeStep, Prepare, Break, AskHuman, Finish, Split, Become, Begins, RunTypes
<1>3. CASE Crash BY <1>3 DEF Crash, Begins
<1>4. ASSUME NEW g \in Graph, RepairStep(g) \/ HandlerStep(g) PROVE FALSE
  BY <1>4 DEF RepairStep, HandlerStep, Booted, sanar, prepare_graph_resume,
     retomar_grafo_tras_respuesta, FinishCancel, CancelDone, Begins
<1>5. CASE PersonStep
  BY <1>5 DEF PersonStep, Resume, Pause, Unpause, graphs_cancel, skip_expert_question, Answer,
     Begins
<1>6. ASSUME NEW m \in Node, preguntar_por_la_tarea(m) PROVE FALSE
  BY <1>6 DEF preguntar_por_la_tarea, Begins
<1> QED BY <1>1, <1>2, <1>3, <1>4, <1>5, <1>6 DEF Next

\* A pause waits for control_lock, which the loop holds from the reading of the state of
\* the conversation to the start of the node: no node starts in a paused conversation.
THEOREM StoppedAdmitsNoneHolds == Spec => StoppedAdmitsNone
<1>1. IInv /\ [Next]_vars => [\A n \in Node : Begins(n) => ~parada[GraphOf[n]]]_vars
  <2> SUFFICES ASSUME IInv, Next, NEW n \in Node, Begins(n) PROVE ~parada[GraphOf[n]]
    OBVIOUS
  <2>1. loop[GraphOf[n]] = "claim" BY BeginsInClaim DEF IInv
  <2>2. Unpaused(GraphOf[n]) BY NodeInGraph DEF IInv, Inv, GraphInv
  <2> QED BY <2>1, <2>2 DEF Unpaused
<1> QED BY <1>1, Invariance, PTL DEF Spec, StoppedAdmitsNone

\* A node that acted and is not idempotent is never pending again before a person has
\* decided so, and nothing but a pending row is admitted: no restart, coordinator or repair
\* repeats it blindly.
THEOREM NoBlindRepeatHolds == Spec => NoBlindRepeat
<1>1. IInv /\ [Next]_vars => [\A n \in Node \ Idempotent : Begins(n) => n \notin effect]_vars
  <2> SUFFICES ASSUME IInv, Next, NEW n \in Node \ Idempotent, Begins(n) PROVE n \notin effect
    OBVIOUS
  <2>1. n \in Hand(GraphOf[n]) BY BeginsInClaim DEF IInv
  <2>2. Spent(GraphOf[n]) BY NodeInGraph DEF IInv, Inv, GraphInv
  <2> QED BY <2>1, <2>2, NodeInGraph DEF Spent
<1> QED BY <1>1, Invariance, PTL DEF Spec, NoBlindRepeat
=============================================================================
