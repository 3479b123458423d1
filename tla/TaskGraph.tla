------------------------------ MODULE TaskGraph ------------------------------
(***************************************************************************)
(* The task graphs of one project: the rows of tasks, task_graphs,         *)
(* task_file_claims and expert_questions (db_graph.py, db_questions.py),   *)
(* the loop that runs the nodes of a graph (orchestrator_core.py), the     *)
(* verification that closes it (orchestrator_verification.py,              *)
(* orchestrator_recovery.py), and what people and the process do to it     *)
(* meanwhile: pause, cancel, resume, answer, skip, restart.                *)
(*                                                                         *)
(* Each graph has a conversation of its own.  An await of the code is a    *)
(* boundary between steps wherever another actor can act in between.       *)
(***************************************************************************)
EXTENDS Naturals, FiniteSets

CONSTANTS Graph,        \* the graphs
          Plan,         \* their planned nodes
          Halves,       \* rows that _intentar_autosplit may add
          Fixes,        \* rows that continue_verification may add (bound)
          GraphOf,      \* the graph of a node
          PlanDeps,     \* the dependencies of a planned node
          Files,        \* the files a node declares
          Idempotent,   \* the nodes declared idempotente
          Nobody,       \* no node
          Tope,         \* nodes in flight per graph: 1, or 2 with grafo_paralelo
          Attempts,     \* max_intentos of a planned node
          MaxTurns,     \* MAX_VUELTAS
          Verifier,     \* defaults_json.graph_verifier
          Outcomes,     \* how an executor may end (a run may leave some out)
          MaxDecisions, \* bound: resumes and answers of people
          MaxStops,     \* bound: cancellations of a graph, and pauses
          MaxCrashes    \* bound: restarts of the process

Node == Plan \union Halves \union Fixes

ASSUME GraphAssumption == GraphOf \in [Node -> Graph]
ASSUME DepsAssumption ==
  /\ PlanDeps \in [Plan -> SUBSET Plan]
  /\ \A n \in Plan : \A d \in PlanDeps[n] : GraphOf[d] = GraphOf[n]
ASSUME KindsAssumption ==
  /\ Plan \intersect Halves = {} /\ Plan \intersect Fixes = {} /\ Halves \intersect Fixes = {}
  /\ Nobody \notin Node
ASSUME IdempotentAssumption == Idempotent \subseteq Plan \union Halves
ASSUME TopeAssumption == Tope \in Nat \ {0}
ASSUME AttemptsAssumption == Attempts \in Nat \ {0}
ASSUME VerifierAssumption == Verifier \in BOOLEAN
ASSUME OutcomesAssumption ==
  Outcomes \subseteq {"ok", "fail", "budget", "split", "ask", "broken"}
ASSUME BoundsAssumption ==
  /\ MaxTurns \in Nat /\ MaxDecisions \in Nat /\ MaxStops \in Nat /\ MaxCrashes \in Nat

File == UNION {Files[n] : n \in Node}

VARIABLES
  estado, intentos, maxIntentos,   \* tasks
  deps, padre, presupuesto, chat,  \* task_deps, parent_id, an error that a resume may undo, the chat
  grafo, verificacion,             \* task_graphs: estado, verificacion_json
  claims,                          \* task_file_claims, by task
  pregunta,                        \* the latest question about a node
  parada,                          \* the state of the conversation is in STOPPED
  loop, only, vueltas,             \* correr_grafo: its place, verification_only, its rounds
  cand, cur, enCurso, hechas,      \* candidates, the node in hand, nodes in flight, to close
  salida, cut,                     \* the final cleaning; loop.cancel() was called
  run,                             \* the asyncio task of a node
  due,                             \* nodes whose question is still to be written
  cancelling,                      \* the finalizer of a cancellation
  answer,                          \* an answer saved and not applied yet
  decisions, stops, crashes,       \* counters behind the bounds
  starts, lost, effect             \* history: executions, attempts a restart took,
                                   \* nodes that acted since a person last decided

rowVars  == <<estado, intentos, maxIntentos, deps, padre, presupuesto, chat>>
dataVars == <<grafo, verificacion, claims, pregunta, parada>>
loopVars == <<loop, only, vueltas, cand, cur, enCurso, hechas, salida, cut>>
userVars == <<cancelling, answer, decisions, stops, crashes>>
histVars == <<starts, lost, effect>>
vars == <<rowVars, dataVars, loopVars, userVars, histVars, run, due>>

Estado == {"pendiente", "corriendo", "hecho", "fallado", "bloqueado", "esperando_humano"}
TERMINALES == {"hecho", "fallado", "bloqueado"}

\* The options of a question of the plan; a node's own question is just answered.
Choice == {"reintentar", "fallar", "parar", "responder"}

\* Places of correr_grafo; `boot` is server_lifecycle's sanar, `resume` that of _resume_graph.
Working == {"start", "heal", "round", "pick", "admit", "claim", "rollback", "wait", "close",
            "settle", "block", "end", "only", "verdict", "cut", "last"}
Place == Working \union {"off", "boot", "resume"}

Unfinished == {"prep", "work", "asking", "parted"}
Finished == {"ok", "fail", "budget", "split", "ask", "broken", "cut"}

TypeOK ==
  /\ estado \in [Node -> Estado \union {"absent"}]
  /\ intentos \in [Node -> Nat] /\ maxIntentos \in [Node -> Nat]
  /\ deps \in [Node -> SUBSET Node] /\ padre \in [Node -> Node \union {Nobody}]
  /\ presupuesto \in [Node -> BOOLEAN]
  /\ chat \in [Node -> {"none", "open", "complete", "partial"}]
  /\ grafo \in [Graph -> {"activo", "hecho", "fallado", "cancelado"}]
  /\ verificacion \in [Graph -> [tipo : {"none", "pending", "done"},
                                 firma : SUBSET (Node \X Estado \X Nat)]]
  /\ claims \in [Node -> SUBSET File]
  /\ pregunta \in [Node -> {"none", "plan", "node", "answered", "superseded", "skipped"}]
  /\ parada \in [Graph -> BOOLEAN]
  /\ loop \in [Graph -> Place] /\ only \in [Graph -> BOOLEAN]
  /\ vueltas \in [Graph -> Nat]
  /\ cand \in [Graph -> SUBSET (Node \X Nat)]
  /\ cur \in [Graph -> Node \union {Nobody}]
  /\ enCurso \in [Graph -> SUBSET Node] /\ hechas \in [Graph -> SUBSET Node]
  /\ salida \in [Graph -> BOOLEAN] /\ cut \in [Graph -> BOOLEAN]
  /\ run \in [Node -> {"none"} \union Unfinished \union Finished]
  /\ due \in SUBSET Node
  /\ cancelling \in [Graph -> {"no", "asked", "idle", "live"}]
  /\ answer \in [Graph -> (Node \X Choice) \union {<<>>}]
  /\ decisions \in Nat /\ stops \in Nat /\ crashes \in Nat
  /\ starts \in [Node -> Nat] /\ lost \in [Node -> Nat] /\ effect \in SUBSET Node

\* A plan as create_task_graph stores it; no worker yet.
Init ==
  /\ estado = [n \in Node |-> IF n \in Plan THEN "pendiente" ELSE "absent"]
  /\ intentos = [n \in Node |-> 0]
  /\ maxIntentos = [n \in Node |-> IF n \in Fixes THEN 1 ELSE Attempts]
  /\ deps = [n \in Node |-> IF n \in Plan THEN PlanDeps[n] ELSE {}]
  /\ padre = [n \in Node |-> Nobody]
  /\ presupuesto = [n \in Node |-> FALSE]
  /\ chat = [n \in Node |-> "none"]
  /\ grafo = [g \in Graph |-> "activo"]
  /\ verificacion = [g \in Graph |-> [tipo |-> "none", firma |-> {}]]
  /\ claims = [n \in Node |-> {}]
  /\ pregunta = [n \in Node |-> "none"]
  /\ parada = [g \in Graph |-> FALSE]
  /\ loop = [g \in Graph |-> "off"] /\ only = [g \in Graph |-> FALSE]
  /\ vueltas = [g \in Graph |-> 0]
  /\ cand = [g \in Graph |-> {}] /\ cur = [g \in Graph |-> Nobody]
  /\ enCurso = [g \in Graph |-> {}] /\ hechas = [g \in Graph |-> {}]
  /\ salida = [g \in Graph |-> FALSE] /\ cut = [g \in Graph |-> FALSE]
  /\ run = [n \in Node |-> "none"] /\ due = {}
  /\ cancelling = [g \in Graph |-> "no"] /\ answer = [g \in Graph |-> <<>>]
  /\ decisions = 0 /\ stops = 0 /\ crashes = 0
  /\ starts = [n \in Node |-> 0] /\ lost = [n \in Node |-> 0] /\ effect = {}

-----------------------------------------------------------------------------
(* The graph as grafo.py reads it.                                           *)

Rows(g) == {n \in Node : GraphOf[n] = g /\ estado[n] # "absent"}
Agotada(n) == intentos[n] >= maxIntentos[n]
listas(g) == {n \in Rows(g) : /\ estado[n] = "pendiente" /\ ~Agotada(n)
                              /\ \A d \in deps[n] : estado[d] = "hecho"}
conflictan(m, n) == m # n /\ Files[m] # {} /\ Files[n] # {}

\* What fits beside the nodes in flight; the plan's order decides which maximal set it is.
Cabe(g, S) ==
  /\ Cardinality(S) + Cardinality(enCurso[g]) <= Tope
  /\ \A m \in S, n \in S \union enCurso[g] : ~conflictan(m, n)
elegibles(g) ==
  {S \in SUBSET listas(g) : Cabe(g, S) /\ \A n \in listas(g) \ S : ~Cabe(g, S \union {n})}

\* Every node that reaches n through deps, and of those, the ones not closed yet.
ClosedUnder(g, n, S) == \A k \in Rows(g) : n \in deps[k] \/ deps[k] \intersect S # {} => k \in S
Dependientes(g, n) ==
  {m \in Rows(g) : \A S \in SUBSET Rows(g) : ClosedUnder(g, n, S) => m \in S}
bloqueados_por(g, n) == {m \in Dependientes(g, n) : estado[m] \notin TERMINALES}

\* A closed parent whose subtasks took over its dependents.
sustituidos(g) ==
  {n \in Rows(g) : /\ estado[n] \in TERMINALES
                   /\ \E m \in Rows(g) : padre[m] = n
                   /\ \A m \in Rows(g) : n \notin deps[m]}
Operativos(g) == Rows(g) \ sustituidos(g)

estado_del_grafo(g) ==
  LET is(S) == {n \in Operativos(g) : estado[n] \in S}
      vivo == is({"esperando_humano", "corriendo"}) \union listas(g) IN
  CASE is({"hecho"}) = Operativos(g)                     -> "hecho"
    [] vivo # {}                                         -> "activo"
    [] vivo = {} /\ is({"fallado", "bloqueado"}) # {}     -> "fallado"
    [] OTHER                                             -> "trabado"

-----------------------------------------------------------------------------
(* The verification of a finished pass.                                      *)

Firma(g) == {<<n, estado[n], intentos[n]>> : n \in Rows(g)}
Cerrado(g) == \A n \in Operativos(g) : estado[n] \in TERMINALES
TodoHecho(g) == \A n \in Operativos(g) : estado[n] = "hecho"

\* A confirmed input, and the one row its own closing may have added.
Confirmed(g) ==
  /\ verificacion[g].tipo = "done"
  /\ \/ verificacion[g].firma = Firma(g)
     \/ \E n \in Fixes : Firma(g) = verificacion[g].firma \union {<<n, "fallado", 0>>}

\* Some row ran since the recorded input.
Advanced(g) ==
  \E n \in Rows(g) : \A e \in verificacion[g].firma : e[1] = n => intentos[n] > e[3]

NewPass(g) == verificacion[g].tipo = "done" /\ ~Confirmed(g) /\ Advanced(g)

verification_pending(g) ==
  /\ Verifier /\ Cerrado(g)
  /\ CASE verificacion[g].tipo = "none"    -> grafo[g] = "activo" /\ TodoHecho(g)
       [] verificacion[g].tipo = "done"    -> grafo[g] = "activo" /\ NewPass(g)
       [] verificacion[g].tipo = "pending" -> verificacion[g].firma = Firma(g)

metadata_close_pending(g) == ~Verifier /\ grafo[g] = "activo" /\ TodoHecho(g)

\* What an interrupted live worker had not recorded yet.
InterruptedIntent(g) ==
  /\ Verifier /\ Cerrado(g)
  /\ CASE verificacion[g].tipo = "none"    -> TRUE
       [] verificacion[g].tipo = "done"    -> NewPass(g)
       [] verificacion[g].tipo = "pending" -> verificacion[g].firma # Firma(g)

Pending(g) == [tipo |-> "pending", firma |-> Firma(g)]

-----------------------------------------------------------------------------
(* Who is where.                                                             *)

Live(g) == loop[g] \in Working
Serving == \A g \in Graph : loop[g] # "boot"
\* Mutant: control_lock is released before the node is started.
ControlFreeAtAdmission(g) == loop[g] \notin {"resume"} /\ answer[g] = <<>>

ControlFree(g) == loop[g] \notin {"admit", "claim", "rollback", "resume"} /\ answer[g] = <<>>
Asked(g) == due \intersect Rows(g) = {}

Goto(g, place) == loop' = [loop EXCEPT ![g] = place]

\* A question of the plan is keyed by the chat of its node, or by the graph when the
\* node has none: create_expert_question retires the open ones no node's chat protects.
Asks(n, kind) ==
  pregunta' = [m \in Node |->
    IF m = n THEN kind
    ELSE IF GraphOf[m] = GraphOf[n] /\ pregunta[m] \in {"plan", "node"} /\ chat[m] = "none"
         THEN "superseded" ELSE pregunta[m]]

preguntar_por_la_tarea(n) ==
  /\ n \in due
  /\ Asks(n, "plan") /\ due' = due \ {n}
  /\ UNCHANGED <<rowVars, grafo, verificacion, claims, parada, loopVars, userVars, histVars, run>>

-----------------------------------------------------------------------------
(* sanar: rows a dead process left running, and pending rows without attempts. *)

\* Mutant: a row a dead process left running is taken for a live one.
HealableExhausted(g) == {n \in Rows(g) : estado[n] = "pendiente" /\ Agotada(n)}

Healable(g) == {n \in Rows(g) : \/ estado[n] = "corriendo"
                                \/ estado[n] = "pendiente" /\ Agotada(n)}

\* Mutant: attempts alone allow a retry.
MayRetryAny(n) == ~Agotada(n)

\* decidir_tras_fallo
MayRetry(n) == ~Agotada(n) /\ n \in Idempotent

sanar(g, n) ==
  /\ loop[g] \in {"boot", "heal", "resume"} /\ Asked(g) /\ ~cut[g]
  /\ n \in Healable(g)
  /\ claims' = [claims EXCEPT ![n] = {}]
  /\ estado' = [estado EXCEPT ![n] =
       CASE chat[n] = "complete"                                -> "hecho"
         [] chat[n] \notin {"complete", "partial"} /\ MayRetry(n) -> "pendiente"
         [] OTHER                                                -> "esperando_humano"]
  /\ due' = IF estado'[n] = "esperando_humano" THEN due \union {n} ELSE due
  /\ UNCHANGED <<intentos, maxIntentos, deps, padre, presupuesto, chat, grafo, verificacion,
                 pregunta, parada, loopVars, userVars, histVars, run>>

Booted(g) ==
  /\ loop[g] = "boot" /\ Asked(g) /\ Healable(g) = {}
  /\ Goto(g, "off")
  /\ UNCHANGED <<rowVars, dataVars, only, vueltas, cand, cur, enCurso, hechas, salida, cut,
                 userVars, histVars, run, due>>

\* Claims of rows that do not run, and those a dead process let expire.
release_dead_claims(g) ==
  /\ loop[g] = "heal" /\ Asked(g) /\ Healable(g) = {} /\ ~cut[g]
  /\ \E expired \in SUBSET {n \in Node : run[n] = "none" /\ loop[GraphOf[n]] = "off"} :
       claims' = [n \in Node |-> IF estado[n] # "corriendo" \/ n \in expired
                                 THEN {} ELSE claims[n]]
  /\ Goto(g, "round")
  /\ UNCHANGED <<rowVars, grafo, verificacion, pregunta, parada, only, vueltas, cand, cur,
                 enCurso, hechas, salida, cut, userVars, histVars, run, due>>

-----------------------------------------------------------------------------
(* _vueltas: one round reads the graph, admits what fits and waits.          *)

Round(g) ==
  /\ loop[g] = "round" /\ ~cut[g] /\ Asked(g)
  /\ IF vueltas[g] >= MaxTurns
     THEN Goto(g, "end") /\ UNCHANGED <<vueltas, cand>>
     ELSE /\ vueltas' = [vueltas EXCEPT ![g] = @ + 1]
          /\ \E S \in elegibles(g) : cand' = [cand EXCEPT ![g] = {<<n, intentos[n]>> : n \in S}]
          /\ Goto(g, "pick")
  /\ UNCHANGED <<rowVars, dataVars, only, cur, enCurso, hechas, salida, cut,
                 userVars, histVars, run, due>>

\* control_lock is taken and the state of the conversation read under it.
Pick(g) ==
  /\ loop[g] = "pick" /\ ~cut[g] /\ cand[g] # {} /\ ControlFree(g) /\ ~parada[g]
  /\ \E c \in cand[g] : cur' = [cur EXCEPT ![g] = c[1]]
  /\ Goto(g, "admit")
  /\ UNCHANGED <<rowVars, dataVars, only, vueltas, cand, enCurso, hechas, salida, cut,
                 userVars, histVars, run, due>>

\* Mutant: a paused graph waits for nodes it does not have.
NoMoreWaits(g) ==
  /\ loop[g] = "pick" /\ ~cut[g]
  /\ cand[g] = {} \/ (ControlFree(g) /\ parada[g])
  /\ Goto(g, IF enCurso[g] = {} /\ ~parada[g] THEN "end" ELSE "wait")
  /\ cand' = [cand EXCEPT ![g] = {}]
  /\ UNCHANGED <<rowVars, dataVars, only, vueltas, cur, enCurso, hechas, salida, cut,
                 userVars, histVars, run, due>>

NoMore(g) ==
  /\ loop[g] = "pick" /\ ~cut[g]
  /\ cand[g] = {} \/ (ControlFree(g) /\ parada[g])
  /\ Goto(g, IF enCurso[g] = {} THEN "end" ELSE "wait")
  /\ cand' = [cand EXCEPT ![g] = {}]
  /\ UNCHANGED <<rowVars, dataVars, only, vueltas, cur, enCurso, hechas, salida, cut,
                 userVars, histVars, run, due>>

\* The candidate leaves the round and control_lock is released.
Leave(g, place) ==
  /\ Goto(g, place)
  /\ cand' = [cand EXCEPT ![g] = {c \in @ : c[1] # cur[g]}]
  /\ cur' = [cur EXCEPT ![g] = Nobody]

Admissible(g) ==
  LET n == cur[g] IN estado[n] = "pendiente" /\ <<n, intentos[n]>> \in cand[g] /\ ~Agotada(n)

Admit(g) ==
  /\ loop[g] = "admit"
  /\ LET n == cur[g] IN
     IF Admissible(g)
     THEN /\ estado' = [estado EXCEPT ![n] = "corriendo"]
          /\ intentos' = [intentos EXCEPT ![n] = @ + 1]
          /\ Goto(g, "claim") /\ UNCHANGED <<cand, cur>>
     ELSE Leave(g, "pick") /\ UNCHANGED <<estado, intentos>>
  /\ UNCHANGED <<maxIntentos, deps, padre, presupuesto, chat, dataVars, only, vueltas,
                 enCurso, hechas, salida, cut, userVars, histVars, run, due>>

\* Mutant: only the claims of the same graph are looked at.
TakenInGraph(n) == UNION {claims[m] : m \in {k \in Node \ {n} : GraphOf[k] = GraphOf[n]}}

Taken(n) == UNION {claims[m] : m \in Node \ {n}}

\* BEGIN IMMEDIATE: what others hold is rejected, the rest is taken all the same.
claim_task_files(n) == claims' = [claims EXCEPT ![n] = @ \union (Files[n] \ Taken(n))]

Claim(g) ==
  /\ loop[g] = "claim" /\ ~cut[g]
  /\ LET n == cur[g] IN
     /\ claim_task_files(n)
     /\ IF Files[n] \intersect Taken(n) # {}
        THEN Goto(g, "rollback") /\ UNCHANGED <<cand, cur, enCurso, run, starts>>
        ELSE /\ Leave(g, "pick")
             /\ enCurso' = [enCurso EXCEPT ![g] = @ \union {n}]
             /\ run' = [run EXCEPT ![n] = "prep"]
             /\ starts' = [starts EXCEPT ![n] = @ + 1]
  /\ UNCHANGED <<rowVars, grafo, verificacion, pregunta, parada, only, vueltas, hechas,
                 salida, cut, userVars, lost, effect, due>>

\* A cancelled await settles what it began: the admission is committed, the claims maybe.
ClaimCancelled(g) ==
  /\ loop[g] = "claim" /\ cut[g]
  /\ claim_task_files(cur[g]) \/ UNCHANGED claims
  /\ Goto(g, "rollback")
  /\ UNCHANGED <<rowVars, grafo, verificacion, pregunta, parada, only, vueltas, cand, cur,
                 enCurso, hechas, salida, cut, userVars, histVars, run, due>>

\* Mutants: nothing refunded, and a refund of two.
RollbackWithoutRefund(g) ==
  /\ loop[g] = "rollback"
  /\ LET n == cur[g] IN
     /\ estado' = [estado EXCEPT ![n] = "pendiente"]
     /\ intentos' = intentos
     /\ claims' = [claims EXCEPT ![n] = {}]
  /\ Leave(g, IF cut[g] THEN "cut" ELSE "pick")
  /\ UNCHANGED <<maxIntentos, deps, padre, presupuesto, chat, grafo, verificacion, pregunta,
                 parada, only, vueltas, enCurso, hechas, salida, cut, userVars, histVars,
                 run, due>>

RollbackOfTwo(g) ==
  /\ loop[g] = "rollback"
  /\ LET n == cur[g] IN
     /\ estado' = [estado EXCEPT ![n] = "pendiente"]
     /\ intentos' = [intentos EXCEPT ![n] = @ - 2]
     /\ claims' = [claims EXCEPT ![n] = {}]
  /\ Leave(g, IF cut[g] THEN "cut" ELSE "pick")
  /\ UNCHANGED <<maxIntentos, deps, padre, presupuesto, chat, grafo, verificacion, pregunta,
                 parada, only, vueltas, enCurso, hechas, salida, cut, userVars, histVars,
                 run, due>>

rollback_task_admission(g) ==
  /\ loop[g] = "rollback"
  /\ LET n == cur[g] IN
     /\ estado' = [estado EXCEPT ![n] = "pendiente"]
     /\ intentos' = [intentos EXCEPT ![n] = @ - 1]
     /\ claims' = [claims EXCEPT ![n] = {}]
  /\ Leave(g, IF cut[g] THEN "cut" ELSE "pick")
  /\ UNCHANGED <<maxIntentos, deps, padre, presupuesto, chat, grafo, verificacion, pregunta,
                 parada, only, vueltas, enCurso, hechas, salida, cut, userVars, histVars,
                 run, due>>

\* asyncio.wait: the first that ends wakes the loop, with all that have ended by then.
Wake(g) ==
  /\ loop[g] = "wait" /\ ~cut[g]
  /\ hechas' = [hechas EXCEPT ![g] = {n \in enCurso[g] : run[n] \in Finished}]
  /\ hechas'[g] # {}
  /\ Goto(g, "close")
  /\ UNCHANGED <<rowVars, dataVars, only, vueltas, cand, cur, enCurso, salida, cut,
                 userVars, histVars, run, due>>

-----------------------------------------------------------------------------
(* The executor of one node (ejecutor_minimax).                              *)

Become(n, state) == run' = [run EXCEPT ![n] = state]

\* The chat is created and linked; from here the node acts on the workspace.
Prepare(n) ==
  /\ run[n] = "prep"
  /\ Become(n, "work")
  /\ chat' = [chat EXCEPT ![n] = "open"]
  /\ effect' = effect \union {n}
  /\ UNCHANGED <<estado, intentos, maxIntentos, deps, padre, presupuesto, dataVars, loopVars,
                 userVars, starts, lost, due>>

\* It breaks before it has a chat.
Break(n) ==
  /\ run[n] = "prep" /\ "broken" \in Outcomes
  /\ Become(n, "broken")
  /\ UNCHANGED <<rowVars, dataVars, loopVars, userVars, histVars, due>>

\* ask_human: the question is on screen while the run still winds up.
AskHuman(n) ==
  /\ run[n] = "work" /\ "ask" \in Outcomes
  /\ Become(n, "asking") /\ Asks(n, "node")
  /\ UNCHANGED <<rowVars, grafo, verificacion, claims, parada, loopVars, userVars, histVars, due>>

\* The result is durable before the executor returns it.
Finish(n) ==
  /\ \E k \in Outcomes \ {"broken"} :
       /\ run[n] = CASE k = "ask" -> "asking" [] k = "split" -> "parted" [] OTHER -> "work"
       /\ Become(n, k)
       /\ chat' = [chat EXCEPT ![n] = IF k = "ok" THEN "complete" ELSE "partial"]
  /\ UNCHANGED <<estado, intentos, maxIntentos, deps, padre, presupuesto, dataVars, loopVars,
                 userVars, histVars, due>>

\* _intentar_autosplit and add_tasks_to_graph: the rest of the work becomes new rows, the
\* dependents wait for them; the node itself will return with an error.
Split(n) ==
  LET H == {h \in Halves : GraphOf[h] = GraphOf[n]} IN
  /\ run[n] = "work" /\ "split" \in Outcomes /\ padre[n] = Nobody
  /\ H # {} /\ \A h \in H : estado[h] = "absent"
  /\ Become(n, "parted")
  /\ estado' = [m \in Node |-> IF m \in H THEN "pendiente" ELSE estado[m]]
  /\ padre' = [m \in Node |-> IF m \in H THEN n ELSE padre[m]]
  /\ deps' = [m \in Node |-> IF m \in H THEN deps[n]
                             ELSE IF n \in deps[m] THEN (deps[m] \ {n}) \union H ELSE deps[m]]
  /\ UNCHANGED <<intentos, maxIntentos, presupuesto, chat, dataVars, loopVars, userVars, histVars,
                 due>>

-----------------------------------------------------------------------------
(* _cerrar_tarea.                                                            *)

\* The files are always released first.
release_task_files(g) ==
  /\ loop[g] = "close" /\ Asked(g) /\ (cut[g] => salida[g])
  /\ \E n \in hechas[g] :
       /\ run[n] \in Finished
       /\ cur' = [cur EXCEPT ![g] = n]
       /\ claims' = [claims EXCEPT ![n] = {}]
  /\ Goto(g, "settle")
  /\ UNCHANGED <<rowVars, grafo, verificacion, pregunta, parada, only, vueltas, cand, enCurso,
                 hechas, salida, cut, userVars, histVars, run, due>>

Interrupted(g) == cut[g] \/ salida[g] \/ run[cur[g]] \in {"broken", "cut"}

\* What the rule and the coordinator may decide after a failure.
Decisions(g) ==
  LET n == cur[g] IN
  IF Interrupted(g) THEN {"preguntar"}
  ELSE IF Agotada(n) THEN {"fallar"}
  ELSE {"fallar", "preguntar"} \union (IF MayRetry(n) THEN {"reintentar"} ELSE {})

\* The node in hand is closed: out of flight, and the next of the batch follows.
Closed(g, place) ==
  LET n == cur[g] IN
  /\ enCurso' = [enCurso EXCEPT ![g] = @ \ {n}]
  /\ hechas' = [hechas EXCEPT ![g] = @ \ {n}]
  /\ Become(n, "none")
  /\ Goto(g, place)

AfterClose(g) == IF hechas[g] \ {cur[g]} # {} THEN "close"
                 ELSE IF salida[g] THEN "last" ELSE "round"

SettleWell(g) ==
  /\ loop[g] = "settle" /\ run[cur[g]] \in {"ok", "ask"}
  /\ estado' = [estado EXCEPT ![cur[g]] = IF run[cur[g]] = "ok" THEN "hecho" ELSE "esperando_humano"]
  /\ Closed(g, AfterClose(g)) /\ cur' = [cur EXCEPT ![g] = Nobody]
  /\ UNCHANGED <<intentos, maxIntentos, deps, padre, presupuesto, chat, dataVars, only, vueltas,
                 cand, salida, cut, userVars, histVars, due>>

SettleFailure(g) ==
  LET n == cur[g] IN
  /\ loop[g] = "settle" /\ run[n] \in Finished \ {"ok", "ask"}
  /\ \E d \in Decisions(g) :
       /\ estado' = [estado EXCEPT ![n] = CASE d = "reintentar" -> "pendiente"
                                            [] d = "preguntar"  -> "esperando_humano"
                                            [] d = "fallar"     -> "fallado"]
       /\ due' = IF d = "preguntar" THEN due \union {n} ELSE due
       /\ presupuesto' = [presupuesto EXCEPT ![n] = run[n] = "budget"]
       /\ IF d = "fallar"
          THEN Goto(g, "block") /\ UNCHANGED <<enCurso, hechas, run, cur>>
          ELSE Closed(g, AfterClose(g)) /\ cur' = [cur EXCEPT ![g] = Nobody]
  /\ UNCHANGED <<intentos, maxIntentos, deps, padre, chat, dataVars, only, vueltas, cand,
                 salida, cut, userVars, histVars>>

Block(g) ==
  /\ loop[g] = "block"
  /\ estado' = [n \in Node |-> IF n \in bloqueados_por(g, cur[g]) THEN "bloqueado" ELSE estado[n]]
  /\ Closed(g, AfterClose(g)) /\ cur' = [cur EXCEPT ![g] = Nobody]
  /\ UNCHANGED <<intentos, maxIntentos, deps, padre, presupuesto, chat, dataVars, only, vueltas,
                 cand, salida, cut, userVars, histVars, due>>

-----------------------------------------------------------------------------
(* The end of a pass, the verification, and the cleaning.                    *)

\* Finished graphs are verified, or closed; the intent is durable before the model is asked.
End(g) ==
  /\ loop[g] = "end" /\ ~cut[g]
  /\ LET e == estado_del_grafo(g) IN
     IF e \in {"hecho", "fallado"} /\ grafo[g] # "cancelado"
     THEN IF Verifier
          THEN /\ verificacion' = [verificacion EXCEPT ![g] = Pending(g)]
               /\ Goto(g, "verdict") /\ UNCHANGED grafo
          ELSE grafo' = [grafo EXCEPT ![g] = e] /\ Goto(g, "cut") /\ UNCHANGED verificacion
     ELSE Goto(g, "cut") /\ UNCHANGED <<grafo, verificacion>>
  /\ UNCHANGED <<rowVars, claims, pregunta, parada, only, vueltas, cand, cur, enCurso, hechas,
                 salida, cut, userVars, histVars, run, due>>

\* Mutant: the verdict leaves the intent as it was.
RecordNothing(g) == UNCHANGED verificacion

Record(g) == verificacion' = [verificacion EXCEPT ![g].tipo = "done"]
Unless(g, e) == grafo' = [grafo EXCEPT ![g] = IF @ = "cancelado" THEN @ ELSE e]

\* Any verdict but a continuation closes the graph with the state its nodes have.  A result
\* that is known is saved even when the worker is being cancelled.
Verdict(g) ==
  /\ loop[g] = "verdict"
  /\ Record(g)
  /\ Unless(g, estado_del_grafo(g)) \/ (only[g] /\ Unless(g, "fallado"))
  /\ Goto(g, "cut")
  /\ UNCHANGED <<rowVars, claims, pregunta, parada, only, vueltas, cand, cur, enCurso, hechas,
                 salida, cut, userVars, histVars, run, due>>

\* continue_verification: needs_more adds one row, to run now or to show what is missing.
Continue(g) ==
  /\ loop[g] = "verdict" /\ ~only[g]
  /\ estado_del_grafo(g) = "hecho" /\ grafo[g] # "cancelado"
  /\ Record(g)
  /\ \E n \in {m \in Fixes : GraphOf[m] = g /\ estado[m] = "absent"}, proceed \in BOOLEAN :
       /\ proceed => vueltas[g] < MaxTurns
       /\ estado' = [estado EXCEPT ![n] = IF proceed THEN "pendiente" ELSE "fallado"]
       /\ grafo' = [grafo EXCEPT ![g] = IF proceed THEN "activo" ELSE "fallado"]
       /\ Goto(g, IF proceed THEN "round" ELSE "cut")
  /\ UNCHANGED <<intentos, maxIntentos, deps, padre, presupuesto, chat, claims, pregunta, parada,
                 only, vueltas, cand, cur, enCurso, hechas, salida, cut, userVars, histVars,
                 run, due>>

\* correr_grafo(verification_only): it never heals, admits or adds a node.
CloseOnly(g) ==
  /\ loop[g] = "only" /\ ~cut[g] /\ ControlFree(g)
  /\ LET go == grafo[g] = "activo" /\ ~parada[g] /\ cancelling[g] = "no" IN
     CASE go /\ metadata_close_pending(g) ->
            grafo' = [grafo EXCEPT ![g] = "hecho"] /\ Goto(g, "cut") /\ UNCHANGED verificacion
       [] go /\ verification_pending(g) ->
            /\ verificacion' = [verificacion EXCEPT ![g] = Pending(g)]
            /\ Goto(g, "verdict") /\ UNCHANGED grafo
       [] OTHER -> Goto(g, "cut") /\ UNCHANGED <<grafo, verificacion>>
  /\ UNCHANGED <<rowVars, claims, pregunta, parada, only, vueltas, cand, cur, enCurso, hechas,
                 salida, cut, userVars, histVars, run, due>>

\* A stop seen after the evidence was read leaves the intent for later.
OnlyStopped(g) ==
  /\ loop[g] = "verdict" /\ ~cut[g] /\ only[g] /\ (parada[g] \/ cancelling[g] # "no")
  /\ Goto(g, "cut")
  /\ UNCHANGED <<rowVars, dataVars, only, vueltas, cand, cur, enCurso, hechas, salida, cut,
                 userVars, histVars, run, due>>

\* CancelledError out of an await of the loop.  sanar is not shielded there: a row it had
\* put to wait stays without its question.
Unwind(g) ==
  /\ cut[g] /\ ~salida[g] /\ (loop[g] = "heal" \/ Asked(g))
  /\ loop[g] \in {"start", "heal", "round", "pick", "admit", "wait", "close", "end", "only",
                  "verdict"}
  /\ Goto(g, "cut")
  /\ cand' = [cand EXCEPT ![g] = {}] /\ cur' = [cur EXCEPT ![g] = Nobody]
  /\ due' = IF loop[g] = "heal" THEN due \ Rows(g) ELSE due
  /\ UNCHANGED <<rowVars, dataVars, only, vueltas, enCurso, hechas, salida, cut, userVars,
                 histVars, run>>

\* _cerrar_las_que_quedaron: what is still in flight is cancelled, then closed.  A node may
\* be cut after its chat was created, or before.
Cut(g) ==
  /\ loop[g] = "cut"
  /\ run' = [n \in Node |-> IF n \in enCurso[g] /\ run[n] \in Unfinished THEN "cut" ELSE run[n]]
  /\ \E prepared \in SUBSET {n \in enCurso[g] : run[n] = "prep"} :
       chat' = [n \in Node |->
         IF n \in prepared \/ (n \in enCurso[g] /\ run[n] \in Unfinished \ {"prep"})
         THEN "partial" ELSE chat[n]]
  /\ hechas' = [hechas EXCEPT ![g] = enCurso[g]]
  /\ salida' = [salida EXCEPT ![g] = TRUE]
  /\ cand' = [cand EXCEPT ![g] = {}]
  /\ Goto(g, IF enCurso[g] = {} THEN "last" ELSE "close")
  /\ UNCHANGED <<estado, intentos, maxIntentos, deps, padre, presupuesto, dataVars, only, vueltas,
                 cur, enCurso, cut, userVars, histVars, due>>

\* The worker is registered until its very end.
Last(g) ==
  /\ loop[g] = "last" /\ Asked(g)
  /\ Goto(g, "off")
  /\ only' = [only EXCEPT ![g] = FALSE] /\ vueltas' = [vueltas EXCEPT ![g] = 0]
  /\ salida' = [salida EXCEPT ![g] = FALSE] /\ cut' = [cut EXCEPT ![g] = FALSE]
  /\ UNCHANGED <<rowVars, dataVars, cand, cur, enCurso, hechas, userVars, histVars, run, due>>

-----------------------------------------------------------------------------
(* What people do: POST /graphs/{id}/resume, pause, cancel, answer, skip.    *)

Decide == decisions < MaxDecisions /\ decisions' = decisions + 1
Stop == stops < MaxStops /\ stops' = stops + 1

\* The conversation's lock, then the graph's, are held until the launch.
Resume(g) ==
  /\ Serving /\ loop[g] = "off" /\ ControlFree(g) /\ ~parada[g] /\ cancelling[g] = "no"
  /\ Decide /\ Goto(g, "resume")
  /\ UNCHANGED <<rowVars, dataVars, only, vueltas, cand, cur, enCurso, hechas, salida, cut,
                 cancelling, answer, stops, crashes, histVars, run, due>>

\* prepare_graph_resume: what failed by budget or left the plan, and what that had blocked.
Granted(g) == {n \in Rows(g) \ sustituidos(g) : estado[n] = "fallado" /\ presupuesto[n]}
\* Mutant: only the failed nodes are reopened, not what they blocked.
ReopenedAlone(g) == Granted(g)

Dead(n) == estado[n] \in {"fallado", "bloqueado"}
Opens(g, S, n) ==
  /\ n \in Rows(g) \ sustituidos(g) /\ estado[n] = "bloqueado"
  /\ deps[n] \intersect S # {} /\ \A d \in deps[n] : d \in S \/ ~Dead(d)
Reopened(g) ==
  {m \in Rows(g) : \A S \in SUBSET Rows(g) :
     Granted(g) \subseteq S /\ (\A n \in Rows(g) : Opens(g, S, n) => n \in S) => m \in S}

\* What the rows would be once reopened, if that makes some row runnable.
Grant(g) ==
  LET R == Reopened(g)
      state(n) == IF n \in R THEN "pendiente" ELSE estado[n]
      limit(n) == IF n \in R /\ maxIntentos[n] <= intentos[n] THEN intentos[n] + 1
                  ELSE maxIntentos[n]
      runnable == \E n \in Rows(g) : /\ state(n) = "pendiente" /\ intentos[n] < limit(n)
                                     /\ \A d \in deps[n] : state(d) = "hecho"
  IN IF Granted(g) # {} /\ runnable
     THEN /\ estado' = [n \in Node |-> state(n)]
          /\ maxIntentos' = [n \in Node |-> limit(n)]
          /\ presupuesto' = [n \in Node |-> presupuesto[n] /\ n \notin R]
          /\ effect' = effect \ R
     ELSE UNCHANGED <<estado, maxIntentos, presupuesto, effect>>

\* The rest of _resume_graph.  409 when a cancellation has begun or nothing can run.
prepare_graph_resume(g) ==
  LET closing == verification_pending(g) \/ metadata_close_pending(g) IN
  /\ loop[g] = "resume" /\ Asked(g) /\ Healable(g) = {}
  /\ UNCHANGED <<intentos, deps, padre, chat, verificacion, claims, pregunta, parada, vueltas,
                 cand, cur, enCurso, hechas, salida, cut, userVars, starts, lost, run, due>>
  /\ IF cancelling[g] # "no"
     THEN Goto(g, "off") /\ UNCHANGED <<estado, maxIntentos, presupuesto, effect, grafo, only>>
     ELSE /\ IF closing THEN UNCHANGED <<estado, maxIntentos, presupuesto, effect>> ELSE Grant(g)
          /\ IF closing \/ listas(g)' # {}
             THEN /\ Goto(g, "start") /\ only' = [only EXCEPT ![g] = closing]
                  /\ grafo' = [grafo EXCEPT ![g] = "activo"]
             ELSE Goto(g, "off") /\ UNCHANGED <<grafo, only>>

\* _largar_grafo's task reads the conversation again before it runs anything.
in_workspace(g) ==
  /\ loop[g] = "start" /\ ~cut[g]
  /\ Goto(g, IF parada[g] THEN "last" ELSE IF only[g] THEN "only" ELSE "heal")
  /\ UNCHANGED <<rowVars, dataVars, only, vueltas, cand, cur, enCurso, hechas, salida, cut,
                 userVars, histVars, run, due>>

Pause(g) ==
  /\ Serving /\ ControlFree(g) /\ ~parada[g] /\ Stop
  /\ parada' = [parada EXCEPT ![g] = TRUE]
  /\ UNCHANGED <<rowVars, grafo, verificacion, claims, pregunta, loopVars, cancelling, answer,
                 decisions, crashes, histVars, run, due>>

Unpause(g) ==
  /\ Serving /\ ControlFree(g) /\ parada[g]
  /\ parada' = [parada EXCEPT ![g] = FALSE]
  /\ UNCHANGED <<rowVars, grafo, verificacion, claims, pregunta, loopVars, userVars, histVars,
                 run, due>>

\* The marker comes first; the finalizer then waits for the graph's lock.
graphs_cancel(g) ==
  /\ Serving /\ cancelling[g] = "no" /\ Stop
  /\ cancelling' = [cancelling EXCEPT ![g] = "asked"]
  /\ UNCHANGED <<rowVars, dataVars, loopVars, answer, decisions, crashes, histVars, run, due>>

\* A worker that is alive is cancelled, and its end awaited.
Interrupt(g) ==
  /\ cancelling' = [cancelling EXCEPT ![g] = IF Live(g) /\ ~only[g] THEN "live" ELSE "idle"]
  /\ cut' = [cut EXCEPT ![g] = Live(g)]

FinishCancel(g) ==
  /\ cancelling[g] = "asked" /\ loop[g] # "resume" /\ answer[g] = <<>>
  /\ Interrupt(g)
  /\ UNCHANGED <<rowVars, dataVars, loop, only, vueltas, cand, cur, enCurso, hechas, salida,
                 answer, decisions, stops, crashes, histVars, run, due>>

\* An intent the worker had no time to record is recorded for it.
CancelDone(g) ==
  /\ cancelling[g] \in {"idle", "live"} /\ ~Live(g)
  /\ verificacion' = [verificacion EXCEPT ![g] =
       IF cancelling[g] = "live" /\ InterruptedIntent(g) THEN Pending(g) ELSE @]
  /\ grafo' = [grafo EXCEPT ![g] = "cancelado"]
  /\ cancelling' = [cancelling EXCEPT ![g] = "no"]
  /\ answer' = [answer EXCEPT ![g] = <<>>]
  /\ UNCHANGED <<rowVars, claims, pregunta, parada, loopVars, decisions, stops, crashes,
                 histVars, run, due>>

\* answer_expert_question: only an open question, and the answer is durable first.
Answer(n, choice) ==
  LET g == GraphOf[n] IN
  /\ Serving /\ ControlFree(g) /\ cancelling[g] = "no"
  /\ pregunta[n] \in {"plan", "node"} /\ (pregunta[n] = "node" => choice = "responder")
  /\ parada[g] => (Live(g) /\ ~cut[g]) \/ choice = "parar"
  /\ Decide
  /\ pregunta' = [pregunta EXCEPT ![n] = "answered"]
  /\ answer' = [answer EXCEPT ![g] = <<n, choice>>]
  /\ UNCHANGED <<rowVars, grafo, verificacion, claims, parada, loopVars, cancelling, stops,
                 crashes, histVars, run, due>>

\* aplicar_respuesta and responder_a_la_tarea: only a row that waits is moved.
Apply(n, choice) ==
  LET g == GraphOf[n]
      again == choice \in {"reintentar", "responder"} IN
  /\ estado' = IF again THEN [estado EXCEPT ![n] = "pendiente"]
               ELSE [m \in Node |-> IF m = n THEN "fallado"
                                    ELSE IF m \in bloqueados_por(g, n) THEN "bloqueado"
                                    ELSE estado[m]]
  /\ maxIntentos' = [maxIntentos EXCEPT ![n] = IF again THEN intentos[n] + 1 ELSE @]
  /\ presupuesto' = [presupuesto EXCEPT ![n] = @ /\ ~again]
  /\ effect' = IF again THEN effect \ {n} ELSE effect

\* continuation_status: a stop wins, a worker that lives goes on, and else one is launched.
retomar_grafo_tras_respuesta(g) ==
  LET n == answer[g][1]
      choice == answer[g][2] IN
  /\ answer[g] # <<>> /\ cancelling[g] \in {"no", "asked"}
  /\ CASE estado[n] # "esperando_humano" ->
            /\ answer' = [answer EXCEPT ![g] = <<>>]
            /\ UNCHANGED <<estado, maxIntentos, presupuesto, effect, grafo, loop, cut, cancelling>>
       [] estado[n] = "esperando_humano" /\ choice = "parar" ->
            /\ Interrupt(g)
            /\ UNCHANGED <<estado, maxIntentos, presupuesto, effect, grafo, loop, answer>>
       [] OTHER ->
            /\ Apply(n, choice)
            /\ answer' = [answer EXCEPT ![g] = <<>>]
            /\ IF loop[g] = "off" /\ ~parada[g] /\ cancelling[g] = "no"
               THEN grafo' = [grafo EXCEPT ![g] = "activo"] /\ Goto(g, "start")
               ELSE UNCHANGED <<grafo, loop>>
            /\ UNCHANGED <<cut, cancelling>>
  /\ UNCHANGED <<intentos, deps, padre, chat, verificacion, claims, pregunta, parada, only,
                 vueltas, cand, cur, enCurso, hechas, salida, decisions, stops, crashes, starts,
                 lost, run, due>>

skip_expert_question(n) ==
  /\ Serving /\ pregunta[n] \in {"plan", "node"} /\ Decide
  /\ pregunta' = [pregunta EXCEPT ![n] = "skipped"]
  /\ UNCHANGED <<rowVars, grafo, verificacion, claims, parada, loopVars, cancelling, answer,
                 stops, crashes, histVars, run, due>>

\* The process dies: rows, claims and questions stay; boot heals the graphs in course.
Crash ==
  /\ Serving /\ crashes < MaxCrashes /\ crashes' = crashes + 1
  /\ loop' = [g \in Graph |-> IF grafo[g] = "activo" THEN "boot" ELSE "off"]
  /\ only' = [g \in Graph |-> FALSE] /\ vueltas' = [g \in Graph |-> 0]
  /\ cand' = [g \in Graph |-> {}] /\ cur' = [g \in Graph |-> Nobody]
  /\ enCurso' = [g \in Graph |-> {}] /\ hechas' = [g \in Graph |-> {}]
  /\ salida' = [g \in Graph |-> FALSE] /\ cut' = [g \in Graph |-> FALSE]
  /\ run' = [n \in Node |-> "none"] /\ due' = {}
  /\ cancelling' = [g \in Graph |-> "no"] /\ answer' = [g \in Graph |-> <<>>]
  /\ lost' = [n \in Node |-> IF \E g \in Graph : cur[g] = n /\ loop[g] \in {"claim", "rollback"}
                             THEN lost[n] + 1 ELSE lost[n]]
  /\ UNCHANGED <<rowVars, dataVars, decisions, stops, starts, effect>>

-----------------------------------------------------------------------------
LoopStep(g) ==
  \/ in_workspace(g) \/ release_dead_claims(g)
  \/ Round(g) \/ Pick(g) \/ NoMore(g) \/ Admit(g) \/ Claim(g) \/ ClaimCancelled(g)
  \/ rollback_task_admission(g) \/ Wake(g)
  \/ release_task_files(g) \/ SettleWell(g) \/ SettleFailure(g) \/ Block(g)
  \/ End(g) \/ Verdict(g) \/ Continue(g) \/ CloseOnly(g) \/ OnlyStopped(g)
  \/ Unwind(g) \/ Cut(g) \/ Last(g)

RepairStep(g) == Booted(g) \/ \E n \in Node : sanar(g, n)
NodeStep(n) == Prepare(n) \/ Break(n) \/ AskHuman(n) \/ Finish(n) \/ Split(n)

\* What a handler that has begun still does.
HandlerStep(g) ==
  \/ prepare_graph_resume(g) \/ retomar_grafo_tras_respuesta(g)
  \/ FinishCancel(g) \/ CancelDone(g)

PersonStep ==
  \/ \E g \in Graph : Resume(g) \/ Pause(g) \/ Unpause(g) \/ graphs_cancel(g)
  \/ \E n \in Node : skip_expert_question(n) \/ \E choice \in Choice : Answer(n, choice)

Next ==
  \/ \E g \in Graph : LoopStep(g) \/ RepairStep(g) \/ HandlerStep(g)
  \/ \E n \in Node : NodeStep(n) \/ preguntar_por_la_tarea(n)
  \/ PersonStep
  \/ Crash

Spec == Init /\ [][Next]_vars

\* What the event loop runs is run; an executor ends, by itself or by its limits.  People,
\* pauses and crashes owe nothing.
FairSpec ==
  /\ Spec
  /\ \A g \in Graph : WF_vars(LoopStep(g)) /\ WF_vars(RepairStep(g)) /\ WF_vars(HandlerStep(g))
  /\ \A n \in Node : WF_vars(NodeStep(n)) /\ WF_vars(preguntar_por_la_tarea(n))

-----------------------------------------------------------------------------
(* Properties.                                                               *)

\* Two nodes that run, of one graph or of two, never own a file in common: what a node
\* declared is its own from its start to its closing (claim_task_files, release_task_files,
\* and the sweep of release_dead_claims that any graph makes over the claims of all).
FileOwned ==
  \A m, n \in Node :
    m # n /\ run[m] \in Unfinished /\ run[n] \in Unfinished => Files[m] \intersect Files[n] = {}

InHand(n) == \E g \in Graph : cur[g] = n /\ loop[g] \in {"claim", "rollback"}

\* An attempt is charged once per execution and refunded when none began: whatever
\* admissions were cut, rejected or rolled back, and up to the one a restart may take, the
\* counter is the number of executions, and never passes the limit people granted.
AttemptsPaid ==
  \A n \in Node :
    /\ intentos[n] = starts[n] + lost[n] + (IF InHand(n) /\ estado[n] = "corriendo" THEN 1 ELSE 0)
    /\ intentos[n] <= maxIntentos[n]

\* A graph whose worker has ended, however it ended, leaves nothing behind: no row in
\* `corriendo`, no executor, no file taken (the finally of correr_grafo, and sanar at boot).
QuietWhenOff ==
  \A g \in Graph : loop[g] = "off" =>
    \A n \in Rows(g) : estado[n] # "corriendo" /\ run[n] = "none" /\ claims[n] = {}

\* A blocked node always has a failed or blocked dependency of its own: splitting, failing
\* and reopening nodes never leaves one that nothing holds back and nothing will free.
BlockedHasCause ==
  \A n \in Node : estado[n] = "bloqueado" =>
    \E d \in deps[n] : estado[d] \in {"fallado", "bloqueado"}

\* A graph closed as done has every operative node done, and where a verifier is on, a
\* result recorded for exactly these rows and not for an earlier pass.
ClosedVerified ==
  \A g \in Graph : grafo[g] = "hecho" =>
    /\ TodoHecho(g)
    /\ Verifier => verificacion[g] = [tipo |-> "done", firma |-> Firma(g)]

Begins(n) == run[n] = "none" /\ run'[n] = "prep"

\* No node starts in a conversation that is paused or stopped: the state read before the
\* admission still holds at the start, several writes later.
StoppedAdmitsNone == [][\A n \in Node : Begins(n) => ~parada[GraphOf[n]]]_vars

\* A node that is not idempotent and has already acted starts again only after a person
\* has decided so since: no restart, cancellation, coordinator or repair repeats it.
NoBlindRepeat == [][\A n \in Node \ Idempotent : Begins(n) => n \notin effect]_vars

\* A worker that began ends, through pauses, cancellations and failures of its nodes.
LoopEnds == \A g \in Graph : Live(g) ~> ~Live(g)

\* "Contestarla tiene que MOVER el grafo" (server_graph_routes.py): a node that waits for a
\* person when its graph is at rest still has a question that person can answer, or
\* discarded.
WaitingIsAsked ==
  \A n \in Node :
    LET g == GraphOf[n] IN
    loop[g] = "off" /\ answer[g] = <<>> /\ estado[n] = "esperando_humano"
      => pregunta[n] \in {"plan", "node", "skipped"}
=============================================================================
