------------------------------ MODULE Adapters ------------------------------
(***************************************************************************)
(* Every way a circuit reaches the profiler: a front end builds it from    *)
(* its source, then validate accepts or rejects it.                        *)
(***************************************************************************)
EXTENDS OpenQasm, Tket, Qiskit, Qualtran, Validate

frontVars == <<builderVars, qasmVars, qiskitVars, qualtranVars>>
vars == <<circuitVars, frontVars, kahnVars>>

Init ==
  /\ source \in Sources
  /\ circuit = NoCircuit
  /\ verdict = "open"
  /\ todo = IF source.frontend \in {"qasm", "tket_json", "tket_py"} THEN source.todo ELSE <<>>
  /\ ops = <<>> /\ deps = <<>> /\ untracked = {}
  /\ Tracked(IF source.frontend \in {"tket_json", "tket_py"} THEN source.qubits ELSE 0)
  /\ registers = <<>> /\ hardware = {}
  /\ walked = 0 /\ nodeIds = <<>> /\ kept = <<>>
  /\ emitted = <<>> /\ links = <<>> /\ qubitIds = 0 /\ freed = {} /\ missed = 0
  /\ frames = IF source.frontend = "qualtran" /\ source.bloq.type # "skip"
                THEN <<Frame(source.bloq)>> ELSE <<>>
  /\ KahnIdle

FrontEndStep ==
  \/ ReadJson     /\ UNCHANGED frontVars
  \/ UseFixture   /\ UNCHANGED frontVars
  \/ QasmStep     /\ UNCHANGED <<qiskitVars, qualtranVars>>
  \/ TketStep     /\ UNCHANGED <<qasmVars, qiskitVars, qualtranVars>>
  \/ QiskitStep   /\ UNCHANGED <<builderVars, qasmVars, qualtranVars>>
  \/ QualtranStep /\ UNCHANGED <<builderVars, qasmVars, qiskitVars>>

Answer == verdict \notin {"open", "built", "sorting"}

(* Only an answer ends the run: any other state without a step is a        *)
(* deadlock.                                                               *)
Next ==
  \/ FrontEndStep /\ UNCHANGED kahnVars
  \/ ValidateStep /\ UNCHANGED frontVars
  \/ Answer /\ UNCHANGED vars

Spec == Init /\ [][Next]_vars
=============================================================================
