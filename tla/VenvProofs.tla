----------------------------- MODULE VenvProofs -----------------------------
(***************************************************************************)
(* Proofs about HandlerVenv: what an install leaves behind when nothing    *)
(* ran beside it, and what a request is answered when nothing ran beside   *)
(* the request, for any number of commands and requests.                   *)
(***************************************************************************)
EXTENDS HandlerVenv, TLAPS

WriterSteps == {"idle", "create", "seed", "pip", "clean", "remove", "ended"}

\* Where commands and requests can be, and what a venv consists of.
VenvTypes ==
  /\ venv \subseteq Whole
  /\ step \in [Writers -> WriterSteps]
  /\ report \in [Installs -> {"none", "installed", "failed"}]
  /\ alone \in [Writers -> BOOLEAN]
  /\ ask \in [Requests -> {"idle", "exec", "import", "done"}]
  /\ answer \in [Requests -> {"none", "503", "empty", "served", "500"}]
  /\ calm \in [Requests -> BOOLEAN]

\* A command that has been alone so far is alone now; and an install that is,
\* keeps the interpreter it has found or made.
Undisturbed ==
  /\ \A w \in Writers : alone[w] /\ w \in Busy => Busy = {w}
  /\ \A i \in Installs : alone[i] /\ step[i] \in {"seed", "pip"} => "python" \in venv

\* A request beside no command has seen a python, so it looks at a whole venv.
Calmly ==
  \A q \in Requests :
    calm[q] =>
      /\ ask[q] \in {"exec", "import"} => Busy = {} /\ venv = Whole
      /\ ask[q] = "done" => answer[q] \in {"served", "503"}

VenvInv == VenvTypes /\ Undisturbed /\ Calmly
-----------------------------------------------------------------------------

\* A venv is absent or whole at first.
LEMMA VenvInvInit == VenvInit => VenvInv
BY DEF VenvInit, VenvInv, VenvTypes, Undisturbed, Calmly, Busy, Writers, Whole, WriterSteps

\* A command under way does one of its steps: only itself can leave Busy, and
\* a request that is calm has none beside it.
LEMMA BusyGoes ==
  ASSUME VenvInv, NEW w \in Writers, w \in Busy, NEW next \in WriterSteps,
         step' = [step EXCEPT ![w] = next]
  PROVE  /\ Busy' \subseteq Busy
         /\ \A v \in Writers : v # w => (v \in Busy' <=> v \in Busy)
         /\ \A q \in Requests : calm[q] => ask[q] \notin {"exec", "import"}
BY DEF VenvInv, VenvTypes, Calmly, Busy

\* A command that begins.
LEMMA BeginKeeps ==
  ASSUME VenvInv, NEW w \in Writers, NEW next \in WriterSteps \ {"idle", "ended"},
         Begin(w, next), next \in {"seed", "pip"} => "python" \in venv
  PROVE  VenvInv'
<1> USE DEF VenvInv, VenvTypes, Begin
<1>1. Busy' = Busy \cup {w} /\ w \notin Busy
  BY DEF Busy
<1>2. VenvTypes'
  OBVIOUS
<1>3. Undisturbed'
  BY <1>1 DEF Undisturbed, Writers, Busy
<1>4. Calmly'
  BY <1>1 DEF Calmly
<1> QED
  BY <1>2, <1>3, <1>4

\* An install or uninstall that goes on, changing the venv or not.
LEMMA GoKeeps ==
  ASSUME VenvInv, NEW w \in Writers, w \in Busy, NEW next \in WriterSteps,
         Go(w, next), venv' \subseteq Whole, UNCHANGED report,
         step[w] \in {"create", "seed", "pip"} /\ "python" \in venv => "python" \in venv',
         w \in Installs /\ alone[w] /\ next \in {"seed", "pip"} => "python" \in venv'
  PROVE  VenvInv'
<1> USE DEF VenvInv, VenvTypes, Go
<1>1. VenvTypes'
  OBVIOUS
<1>2. Undisturbed'
  BY BusyGoes DEF Undisturbed, Writers, Busy
<1>3. Calmly'
  BY BusyGoes DEF Calmly
<1> QED
  BY <1>1, <1>2, <1>3

\* An install that reports has ended.
LEMMA FinishKeeps ==
  ASSUME VenvInv, NEW i \in Installs, i \in Busy, NEW word \in {"installed", "failed"},
         Finish(i, word), venv' \subseteq Whole, venv \subseteq venv'
  PROVE  VenvInv'
<1> USE DEF VenvInv, VenvTypes, Finish
<1>1. i \in Writers
  BY DEF Writers
<1>2. VenvTypes'
  BY <1>1 DEF WriterSteps
<1>3. Undisturbed'
  BY <1>1, BusyGoes DEF Undisturbed, Writers, Busy, WriterSteps
<1>4. Calmly'
  BY <1>1, BusyGoes DEF Calmly, WriterSteps
<1> QED
  BY <1>2, <1>3, <1>4

\* A request goes on, or is answered: no command moves.
LEMMA RequestKeeps ==
  ASSUME VenvInv, NEW q \in Requests, Dispatch(q) \/ ExecPython(q) \/ ImportDeps(q)
  PROVE  VenvInv'
<1> USE DEF VenvInv, VenvTypes, Answered
<1>1. UNCHANGED <<venv, step, report, alone>> /\ Busy' = Busy
  BY DEF Dispatch, ExecPython, ImportDeps, Busy
<1>2. VenvTypes'
  BY <1>1 DEF Dispatch, ExecPython, ImportDeps
<1>3. Undisturbed'
  BY <1>1 DEF Undisturbed
<1>4. CASE Dispatch(q)
  <2>1. calm'[q] => Busy = {} /\ venv \in {{}, Whole}
    BY <1>4 DEF Dispatch
  <2>2. \A r \in Requests :
          r # q => calm'[r] = calm[r] /\ ask'[r] = ask[r] /\ answer'[r] = answer[r]
    BY <1>4 DEF Dispatch
  <2>3. \/ ask'[q] = "exec" /\ "python" \in venv
        \/ ask'[q] = "done" /\ answer'[q] = "503"
    BY <1>4 DEF Dispatch
  <2>4. Calmly'
    BY <1>1, <2>1, <2>2, <2>3 DEF Calmly
  <2> QED
    BY <1>2, <1>3, <2>4
<1>5. CASE ExecPython(q)
  BY <1>1, <1>2, <1>3, <1>5 DEF ExecPython, Calmly, Whole
<1>6. CASE ImportDeps(q)
  BY <1>1, <1>2, <1>3, <1>6 DEF ImportDeps, Calmly, Whole
<1> QED
  BY <1>4, <1>5, <1>6
-----------------------------------------------------------------------------

\* Every step keeps the invariant.
LEMMA VenvInvStep == VenvInv /\ [VenvNext]_venvVars => VenvInv'
<1> SUFFICES ASSUME VenvInv, [VenvNext]_venvVars
             PROVE  VenvInv'
  OBVIOUS
<1>1. ASSUME NEW i \in Installs,
             \/ InstallBegins(i) \/ CreatePython(i) \/ CreatePip(i) \/ CreateFails(i)
             \/ PipInstalls(i) \/ PipFails(i) \/ CleanPart(i) \/ CleanEnds(i)
      PROVE  VenvInv'
  <2> USE DEF VenvInv, VenvTypes, WriterSteps
  <2>1. i \in Writers /\ step[i] \in WriterSteps
    BY DEF Writers
  <2>2. CASE InstallBegins(i)
    BY <2>1, <2>2, BeginKeeps DEF InstallBegins
  <2>3. CASE CreatePython(i)
    <3>1. /\ i \in Busy /\ venv' \subseteq Whole /\ "python" \in venv'
          /\ Go(i, "seed") /\ UNCHANGED report
      BY <2>1, <2>3 DEF CreatePython, Busy, Whole
    <3> QED
      BY <2>1, <3>1, GoKeeps
  <2>4. CASE CreatePip(i)
    <3>1. /\ i \in Busy /\ venv' \subseteq Whole /\ venv \subseteq venv'
          /\ Go(i, "pip") /\ UNCHANGED report /\ step[i] = "seed"
      BY <2>1, <2>4 DEF CreatePip, Busy, Whole
    <3> QED
      BY <2>1, <3>1, GoKeeps DEF Undisturbed
  <2>5. CASE CreateFails(i) \/ PipFails(i)
    <3>1. i \in Busy /\ Go(i, "clean") /\ UNCHANGED <<venv, report>>
      BY <2>1, <2>5 DEF CreateFails, PipFails, Busy
    <3> QED
      BY <2>1, <3>1, GoKeeps
  <2>6. CASE PipInstalls(i)
    <3>1. i \in Busy /\ venv' \subseteq Whole /\ venv \subseteq venv' /\ Finish(i, "installed")
      BY <2>1, <2>6 DEF PipInstalls, Busy, Whole
    <3> QED
      BY <3>1, FinishKeeps
  <2>7. CASE CleanPart(i)
    <3>1. /\ i \in Busy /\ step[i] = "clean" /\ venv' \subseteq venv
          /\ Go(i, "clean") /\ UNCHANGED report
      BY <2>1, <2>7 DEF CleanPart, Busy
    <3> QED
      BY <2>1, <3>1, GoKeeps
  <2>8. CASE CleanEnds(i)
    <3>1. i \in Busy /\ Finish(i, "failed") /\ UNCHANGED venv
      BY <2>1, <2>8 DEF CleanEnds, Busy
    <3> QED
      BY <3>1, FinishKeeps
  <2> QED
    BY <1>1, <2>2, <2>3, <2>4, <2>5, <2>6, <2>7, <2>8
<1>2. ASSUME NEW u \in Uninstalls, UninstallBegins(u) \/ RemovePart(u) \/ RemoveEnds(u)
      PROVE  VenvInv'
  <2> USE DEF VenvInv, VenvTypes, WriterSteps
  <2>1. u \in Writers /\ u \notin Installs
    BY WriterAssumption DEF Writers
  <2>2. CASE UninstallBegins(u)
    BY <2>1, <2>2, BeginKeeps DEF UninstallBegins
  <2>3. CASE RemovePart(u) \/ RemoveEnds(u)
    <3>1. /\ u \in Busy /\ step[u] = "remove" /\ venv' \subseteq venv /\ UNCHANGED report
          /\ Go(u, "remove") \/ Go(u, "ended")
      BY <2>1, <2>3 DEF RemovePart, RemoveEnds, Busy
    <3> QED
      BY <2>1, <3>1, GoKeeps
  <2> QED
    BY <1>2, <2>2, <2>3
<1>3. ASSUME NEW w \in Writers, Interrupted(w)
      PROVE  VenvInv'
  BY <1>3, GoKeeps DEF Interrupted, VenvInv, VenvTypes, WriterSteps
<1>4. ASSUME NEW q \in Requests, Dispatch(q) \/ ExecPython(q) \/ ImportDeps(q)
      PROVE  VenvInv'
  BY <1>4, RequestKeeps
<1>5. CASE UNCHANGED venvVars
  BY <1>5 DEF venvVars, VenvInv, VenvTypes, Undisturbed, Calmly, Busy
<1> QED
  BY <1>1, <1>2, <1>3, <1>4, <1>5 DEF VenvNext

\* The invariant of the venvs.
LEMMA VenvInvHolds == VenvSpec => []VenvInv
BY VenvInvInit, VenvInvStep, PTL DEF VenvSpec
-----------------------------------------------------------------------------
\* A request beside no command gets what the state of the handler calls for:
\* it is served when the handler is installed, and told how to install it when
\* it is not.  Whoever ran before, and in whatever state they left the venv,
\* has no part in this.
THEOREM CalmlyAnswered == VenvSpec => []CalmAnswers
<1>1. VenvInv => CalmAnswers
  BY DEF VenvInv, Calmly, CalmAnswers
<1> QED
  BY <1>1, VenvInvHolds, PTL

\* An install that nothing disturbed leaves a whole venv or none, and says
\* which, from whatever debris earlier commands had left.
THEOREM InstallIsWhole == VenvSpec => InstallHeals
<1>1. ASSUME VenvInv, [VenvNext]_venvVars, NEW i \in Installs,
             alone[i], report[i] = "none", report'[i] # "none"
      PROVE  venv' = IF report'[i] = "installed" THEN Whole ELSE {}
  <2> USE DEF VenvInv, VenvTypes
  <2>1. PipInstalls(i) \/ CleanEnds(i)
    <3>1. PICK j \in Installs : PipInstalls(j) \/ CleanEnds(j)
      BY <1>1 DEF VenvNext, venvVars, Begin, Go, Answered, InstallBegins, CreatePython, CreatePip,
                  CreateFails, PipFails, CleanPart, UninstallBegins, RemovePart, RemoveEnds,
                  Interrupted, Dispatch, ExecPython, ImportDeps
    <3>2. j = i
      BY <1>1, <3>1 DEF PipInstalls, CleanEnds, Finish
    <3> QED
      BY <3>1, <3>2
  <2>2. CASE PipInstalls(i)
    <3>1. "python" \in venv
      BY <1>1, <2>2 DEF PipInstalls, Undisturbed
    <3> QED
      BY <1>1, <2>2, <3>1 DEF PipInstalls, Finish, Whole
  <2>3. CASE CleanEnds(i)
    BY <1>1, <2>3 DEF CleanEnds, Finish
  <2> QED
    BY <2>1, <2>2, <2>3
<1>2. VenvInv /\ [VenvNext]_venvVars =>
        [\A i \in Installs : alone[i] /\ report[i] = "none" /\ report'[i] # "none" =>
           venv' = IF report'[i] = "installed" THEN Whole ELSE {}]_venvVars
  BY <1>1
<1> QED
  BY <1>2, VenvInvHolds, PTL DEF VenvSpec, InstallHeals
=============================================================================
