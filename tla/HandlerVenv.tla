----------------------------- MODULE HandlerVenv ----------------------------
(***************************************************************************)
(* The life of one handler's venv: `jci handler install` and `uninstall`   *)
(* (bin/jci) build and remove it step by step, without a lock, while       *)
(* `handlers/run` looks at it for every request.  Any jci command may be   *)
(* interrupted between two steps.                                          *)
(*                                                                         *)
(* The venv is what is in place of it: its python, its pip, and the        *)
(* handler's dependencies (all of them; a partial set is none).            *)
(***************************************************************************)
EXTENDS Naturals

CONSTANTS
  Installs,     \* runs of `jci handler install <name>`
  Uninstalls,   \* runs of `jci handler uninstall <name>`
  Requests      \* requests dispatched by handlers/run to that handler

ASSUME WriterAssumption == Installs \cap Uninstalls = {}

VARIABLES
  venv,     \* the parts of the venv that exist
  step,     \* step[w]: where command w is
  report,   \* report[i]: what install i has told its user
  alone,    \* alone[w]: no other command has run beside w so far
  ask,      \* ask[q]: where the dispatch of request q is
  answer,   \* answer[q]: what the client of q gets
  calm      \* calm[q]: no command ran, and none was cut short, beside q

venvVars == <<venv, step, report, alone, ask, answer, calm>>

Writers == Installs \cup Uninstalls
Whole   == {"python", "pip", "deps"}

Busy == {w \in Writers : step[w] \notin {"idle", "ended"}}

VenvInit ==
  /\ venv   \in {{}, Whole}
  /\ step   = [w \in Writers |-> "idle"]
  /\ report = [i \in Installs |-> "none"]
  /\ alone  = [w \in Writers |-> TRUE]
  /\ ask    = [q \in Requests |-> "idle"]
  /\ answer = [q \in Requests |-> "none"]
  /\ calm   = [q \in Requests |-> TRUE]

\* A command begins: it is beside every command and request under way.
Begin(w, next) ==
  /\ step[w] = "idle"
  /\ step' = [step EXCEPT ![w] = next]
  /\ alone' = [v \in Writers |-> alone[v] /\ (v \in Busy \cup {w} => Busy = {})]
  /\ calm' = [q \in Requests |-> calm[q] /\ ask[q] \in {"idle", "done"}]
  /\ UNCHANGED <<venv, report, ask, answer>>

Go(w, next) ==
  /\ step' = [step EXCEPT ![w] = next]
  /\ UNCHANGED <<alone, ask, answer, calm>>

\* The command ends with a word to its user.
Finish(i, word) ==
  /\ step' = [step EXCEPT ![i] = "ended"]
  /\ report' = [report EXCEPT ![i] = word]
  /\ UNCHANGED <<alone, ask, answer, calm>>
-----------------------------------------------------------------------------
(* handler_install                                                         *)

\* [ ! -x "$venv/bin/python" ]: only then is the venv created.
InstallBegins(i) ==
  Begin(i, IF "python" \in venv THEN "pip" ELSE "create")

\* python -m venv puts the interpreter in place, then pip.
CreatePython(i) ==
  /\ step[i] = "create"
  /\ venv' = venv \cup {"python"}
  /\ Go(i, "seed") /\ UNCHANGED report

CreatePip(i) ==
  /\ step[i] = "seed"
  /\ venv' = venv \cup {"pip"}
  /\ Go(i, "pip") /\ UNCHANGED report

\* Venv creation fails: rm -rf.
CreateFails(i) ==
  /\ step[i] \in {"create", "seed"}
  /\ Go(i, "clean") /\ UNCHANGED <<venv, report>>

PipInstalls(i) ==
  /\ step[i] = "pip" /\ "pip" \in venv
  /\ venv' = venv \cup {"deps"}
  /\ Finish(i, "installed")

\* Mutated form: what a failed pip leaves behind is not removed.
PipFailsKeeps(i) ==
  /\ step[i] = "pip"
  /\ Finish(i, "failed") /\ UNCHANGED venv

\* pip fails, or is not there to run: rm -rf, even of a venv that worked.
PipFails(i) ==
  /\ step[i] = "pip"
  /\ Go(i, "clean") /\ UNCHANGED <<venv, report>>

\* rm -rf removes the parts in the order of the directory.
CleanPart(i) ==
  /\ step[i] = "clean" /\ venv # {}
  /\ \E part \in venv : venv' = venv \ {part}
  /\ Go(i, "clean") /\ UNCHANGED report

CleanEnds(i) ==
  /\ step[i] = "clean" /\ venv = {}
  /\ Finish(i, "failed") /\ UNCHANGED venv
-----------------------------------------------------------------------------
(* handler_uninstall                                                       *)

UninstallBegins(u) == Begin(u, "remove")

RemovePart(u) ==
  /\ step[u] = "remove" /\ venv # {}
  /\ \E part \in venv : venv' = venv \ {part}
  /\ Go(u, "remove") /\ UNCHANGED report

RemoveEnds(u) ==
  /\ step[u] = "remove" /\ venv = {}
  /\ Go(u, "ended") /\ UNCHANGED <<venv, report>>

\* Ctrl-C or a crash: what is there stays there.
Interrupted(w) ==
  /\ w \in Busy
  /\ Go(w, "ended") /\ UNCHANGED <<venv, report>>
-----------------------------------------------------------------------------
(* handlers/run                                                            *)

Answered(q, what) ==
  /\ ask' = [ask EXCEPT ![q] = "done"]
  /\ answer' = [answer EXCEPT ![q] = what]
  /\ UNCHANGED <<venv, step, report, alone>>

\* Mutated form: the directory is what is looked at, not its python.
DispatchByDir(q) ==
  /\ ask[q] = "idle"
  /\ calm' = [calm EXCEPT ![q] = Busy = {} /\ venv \in {{}, Whole}]
  /\ ask' = [ask EXCEPT ![q] = "exec"]
  /\ UNCHANGED <<venv, step, report, alone, answer>>

\* [ -x "$venv_py" ], else 503 with the install command.
Dispatch(q) ==
  /\ ask[q] = "idle"
  /\ calm' = [calm EXCEPT ![q] = Busy = {} /\ venv \in {{}, Whole}]
  /\ \/ /\ "python" \in venv
        /\ ask' = [ask EXCEPT ![q] = "exec"]
        /\ UNCHANGED <<venv, step, report, alone, answer>>
     \/ /\ "python" \notin venv
        /\ Answered(q, "503")

\* exec "$venv_py": without it bash exits and writes nothing.
ExecPython(q) ==
  /\ ask[q] = "exec"
  /\ UNCHANGED calm
  /\ \/ /\ "python" \in venv
        /\ ask' = [ask EXCEPT ![q] = "import"]
        /\ UNCHANGED <<venv, step, report, alone, answer>>
     \/ /\ "python" \notin venv
        /\ Answered(q, "empty")

\* The handler imports its backend's library inside the request; jci.main
\* turns a missing module into a 500.
ImportDeps(q) ==
  /\ ask[q] = "import"
  /\ UNCHANGED calm
  /\ Answered(q, IF "deps" \in venv THEN "served" ELSE "500")

VenvNext ==
  \/ \E i \in Installs :
       \/ InstallBegins(i) \/ CreatePython(i) \/ CreatePip(i) \/ CreateFails(i)
       \/ PipInstalls(i) \/ PipFails(i) \/ CleanPart(i) \/ CleanEnds(i)
  \/ \E u \in Uninstalls : UninstallBegins(u) \/ RemovePart(u) \/ RemoveEnds(u)
  \/ \E w \in Writers : Interrupted(w)
  \/ \E q \in Requests : Dispatch(q) \/ ExecPython(q) \/ ImportDeps(q)

VenvSpec == VenvInit /\ [][VenvNext]_venvVars
-----------------------------------------------------------------------------
(* Properties.                                                             *)

\* All or nothing, from any debris: an install that ran by itself to its end
\* leaves a whole venv when it says "installed" and none when it says
\* "failed", whatever interrupted commands had left there before.
InstallHeals ==
  [][\A i \in Installs :
       alone[i] /\ report[i] = "none" /\ report'[i] # "none" =>
         venv' = IF report'[i] = "installed" THEN Whole ELSE {}]_venvVars

\* While no jci command touches the venv, and none was cut short in it, a
\* handler that is installed serves and one that is not answers 503.
CalmAnswers ==
  \A q \in Requests :
    ask[q] = "done" /\ calm[q] => answer[q] \in {"served", "503"}

=============================================================================
