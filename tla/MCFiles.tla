------------------------------- MODULE MCFiles ------------------------------
(***************************************************************************)
(* Instances of the two modules about files that change while programs use *)
(* them: routes.conf and a handler's venv.  They do not meet, so in each   *)
(* behaviour one of them changes.                                          *)
(*                                                                         *)
(* Routes: files of up to three lines, among them two lines for one host   *)
(* in different case, a gated route, a host followed by a lone token, a    *)
(* bare host, a comment, and a line longer than the buffer.  Venv: two     *)
(* installs, one uninstall and two requests.                               *)
(***************************************************************************)
EXTENDS RouteTable, HandlerVenv

CONSTANTS p1, i1, i2, u1, q1, q2

OneProc == {p1}
MCHosts == {"db", "DB", "api"}
MCFold  == [h \in {"db", "DB", "api", "run", "x"} |-> IF h = "DB" THEN "db" ELSE h]
MCLines ==
  {<<"db", "run", "pg">>, <<"DB", "GET", "run", "my">>, <<"api", "GET">>,
   <<"#", "db", "run">>, <<"db", "GET", "run", "x", "api", "run">>}
FilesOf(L) == {<<>>} \cup {<<a>> : a \in L} \cup {<<a, b>> : a, b \in L}
                \cup {<<a, b, c>> : a, b, c \in L}
ThreeLines   == FilesOf(MCLines)
MCEdits    == {<<>>, <<<<"db", "run", "new">>, <<"api", "run", "x">>>>}
AllFiles   == ThreeLines \cup MCEdits
MCWords    == {"db", "DB", "api", "#", "run", "pg", "my", "x", "new", "GET"}
MCTokens   == {"GET", "GET,POST"}

TwoInstalls  == {i1, i2}
OneUninstall == {u1}
TwoRequests  == {q1, q2}

VARIABLE changes

MCInit ==
  /\ changes \in {"routes", "venv"} /\ Init /\ VenvInit
  /\ changes = "routes" => venv = Whole
  /\ changes = "venv" => file = <<>>

MCNext ==
  \/ changes = "routes" /\ Next /\ UNCHANGED <<changes, venvVars>>
  \/ changes = "venv" /\ VenvNext /\ UNCHANGED <<changes, vars>>

MCSpec == MCInit /\ [][MCNext]_<<changes, vars, venvVars>>
=============================================================================
