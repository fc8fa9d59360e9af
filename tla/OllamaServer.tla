---------------------------- MODULE OllamaServer ----------------------------
(* The local model server that the application finds, installs, starts and    *)
(* stops, and the routes and the startup hook that ask for it at once.  An    *)
(* await ends a step: what a call saw before it may be gone after it.         *)
(*                                                                            *)
(* The server is not under src/: at most one process has the port, one that   *)
(* finds it taken ends, and users may run a server of their own.              *)
(* Simplifications: versions, sizes, progress and the routes that only look   *)
(* are left out; the models of all tiers are one set; a process that is told  *)
(* to end, ends.                                                              *)
(* A definition marked "broken" is a defect that no specification uses.       *)
EXTENDS Integers, FiniteSets

CONSTANTS Callers,
          Required,                \* the models of all tiers
          MaxLooks,                \* looks at a server that was started
          MaxCalls                 \* bound

ASSUME OllamaAssumption == MaxLooks \in Nat \ {0} /\ MaxCalls \in Nat

VARIABLES installed, local,        \* the program and the models on this machine
          alive, serving,          \* our processes; who has the port
          handle,                  \* _managed_process
          spawned, beside,         \* how many; whether one was spawned beside another
          calls, made

ollama_vars == <<installed, local, alive, serving, handle, spawned, beside, calls, made>>

Nobody == 0
Users  == 0 - 1                    \* a server that is not ours

CallKinds == {"setup", "start", "stop", "pull", "boot"}

NoCall == [pc |-> "idle", kind |-> "stop", found |-> FALSE, looks |-> 0,
           todo |-> {}, failed |-> {}]

OllamaInit ==
  /\ installed \in BOOLEAN /\ local \in SUBSET Required
  /\ alive = {} /\ serving \in IF installed THEN {Nobody, Users} ELSE {Nobody}
  /\ handle = Nobody /\ spawned = 0 /\ beside = FALSE
  /\ calls = [c \in Callers |-> NoCall] /\ made = 0

Stands(c, pc) == calls[c].pc = pc
Becomes(c, call) == calls' = [calls EXCEPT ![c] = call]
Leads(c, pc) == Becomes(c, [calls[c] EXCEPT !.pc = pc])

-----------------------------------------------------------------------------
\* The hook runs before the first request is taken.
Call(c, kind) ==
  /\ Stands(c, "idle") /\ made < MaxCalls
  /\ kind = "boot" => made = 0
  /\ \A other \in Callers : calls[other].kind # "boot"
  /\ made' = made + 1
  /\ \E todo \in IF kind = "pull" THEN {Required} \cup {{m} : m \in Required} ELSE {{}} :
       Becomes(c, [NoCall EXCEPT !.kind = kind, !.todo = todo,
         !.pc = CASE kind = "start" -> "reach" [] kind = "stop" -> "stop"
                  [] kind = "pull" -> "pull" [] OTHER -> "detect"])
  /\ UNCHANGED <<installed, local, alive, serving, handle, spawned, beside>>

\* detect: the program, then whether the server answers; of its models only the
\* last look of a setup makes use, see Started
FindBinary(c) ==
  /\ Stands(c, "detect")
  /\ Becomes(c, [calls[c] EXCEPT !.found = installed, !.pc = "ask"])
  /\ UNCHANGED <<installed, local, alive, serving, handle, spawned, beside, made>>

\* What a call does when it knows the server is down
Down(call) ==
  CASE call.kind = "boot" -> IF call.found THEN "reach" ELSE "done"
    [] OTHER -> IF call.found THEN "again" ELSE "install"

Reach(c) ==
  /\ Stands(c, "ask")
  /\ Becomes(c, [calls[c] EXCEPT !.found = FALSE,
                   !.pc = IF serving = Nobody THEN Down(calls[c])
                          ELSE IF calls[c].kind = "setup" THEN "again" ELSE "done"])
  /\ UNCHANGED <<installed, local, alive, serving, handle, spawned, beside, made>>

InstallOllama(c, ok) ==
  /\ Stands(c, "install")
  /\ installed' = (installed \/ ok)
  /\ Leads(c, "again")
  /\ UNCHANGED <<local, alive, serving, handle, spawned, beside, made>>

\* The setup looks a second time, whether there was something to install or not.
LookAgain(c) ==
  /\ Stands(c, "again")
  /\ Leads(c, IF serving # Nobody THEN "started" ELSE "reach")
  /\ UNCHANGED <<installed, local, alive, serving, handle, spawned, beside, made>>

-----------------------------------------------------------------------------
\* start: does it answer, is it installed, spawn, and look until it answers
FindServer(c) ==
  /\ Stands(c, "reach")
  /\ Leads(c, IF serving # Nobody THEN "started" ELSE "spawn")
  /\ UNCHANGED <<installed, local, alive, serving, handle, spawned, beside, made>>

\* The handle of a process that was spawned before is lost.
Spawn(c) ==
  /\ Stands(c, "spawn")
  /\ IF installed
     THEN /\ spawned' = spawned + 1 /\ handle' = spawned + 1
          /\ alive' = alive \cup {spawned + 1}
          /\ beside' = (beside \/ alive # {})
          /\ Becomes(c, [calls[c] EXCEPT !.pc = "poll", !.looks = 0])
     ELSE /\ Leads(c, "failed") /\ UNCHANGED <<spawned, handle, alive, beside>>
  /\ UNCHANGED <<installed, local, serving, made>>

LooksForEver(n) == FALSE           \* broken: a server that never answers is waited for

LooksOver(n) == n >= MaxLooks

\* The server that answers need not be ours; the log line names the handle's
\* process, and raises if a stop has cleared it meanwhile.
PollServer(c) ==
  /\ Stands(c, "poll")
  /\ Becomes(c, [calls[c] EXCEPT !.looks = IF @ < MaxLooks THEN @ + 1 ELSE @,
       !.pc = IF serving # Nobody THEN (IF handle # Nobody THEN "started" ELSE "failed")
              ELSE IF LooksOver(calls[c].looks + 1) THEN "failed" ELSE "poll"])
  /\ UNCHANGED <<installed, local, alive, serving, handle, spawned, beside, made>>

\* The setup lists the models, a list that cannot be had is an empty one, and
\* pulls what is missing.
Missing(models) == Required \ models

Started(c, ok) ==
  /\ Stands(c, "started")
  /\ LET models == IF ok /\ serving # Nobody THEN local ELSE {}
     IN  Becomes(c, IF calls[c].kind = "setup"
                    THEN [calls[c] EXCEPT !.todo = Missing(models), !.looks = 0, !.pc = "pull"]
                    ELSE [calls[c] EXCEPT !.pc = "done"])
  /\ UNCHANGED <<installed, local, alive, serving, handle, spawned, beside, made>>

-----------------------------------------------------------------------------
ForgetsFirst(p) == {}              \* broken: the handle is cleared, the process left

Ended(p) == {p}

\* stop blocks the event loop until the process has ended.
Stop(c) ==
  /\ Stands(c, "stop")
  /\ alive' = alive \ Ended(handle)
  /\ serving' = IF serving # Nobody /\ serving \in Ended(handle) THEN Nobody ELSE serving
  /\ handle' = Nobody
  /\ Leads(c, "done")
  /\ UNCHANGED <<installed, local, spawned, beside, made>>

\* One model after the other, in an order that is fixed.  A pull that raises is
\* reported and the next one begun; a stream that carries an error as a line of its
\* own ends like a good one, and nobody is told.  `failed' is a history of both.
PullModel(c, outcome) ==
  LET m == CHOOSE m \in calls[c].todo : TRUE
  IN  /\ Stands(c, "pull") /\ calls[c].todo # {}
      /\ outcome # "raises" => serving # Nobody
      /\ local' = IF outcome = "pulled" THEN local \cup {m} ELSE local
      /\ Becomes(c, [calls[c] EXCEPT
           !.todo = @ \ {m},
           !.failed = IF outcome = "pulled" THEN @ ELSE @ \cup {m}])
  /\ UNCHANGED <<installed, alive, serving, handle, spawned, beside, made>>

Complete(c) ==
  /\ Stands(c, "pull") /\ calls[c].todo = {}
  /\ Leads(c, "complete")
  /\ UNCHANGED <<installed, local, alive, serving, handle, spawned, beside, made>>

EndCall(c) ==
  /\ calls[c].pc \in {"done", "failed", "complete"}
  /\ Becomes(c, NoCall)
  /\ UNCHANGED <<installed, local, alive, serving, handle, spawned, beside, made>>

-----------------------------------------------------------------------------
\* The server: one of our processes gets the port, or ends; users have their own.
Serve(p) ==
  /\ p \in alive /\ serving = Nobody /\ serving' = p
  /\ UNCHANGED <<installed, local, alive, handle, spawned, beside, calls, made>>

Exit(p) ==
  /\ p \in alive /\ alive' = alive \ {p}
  /\ serving' = IF serving = p THEN Nobody ELSE serving
  /\ UNCHANGED <<installed, local, handle, spawned, beside, calls, made>>

UsersServer ==
  /\ installed
  /\ \/ serving = Nobody /\ serving' = Users
     \/ serving = Users /\ serving' = Nobody
  /\ UNCHANGED <<installed, local, alive, handle, spawned, beside, calls, made>>

\* What the event loop does without waiting for anybody outside
CallStep(c) ==
  \/ FindBinary(c) \/ Reach(c) \/ LookAgain(c) \/ FindServer(c) \/ Spawn(c) \/ PollServer(c)
  \/ \E ok \in BOOLEAN : Started(c, ok)
  \/ Stop(c) \/ Complete(c) \/ EndCall(c)

Downloads(c) ==
  \/ \E ok \in BOOLEAN : InstallOllama(c, ok)
  \/ \E outcome \in {"pulled", "raises", "ends"} : PullModel(c, outcome)

OllamaNext ==
  \/ \E c \in Callers, kind \in CallKinds : Call(c, kind)
  \/ \E c \in Callers : CallStep(c) \/ Downloads(c)
  \/ \E p \in alive : Serve(p) \/ Exit(p)
  \/ UsersServer

\* The event loop gets to every task; nobody bounds a download or the server.
OllamaSpec == /\ OllamaInit /\ [][OllamaNext]_ollama_vars
              /\ \A c \in Callers : WF_ollama_vars(CallStep(c))

-----------------------------------------------------------------------------
OllamaTypeOK ==
  /\ installed \in BOOLEAN /\ local \in SUBSET Required
  /\ alive \in SUBSET (1..spawned) /\ serving \in alive \cup {Nobody, Users}
  /\ handle \in 0..spawned

\* A setup ends with "complete" only when each required model was listed or
\* pulled or its pull was tried and failed, whoever stops the server meanwhile.  Of
\* a pull that raised the user was told; of one whose stream ended with an error as
\* a line nobody was; see README.  (ollama_setup, pull_model)
CompleteMeansTried ==
  \A c \in Callers : (calls[c].kind = "setup" /\ calls[c].pc = "complete")
    => Required \subseteq local \cup calls[c].failed

\* After a stop no process of ours is left and the users' server is untouched,
\* unless a start had spawned one beside another: then the handle of the older is
\* lost and nothing can stop it.  (OllamaManager.stop)
StopEndsOurs ==
  [][\A c \in Callers : (calls[c].pc = "stop" /\ calls'[c].pc # "stop")
       => /\ beside \/ alive' = {}
          /\ serving = Users => serving' = Users]_ollama_vars

\* Every call ends or waits for a download, whether the server ever answers or
\* not and whoever starts and stops it meanwhile, and a setup that ends well has
\* tried every model it lacked.  (OllamaManager.start, ollama_setup)
CallsEnd ==
  /\ [](OllamaTypeOK /\ CompleteMeansTried)
  /\ \A c \in Callers : calls[c].pc # "idle" ~> calls[c].pc \in {"idle", "install", "pull"}
=============================================================================
