------------------------------- MODULE MCCalls -------------------------------
(* The tasks of the event loop that wait for another server: the push of a    *)
(* job to folio-insights with all that may get in its way, and the calls to   *)
(* the local model server.  Each behaviour is of one of the two.              *)
EXTENDS PostJobFlow, OllamaServer

VARIABLE part

all == <<vars, ollama_vars, part>>

\* What stands still has one initial state.
MCInit == /\ part \in {"flow", "ollama"}
          /\ Init /\ OllamaInit
          /\ part = "flow" => installed = FALSE /\ local = {}
          /\ part = "ollama" => store.status = "completed"

Flow   == part = "flow" /\ UNCHANGED <<ollama_vars, part>>
Ollama == part = "ollama" /\ UNCHANGED <<vars, part>>

MCSpec == /\ MCInit /\ [][(Next /\ Flow) \/ (OllamaNext /\ Ollama)]_all
          /\ WF_all(Pipeline /\ pc' # pc /\ Flow)
          /\ WF_all(StartScheduledPush /\ Flow) /\ WF_all(PushAnswered /\ Flow)
          /\ WF_all(FailOrphan /\ Flow) /\ WF_all(Recover /\ Flow)
          /\ \A c \in Callers : WF_all(CallStep(c) /\ Ollama)
=============================================================================
