------------------------------ MODULE MCRouting ------------------------------
(* Two providers with keys and two without.  What is put and what is asked    *)
(* names them, some in other spellings, one in capitals, and one that is not  *)
(* known; a key is cleared, a task gets a provider of its own.                *)
EXTENDS LlmRouting

MCSpelled == [n \in {"github-models", "lm-studio", "lm_studio"} |->
                IF n = "github-models" THEN "github_models" ELSE "lmstudio"]

Names == DOMAIN MCSpelled \cup {"github_models", "lmstudio", "ollama", "Ollama", "nobody"}

NoUpdate == [top |-> <<>>, keys |-> <<>>, tasks |-> <<>>]

MCUpdates ==
  {[NoUpdate EXCEPT !.top = [provider |-> p]] : p \in Names}
  \cup {[NoUpdate EXCEPT !.top = [model |-> m]] : m \in {"", "m"}}
  \cup {[NoUpdate EXCEPT !.keys = [github_models |-> k]] : k \in {"", "put"}}
  \cup {[NoUpdate EXCEPT !.tasks = [concept |-> [provider |-> p, model |-> ""]]]
          : p \in {"", "github-models", "ollama"}}
  \cup {[NoUpdate EXCEPT !.top = [provider |-> "google", model |-> ""],
                         !.tasks = [synthetic |-> [provider |-> "github-models", model |-> "m"]]]}

MCRequests == [provider : Names \cup {""}, model : {"", "m"}, key : {"", "user"}]
=============================================================================
