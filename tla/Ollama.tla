-------------------------------- MODULE Ollama --------------------------------
(***************************************************************************)
(* pkg/llm/ollama.go: one HTTP exchange with the LLM, which may not be     *)
(* reached, break off, answer with an error status, or answer with a body  *)
(* that is not the expected JSON.  A JSON object without the expected      *)
(* field decodes to an empty text.                                         *)
(***************************************************************************)
EXTENDS Integers

Error == "error"

\* transport: how far the exchange gets; body: what the JSON holds.
Exchanges == [transport : {"refused", "broken", "complete"}, status : {200, 500},
              body : {"not JSON", "", "text"}]

post(x) == IF x.transport # "complete" \/ x.status >= 300 THEN Error ELSE x.body

\* Chat and Summarize differ in the path and in the field they decode.
decode(body) == IF body \in {Error, "not JSON"} THEN Error ELSE body

Chat(x) == decode(post(x))

Summarize(x) == decode(post(x))

=============================================================================
