---------------------------- MODULE AiProviders ----------------------------
(* What a call to an AI provider comes to. An answer is reduced to its HTTP    *)
(* status (0: none, the request did not get through) and to what its body is   *)
(* worth; the outcome is what the worker's retry decision looks at.            *)
EXTENDS Integers

Answers == [status : {0, 200, 400, 404, 408, 429, 500, 529},
            body : {"good", "partial", "garbled", "empty"}]

Outcomes == {"ok", "retry", "drop"}

\* 408, 429 and 5xx pass; every other 4xx never succeeds on retry.
isRetryableStatus(status) ==
  status \in {408, 429} \/ status >= 500 \/ status < 400

classifyProviderError(status) == IF isRetryableStatus(status) THEN "retry" ELSE "drop"

\* An answer without text, or whose text is not JSON, is dropped.
ReadsAsJson(answer) == answer.body \in {"good", "partial"}

Judge(answer, accepted) ==
  IF answer.status # 200 THEN classifyProviderError(answer.status)
  ELSE IF accepted THEN "ok" ELSE "drop"

\* Fields the model leaves out or gets wrong become null.
extractListing(answer) == Judge(answer, ReadsAsJson(answer))

\* A score that is not a number is an error; features are optional.
scorePhoto(answer) == Judge(answer, answer.body = "good")

scoreMatch(answer) == Judge(answer, answer.body = "good")

\* A verdict that is malformed keeps the agent; only JSON that cannot be parsed
\* is an error.
classify(answer) == Judge(answer, ReadsAsJson(answer))

\* Voyage: a body that is no JSON throws an untyped error, which is retried; one
\* without a vector of the right length is dropped.
embed(answer) ==
  IF answer.status = 200 /\ answer.body \in {"garbled", "empty"} THEN "retry"
  ELSE Judge(answer, answer.body = "good")

PhotoOutcomes == {scorePhoto(a) : a \in Answers}
EmbedOutcomes == {embed(a) : a \in Answers}
MatchOutcomes == {scoreMatch(a) : a \in Answers}
ClassifyOutcomes == {classify(a) : a \in Answers}
=============================================================================
