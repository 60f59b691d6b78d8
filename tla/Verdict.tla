------------------------------ MODULE Verdict ------------------------------
(***************************************************************************)
(* What the proxy makes of an upstream's answer: whether it relays it to   *)
(* the client, or hides it behind a failover and benches the provider.     *)
(*                                                                         *)
(* An answer is a record (AnswerType)                                      *)
(*   status  : the HTTP status                                             *)
(*   events  : whether its Content-Type is text/event-stream               *)
(*   hint    : what the body says, as far as the code searches it: "effort" *)
(*             (reasoning_effort, unsupported value), "disabled" (a paused  *)
(*             or blocked key) or "none"                                    *)
(*   choices : the completion: Absent when the body has no "choices" array  *)
(*             or a first choice that cannot be parsed, else a sequence of   *)
(*             [finish, message, delta]                                     *)
(* A message is NoMessage or [content, tools], which say whether it has     *)
(* text other than white space and whether it has tool calls.               *)
(***************************************************************************)
EXTENDS Integers, Sequences

CONSTANTS
    Absent,             \* the null value of choices
    NoMessage,          \* the null value of message and delta
    FailoverOn404       \* cfg.FailoverOn404

ASSUME FailoverOn404Assumption == FailoverOn404 \in BOOLEAN

Message == {NoMessage} \cup [content : BOOLEAN, tools : BOOLEAN]

Choice == [finish : STRING, message : Message, delta : Message]

AnswerType ==
    [status  : Nat \ {0},
     events  : BOOLEAN,
     hint    : {"effort", "disabled", "none"},
     choices : {Absent} \cup Seq(Choice)]

OK == 200
BadGateway == 502
Unavailable == 503

\* isFailoverStatus, and the 404 that the configuration may add to it.
IsFailoverStatus(status) ==
    \/ status \in {402, 429} \cup 500 .. 599
    \/ FailoverOn404 /\ status = 404

FinishReasons == {"stop", "tool_calls", "length", "content_filter", "function_call"}

\* isEmptyCompletion: only the first choice counts, and its delta only when
\* it has no message.
IsEmptyCompletion(choices) ==
    /\ choices # Absent
    /\ \/ choices = <<>>
       \/ LET choice == choices[1]
              said == IF choice.message = NoMessage THEN choice.delta ELSE choice.message
          IN  /\ choice.finish \notin FinishReasons
              /\ said # NoMessage => ~said.content /\ ~said.tools

\* The category of an answer other than 200 that is no failover status.
ErrorCategory(endpoint, answer) ==
    CASE answer.status = 400 /\ answer.hint = "effort"            -> "reasoning-effort"
      [] answer.status \in {401, 403} /\ answer.hint = "disabled" -> "auth-disabled"
      [] endpoint = "responses" /\ answer.status \in {404, 405}   -> "unsupported-endpoint"
      [] OTHER                                                    -> "client-error"

\* The category of an answer whose whole body has been read.
Category(endpoint, answer) ==
    IF answer.status # OK THEN ErrorCategory(endpoint, answer)
    ELSE IF IsEmptyCompletion(answer.choices) THEN "empty-completion"
    ELSE "success"

\* The answers the client gets to see.
Relayed == {"success", "client-error"}

\* isStreamingResponse, of an answer with status 200: what the upstream sends
\* or what the client has asked for.
IsStreaming(answer, stream) == answer.events \/ stream

=============================================================================
