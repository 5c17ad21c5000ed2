----------------------------- MODULE WebRequest -----------------------------
(***************************************************************************)
(* One call of an adapter that speaks HTTP: ReqwestHttpClient (fetch),     *)
(* ChatCompletionsModel (chat-completion) and S3ObjectStore (the five      *)
(* store operations).  The three share a shape, build, send, read the body *)
(* under a cap, and differ in what they retry, time and refuse.            *)
(*                                                                         *)
(* The server and the network are the environment: a request may be        *)
(* performed and its answer lost, and a body may stop in the middle.       *)
(***************************************************************************)
EXTENDS Naturals

CONSTANTS
  Requests,        \* [kind, wellFormed, retries, timed]
  FetchRetriesMax, \* FETCH_RETRIES_MAX
  BodyCap,         \* CAPTURED_OUTPUT_MAX_BYTES, in units
  Statuses         \* the statuses the server answers with

StoreKinds == {"get", "put", "delete", "head", "list"}
WebKinds == {"fetch", "chat"} \union StoreKinds

ASSUME WebRequestAssumption ==
  /\ FetchRetriesMax \in Nat /\ BodyCap \in Nat /\ Statuses \subseteq Nat \ {0}
  /\ Requests \subseteq [kind : WebKinds, wellFormed : BOOLEAN,
                         retries : Nat, timed : BOOLEAN]

VARIABLES
  req,       \* the request of this call
  attempt,   \* retries spent
  performed, \* how often the server has acted on it
  reply,     \* what the server answered to this attempt
  taken,     \* units of the body read
  expired,   \* time limits that have run out
  webPhase,  \* where the call stands
  webAnswer  \* its result, or "none"

webVars == <<req, attempt, performed, reply, taken, expired, webPhase, webAnswer>>

NoReply == [status |-> 0, size |-> 0]
Success(status) == status \in 200..299
-----------------------------------------------------------------------------
WebIdle(r) ==
  /\ req = r
  /\ attempt = 0 /\ performed = 0 /\ reply = NoReply /\ taken = 0 /\ expired = 0
  /\ webPhase = "idle" /\ webAnswer = "none"

WebAnswers(a) == webPhase' = "answered" /\ webAnswer' = a

\* A failure of the request itself, in the words of its adapter.
Refusal(kind) ==
  CASE kind = "fetch" -> "http_request_failed"
    [] kind = "chat"  -> "chat_request_failed"
    [] OTHER          -> "store_request_failed"

\* What is no request at all: a bad method, no endpoint, no valid URL or header.
BuildFails ==
  /\ webPhase = "idle" /\ ~req.wellFormed
  /\ \/ WebAnswers(Refusal(req.kind))
     \/ req.kind = "fetch" /\ WebAnswers("http_invalid_method")
     \/ req.kind = "chat" /\ WebAnswers("chat_no_endpoint")
  /\ UNCHANGED <<req, attempt, performed, reply, taken, expired>>

Send ==
  /\ webPhase = "idle" /\ req.wellFormed
  /\ webPhase' = "sent"
  /\ UNCHANGED <<req, attempt, performed, reply, taken, expired, webAnswer>>

\* The server acts on the request and decides on an answer, which may be lost.
Perform(status, size) ==
  /\ webPhase = "sent" /\ reply = NoReply
  /\ performed' = performed + 1
  /\ reply' = [status |-> status, size |-> size]
  /\ UNCHANGED <<req, attempt, taken, expired, webPhase, webAnswer>>
-----------------------------------------------------------------------------
\* Mutant of Retries: the task's own number is taken as it is.
RetriesUnclamped(r) == IF r.kind = "fetch" THEN r.retries ELSE 0

\* Only fetch retries, and never more than the ceiling.
Retries(r) ==
  IF r.kind # "fetch" THEN 0
  ELSE IF r.retries < FetchRetriesMax THEN r.retries ELSE FetchRetriesMax

SendsAgain == attempt < Retries(req)

\* The loop over execute: the same request once more, with its whole time limit.
Resend ==
  /\ SendsAgain
  /\ attempt' = attempt + 1 /\ reply' = NoReply
  /\ UNCHANGED <<webPhase, webAnswer>>

GivesUp(a) == ~SendsAgain /\ WebAnswers(a) /\ UNCHANGED <<attempt, reply>>

\* The connection fails before the headers of an answer arrive.
TransportFails ==
  /\ webPhase = "sent"
  /\ Resend \/ GivesUp(Refusal(req.kind))
  /\ UNCHANGED <<req, performed, taken, expired>>

\* The time limit of this attempt runs out before they arrive.
AttemptTimesOut ==
  /\ webPhase = "sent" /\ req.timed
  /\ expired' = expired + 1
  /\ Resend \/ GivesUp("task_timeout")
  /\ UNCHANGED <<req, performed, taken>>
-----------------------------------------------------------------------------
\* What the status alone decides.  fetch takes any status and chat looks at it
\* after the body; the store operations each read 404 in their own way.
AnsweredByStatus(kind, status) ==
  IF kind \in {"fetch", "chat"} THEN "body"
  ELSE IF Success(status) THEN IF kind \in {"get", "list"} THEN "body" ELSE "ok"
  ELSE IF kind = "get" /\ status = 404 THEN "object_not_found"
  ELSE IF kind \in {"delete", "head"} /\ status = 404 THEN "ok"
  ELSE "store_request_failed"

HeadersArrive ==
  /\ webPhase = "sent" /\ reply # NoReply
  /\ LET next == AnsweredByStatus(req.kind, reply.status) IN
     \/ next = "body" /\ webPhase' = "body" /\ UNCHANGED webAnswer
     \/ next # "body" /\ WebAnswers(next)
  /\ UNCHANGED <<req, attempt, performed, reply, taken, expired>>

ReadChunk ==
  /\ webPhase = "body" /\ taken < reply.size
  /\ taken' = taken + 1
  /\ IF taken' > BodyCap THEN WebAnswers("output_too_large")
     ELSE UNCHANGED <<webPhase, webAnswer>>
  /\ UNCHANGED <<req, attempt, performed, reply, expired>>

\* The body is whole: chat refuses a status outside 2xx and a body it cannot
\* read, the others take it as it is.
BodyEnds ==
  /\ webPhase = "body" /\ taken = reply.size
  /\ \/ req.kind # "chat" /\ WebAnswers("ok")
     \/ req.kind = "chat" /\ ~Success(reply.status) /\ WebAnswers("chat_api_error")
     \/ /\ req.kind = "chat" /\ Success(reply.status)
        /\ \E a \in {"ok", "chat_bad_response"} : WebAnswers(a)
  /\ UNCHANGED <<req, attempt, performed, reply, taken, expired>>

\* The connection fails in the middle of the body; nothing is sent again.
BodyBreaks ==
  /\ webPhase = "body"
  /\ WebAnswers(Refusal(req.kind))
  /\ UNCHANGED <<req, attempt, performed, reply, taken, expired>>

\* The time limit runs out in the middle of the body.  The store adapter asks
\* whether the error is a time-out; HttpError::Body does not.
BodyTimesOut ==
  /\ webPhase = "body" /\ req.timed
  /\ expired' = expired + 1
  /\ WebAnswers(IF req.kind = "fetch" THEN "http_request_failed" ELSE "task_timeout")
  /\ UNCHANGED <<req, attempt, performed, reply, taken>>

\* The guard of a hard stop drops the whole call.
WebDropped ==
  /\ webPhase \in {"sent", "body"}
  /\ WebAnswers("dropped")
  /\ UNCHANGED <<req, attempt, performed, reply, taken, expired>>

\* Bounded by the size of a body: one unit over the cap.
Server == \E status \in Statuses, size \in 0..(BodyCap + 1) : Perform(status, size)

WebTimesOut == AttemptTimesOut \/ BodyTimesOut

WebNext ==
  \/ BuildFails \/ Send \/ Server
  \/ TransportFails \/ HeadersArrive
  \/ ReadChunk \/ BodyEnds \/ BodyBreaks
  \/ WebTimesOut \/ WebDropped
-----------------------------------------------------------------------------
WebTypeOK ==
  /\ req \in Requests
  /\ attempt \in Nat /\ performed \in Nat /\ expired \in Nat
  /\ reply \in [status : Statuses \union {0}, size : 0..(BodyCap + 1)]
  /\ taken \in 0..(BodyCap + 1)
  /\ webPhase \in {"idle", "sent", "body", "answered"}

\* A success means the server acted and its whole body, within the cap, is in
\* hand; a refusal by status has that status; nothing over the cap is kept
\* (send_inner, complete_inner, S3ObjectStore::perform).
WebAnswerIsEarned ==
  /\ webAnswer = "ok" =>
       /\ performed > 0
       /\ req.kind \in {"fetch", "chat", "get", "list"} =>
            taken = reply.size /\ taken <= BodyCap
       /\ req.kind # "fetch" =>
            Success(reply.status) \/ (req.kind \in {"delete", "head"} /\ reply.status = 404)
  /\ webAnswer = "object_not_found" => req.kind = "get" /\ reply.status = 404
  /\ webAnswer = "output_too_large" => reply.size > BodyCap /\ taken = BodyCap + 1
  /\ webAnswer = "task_timeout" => req.timed

\* A server that acts and goes quiet is asked again only by fetch, and only so
\* often: nothing is put, deleted or completed twice by one call.
RequestsAreBounded ==
  /\ performed <= 1 + FetchRetriesMax
  /\ req.kind # "fetch" => performed <= 1
  /\ webPhase = "body" => performed <= 1 + attempt

=============================================================================
