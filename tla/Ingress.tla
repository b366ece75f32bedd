------------------------------ MODULE Ingress -------------------------------
(***************************************************************************)
(* One HTTP request on its way through an API process: the server hands    *)
(* its body over message by message, BodySizeLimitMiddleware counts it,    *)
(* the route reads it or answers without reading it, the handlers of       *)
(* errors.py turn what was raised into an answer, and the middleware       *)
(* passes that answer on or replaces it.                                   *)
(*                                                                         *)
(* The layers, from the outside in: ServerErrorMiddleware, the size limit, *)
(* ExceptionMiddleware, the route.  The first and the third are            *)
(* Starlette's.  Only the export answers while its request is still being  *)
(* read, because Starlette listens for a disconnect as it streams.         *)
(*                                                                         *)
(* The server frames a body by its Content-Length, so a declared length is *)
(* the length sent; a chunked body declares none.                          *)
(***************************************************************************)
EXTENDS Integers, Sequences, Functions

CONSTANTS MaxBytes,  \* max_body_bytes
          Sizes,     \* how many bytes bodies have
          NoLength   \* no Content-Length, or one that is not a number

ASSUME IngressAssumption ==
         /\ MaxBytes \in Nat \ {0}
         /\ Sizes \subseteq Nat
         /\ NoLength \notin Int

VARIABLES request,     \* the route, the length declared and the length sent
          limited,     \* rate_limit_enabled
          wire,        \* the bytes of the body the server has not handed over yet
          ended,       \* the last message of the body has been handed over
          connected,   \* the client is still there
          received,    \* the middleware's count
          overflowed,  \* the count crossed the limit
          replaced,    \* the route's answer was replaced
          pc,          \* where the request is
          raised,      \* the exception on its way out
          pending,     \* the response messages still to be sent
          sent,        \* the response messages the server was given
          handed,      \* the bytes the application was given
          charged,     \* the budgets the request spent
          stored       \* its submission is in the database

client == <<request, limited, connected>>
intake == <<wire, ended, received, overflowed, handed>>
answer == <<replaced, pending, sent>>
effect == <<charged, stored>>
vars   == <<client, intake, answer, pc, raised, effect>>

-----------------------------------------------------------------------------
(***************************************************************************)
(* Response messages and exceptions.                                       *)
(***************************************************************************)
Start(status) == [type |-> "start", status |-> status, more |-> TRUE]
Piece         == [type |-> "body", status |-> 0, more |-> TRUE]
Final         == [type |-> "body", status |-> 0, more |-> FALSE]

Response(status) == <<Start(status), Final>>
Streamed(status) == <<Start(status), Piece, Final>>

Raised(class, status) == [class |-> class, status |-> status]
NoError               == Raised("none", 0)
ApiError(status)      == Raised("ApiError", status)
HTTPException(status) == Raised("HTTPException", status)
SubmissionRejected    == Raised("SubmissionRejected", 0)
SQLAlchemyError       == Raised("SQLAlchemyError", 0)
InvalidRequest        == Raised("RequestValidationError", 0)
UnexpectedError       == Raised("Exception", 0)

RequestBodyTooLarge == ApiError(413)

\* The status each registered handler answers with.
handlers(error) ==
  CASE error.class \in {"ApiError", "HTTPException"} -> error.status
    [] error.class = "SubmissionRejected"            -> 422
    [] error.class = "RequestValidationError"        -> 422
    [] error.class = "SQLAlchemyError"               -> 503
    [] error.class = "Exception"                     -> 500

-----------------------------------------------------------------------------
(***************************************************************************)
(* The routes.  What a step may raise is what its code raises; whether it  *)
(* does is the caller's and the database's choice.                         *)
(***************************************************************************)
Routes == {"submit", "json", "export", "plain"}

\* submit charges, resolves, charges and checks before it reads the body; a route with
\* a JSON body has it read by FastAPI before anything of its own runs.
Steps(route) ==
  CASE route = "submit" -> <<"ip", "resolve", "endpoint", "check", "read", "build", "store">>
    [] route = "json"   -> <<"read", "validate", "authenticate", "handle">>
    [] route = "export" -> <<"authenticate", "admit">>
    [] route = "plain"  -> <<"authenticate", "handle">>

MayRaise(route, step) ==
  CASE step = "ip"           -> {ApiError(429), SQLAlchemyError}
    [] step = "resolve"      -> {ApiError(404), SQLAlchemyError}
    [] step = "endpoint"     -> {ApiError(429), SQLAlchemyError}
    [] step = "check"        -> {ApiError(409), ApiError(415), ApiError(400)}
    [] step = "read"         -> IF route = "submit" THEN {ApiError(400)} ELSE {}
    [] step = "build"        -> {ApiError(422), SubmissionRejected}
    [] step = "store"        -> {ApiError(409), SQLAlchemyError}
    [] step = "validate"     -> {InvalidRequest}
    [] step = "authenticate" -> {ApiError(401), SQLAlchemyError}
    [] step = "admit"        -> {InvalidRequest, ApiError(422), SQLAlchemyError}
    [] step = "handle"       -> {InvalidRequest, ApiError(404), ApiError(409), ApiError(422),
                                 SQLAlchemyError, UnexpectedError}

AnswerOf(route) ==
  CASE route = "submit" -> Response(202)
    [] route = "export" -> Streamed(200)
    [] OTHER            -> Response(200)

Budget(step) == IF limited /\ step \in {"ip", "endpoint"} THEN {step} ELSE {}

\* A step that charges runs only with the limiters on.
Runs(step) == limited \/ step \notin {"ip", "endpoint"}

Working == UNION {Range(Steps(route)) : route \in Routes}

\* Where a request goes when a step is done: to the next one, or to its answer.
After(route, step) ==
  LET steps == Steps(route)
      at    == CHOOSE i \in DOMAIN steps : steps[i] = step
  IN  IF at < Len(steps) THEN steps[at + 1] ELSE IF route = "export" THEN "stream" ELSE "respond"

Advance ==
  /\ pc' = After(request.route, pc)
  /\ pending' = IF pc' \in {"respond", "stream"} THEN AnswerOf(request.route) ELSE <<>>
  /\ UNCHANGED <<client, replaced, sent, raised>>

Raise(error) ==
  /\ raised' = error
  /\ pc' = "raised"
  /\ pending' = <<>>
  /\ UNCHANGED <<client, replaced, sent>>

Init ==
  /\ request \in [route : Routes, declared : Sizes \cup {NoLength}, size : Sizes]
  /\ request.declared \in {request.size, NoLength}
  /\ limited \in BOOLEAN
  /\ wire = request.size
  /\ ended = FALSE
  /\ connected = TRUE
  /\ received = 0
  /\ overflowed = FALSE
  /\ replaced = FALSE
  /\ pc = "arrived"
  /\ raised = NoError
  /\ pending = <<>>
  /\ sent = <<>>
  /\ handed = 0
  /\ charged = {}
  /\ stored = FALSE

-----------------------------------------------------------------------------
(***************************************************************************)
(* BodySizeLimitMiddleware.                                                *)
(***************************************************************************)
DeclaresTooMuch == request.declared # NoLength /\ request.declared > MaxBytes

\* A declared length over the limit is answered before a byte is read.
RefuseDeclared ==
  /\ pc = "arrived"
  /\ DeclaresTooMuch
  /\ sent' = Response(RequestBodyTooLarge.status)
  /\ pc' = "done"
  /\ UNCHANGED <<client, intake, replaced, pending, raised, effect>>

CallApp ==
  /\ pc = "arrived"
  /\ ~DeclaresTooMuch
  /\ pc' = Steps(request.route)[1]
  /\ UNCHANGED <<client, intake, answer, raised, effect>>

\* Mutant: each message is judged on its own.
MessageTooLong(size) == size > MaxBytes

\* The running total crosses the limit.
CrossesLimit(size) == received + size > MaxBytes

\* limited_receive takes the next message of the body, of any size, the last one or not.
\* Past the limit the message is not returned.
limited_receive(size, last) ==
  /\ connected
  /\ ~ended
  /\ last => size = wire
  /\ wire' = wire - size
  /\ ended' = last
  /\ received' = received + size
  /\ overflowed' = CrossesLimit(size)
  /\ handed' = IF CrossesLimit(size) THEN handed ELSE handed + size

\* Mutants: what follows a replaced answer still goes out; an answer that may not go
\* out is dropped and nothing takes its place; every answer goes out as it is.
SendOn(message) ==
  /\ replaced' = (replaced \/ overflowed)
  /\ sent' = IF overflowed /\ message.type = "start" /\ message.status # 413
             THEN Response(413) ELSE Append(sent, message)
DropAnswer(message) ==
  /\ replaced' = (replaced \/ overflowed)
  /\ sent' = IF replaced' THEN sent ELSE Append(sent, message)
SendAsIs(message) == sent' = Append(sent, message) /\ UNCHANGED replaced

guarded_send(message) ==
  \/ /\ replaced
     /\ UNCHANGED <<sent, replaced>>
  \/ /\ ~replaced
     /\ overflowed /\ message.type = "start" /\ message.status # RequestBodyTooLarge.status
     /\ replaced' = TRUE
     /\ sent' = sent \o Response(RequestBodyTooLarge.status)
  \/ /\ ~replaced
     /\ ~(overflowed /\ message.type = "start" /\ message.status # RequestBodyTooLarge.status)
     /\ sent' = Append(sent, message)
     /\ UNCHANGED replaced

-----------------------------------------------------------------------------
(***************************************************************************)
(* The routes.                                                             *)
(***************************************************************************)
\* FastAPI turns whatever goes wrong while it reads a JSON body into its own 400.
ReadError(error) == IF request.route = "json" THEN HTTPException(400) ELSE error

\* The body is read to its last message.
ReadBody(size, last) ==
  /\ pc = "read"
  /\ limited_receive(size, last)
  /\ IF overflowed' THEN Raise(ReadError(RequestBodyTooLarge))
     ELSE IF last THEN Advance
          ELSE UNCHANGED <<client, answer, pc, raised>>
  /\ UNCHANGED effect

\* ClientDisconnect, raised in the middle of a read.
ReadBroken ==
  /\ pc = "read"
  /\ ~connected
  /\ Raise(ReadError(UnexpectedError))
  /\ UNCHANGED <<intake, effect>>

Passes ==
  /\ pc \in Working \ {"read"}
  /\ Advance
  /\ charged' = charged \cup Budget(pc)
  /\ stored' = (stored \/ pc = "store")
  /\ UNCHANGED intake

\* A refused attempt has been charged; a transaction the database failed may have been
\* committed or not.
Fails(error) ==
  /\ pc \in Working
  /\ Runs(pc)
  /\ error \in MayRaise(request.route, pc)
  /\ Raise(error)
  /\ \/ /\ charged' = charged \cup Budget(pc)
        /\ stored' = (stored \/ (pc = "store" /\ error = SQLAlchemyError))
     \/ error = SQLAlchemyError /\ UNCHANGED effect
  /\ UNCHANGED intake

-----------------------------------------------------------------------------
(***************************************************************************)
(* Answers.                                                                *)
(***************************************************************************)
Answers ==
  /\ pc \in {"respond", "stream"}
  /\ guarded_send(Head(pending))
  /\ pending' = Tail(pending)
  /\ pc' = IF pending' = <<>> THEN "done" ELSE pc
  /\ UNCHANGED <<client, intake, raised, effect>>

\* While an export streams, the rest of its request is read for a disconnect.  What is
\* raised there cancels the stream, which may be in the middle of sending a message.
ListenWhileStreaming(size, last) ==
  /\ pc = "stream"
  /\ limited_receive(size, last)
  /\ IF overflowed'
     THEN /\ raised' = RequestBodyTooLarge
          /\ pc' = "raised"
          /\ pending' = <<Head(pending)>>
     ELSE UNCHANGED <<pc, raised, pending>>
  /\ UNCHANGED <<client, replaced, sent, effect>>

SentBeforeCancelled ==
  /\ pc = "raised"
  /\ pending # <<>>
  /\ guarded_send(Head(pending))
  /\ pending' = <<>>
  /\ UNCHANGED <<client, intake, pc, raised, effect>>

StreamCancelled ==
  /\ pc = "stream"
  /\ ~connected
  /\ pc' = "done"
  /\ pending' = <<>>
  /\ UNCHANGED <<client, intake, replaced, sent, raised, effect>>

\* The database fails between two rows, after the response has started.
StreamFails ==
  /\ pc = "stream"
  /\ sent # <<>>
  /\ Raise(SQLAlchemyError)
  /\ UNCHANGED <<intake, effect>>

\* ExceptionMiddleware answers through the size limit, unless an answer has started.
HandleError ==
  /\ pc = "raised"
  /\ raised.class # "Exception"
  /\ IF sent # <<>>
     THEN raised' = UnexpectedError /\ pending' = <<>> /\ UNCHANGED pc
     ELSE /\ pending' = Response(handlers(raised))
          /\ pc' = "respond"
          /\ UNCHANGED raised
  /\ UNCHANGED <<client, intake, replaced, sent, effect>>

\* ServerErrorMiddleware stands outside the size limit and speaks to the server itself.
HandleUnexpected ==
  /\ pc = "raised"
  /\ raised.class = "Exception"
  /\ sent' = IF sent = <<>> THEN Response(handlers(raised)) ELSE sent
  /\ pc' = "done"
  /\ UNCHANGED <<client, intake, replaced, pending, raised, effect>>

\* The client gives up.
Disconnects ==
  /\ pc # "done"
  /\ connected
  /\ connected' = FALSE
  /\ UNCHANGED <<request, limited, intake, answer, pc, raised, effect>>

-----------------------------------------------------------------------------
Errors == UNION {MayRaise(route, step) : route \in Routes, step \in Working}

\* What the process does by itself.
ServerStep ==
  \/ RefuseDeclared
  \/ CallApp
  \/ ReadBroken
  \/ Passes
  \/ \E error \in Errors : Fails(error)
  \/ Answers
  \/ SentBeforeCancelled
  \/ StreamCancelled
  \/ StreamFails
  \/ HandleError
  \/ HandleUnexpected

\* What waits for the client.
ClientStep ==
  \/ \E size \in 0..wire, last \in BOOLEAN :
       ReadBody(size, last) \/ ListenWhileStreaming(size, last)
  \/ Disconnects

Next == ServerStep \/ ClientStep

Spec == Init /\ [][Next]_vars

\* The event loop runs what can run.  Nothing makes a client send the rest of its body.
LiveSpec == Spec /\ WF_vars(ServerStep)

-----------------------------------------------------------------------------
(***************************************************************************)
(* Properties.                                                             *)
(***************************************************************************)

\* Whatever is raised, replaced or cancelled, the server is given at most one response
\* and nothing after its end (guarded_send drops what follows a replaced answer).
OneAnswer ==
  \A i \in DOMAIN sent :
    /\ sent[i].type = "start" <=> i = 1
    /\ i < Len(sent) => sent[i].more

\* However a body is cut into messages, the application is never given more of it than
\* the limit, only a body that really is over the limit is cut off, and one that is over
\* it is never stored.  One that declares it costs nothing at all: no byte is read and no
\* budget spent (limited_receive; submit reads the body last but one).
CapHolds ==
  /\ handed <= MaxBytes
  /\ overflowed => request.size > MaxBytes
  /\ request.size > MaxBytes => ~stored
  /\ DeclaresTooMuch => received = 0 /\ charged = {}

\* An answer that starts is a 413 exactly when the length declared was over the limit or
\* the bytes read were, also where the framework made the failure into its own 400, and
\* also when the overrun is met by an export that was about to start.
RefusedAsTooLarge ==
  [][sent = <<>> /\ sent' # <<>> =>
       (sent'[1].status = 413 <=> DeclaresTooMuch \/ overflowed)]_vars

Complete == sent # <<>> /\ ~sent[Len(sent)].more

AwaitsBody == pc = "read" /\ connected

\* Every request is finished unless its client stays and never sends the rest of the
\* body, and a client that stayed got a whole answer unless it was an export that broke
\* after it had started: no path through the handlers leaves a request unanswered.
EveryRequestAnswered ==
  \/ <>[]AwaitsBody
  \/ <>(pc = "done" /\ (connected => Complete \/ (request.route = "export" /\ sent # <<>>)))

\* docs/guides/rate-limiting.md: "An oversized body is refused with 413 and spends
\* nothing".
OversizedSpendsNothing ==
  sent # <<>> /\ sent[1].status = 413 => charged = {}

=============================================================================
