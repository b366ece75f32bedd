---------------------------- MODULE IngressProofs ----------------------------
(***************************************************************************)
(* Theorems about Ingress, for any limit, any body and any way of cutting  *)
(* it into messages.                                                       *)
(***************************************************************************)
EXTENDS Ingress, TLAPS

USE IngressAssumption

-----------------------------------------------------------------------------
(***************************************************************************)
(* The order of the steps.                                                 *)
(***************************************************************************)
Before == {"ip", "resolve", "endpoint", "check", "validate", "authenticate", "admit", "handle"}

\* The steps of a route are steps.
LEMMA StepsWork ==
  /\ Working = Before \cup {"read", "build", "store"}
  /\ \A route \in Routes : Steps(route)[1] \in Before \cup {"read"}
  <1>1. Range(Steps("submit")) = {"ip", "resolve", "endpoint", "check", "read", "build", "store"}
    BY DEF Range, Steps
  <1>2. Range(Steps("json")) = {"read", "validate", "authenticate", "handle"}
    BY DEF Range, Steps
  <1>3. Range(Steps("export")) = {"authenticate", "admit"}
    BY DEF Range, Steps
  <1>4. Range(Steps("plain")) = {"authenticate", "handle"}
    BY DEF Range, Steps
  <1>5. Working = Before \cup {"read", "build", "store"}
    BY <1>1, <1>2, <1>3, <1>4 DEF Working, Routes, Before
  <1>6. \A route \in Routes : Steps(route)[1] \in Before \cup {"read"}
    BY DEF Routes, Steps, Before
  <1> QED
    BY <1>5, <1>6

\* Where a step of a route leads: to the step listed after it.
LEMMA StepAfter ==
  ASSUME NEW route \in Routes, NEW i \in DOMAIN Steps(route)
  PROVE  After(route, Steps(route)[i]) =
           IF i < Len(Steps(route)) THEN Steps(route)[i + 1]
           ELSE IF route = "export" THEN "stream" ELSE "respond"
  <1>1. \A j, k \in DOMAIN Steps(route) : Steps(route)[j] = Steps(route)[k] => j = k
    BY DEF Routes, Steps
  <1> DEFINE at == CHOOSE j \in DOMAIN Steps(route) : Steps(route)[j] = Steps(route)[i]
  <1>2. at = i
    BY <1>1
  <1> QED
    BY <1>2 DEF After

\* The body is read before the submission is built, and it is built before it is stored.
LEMMA AfterIs ==
  ASSUME NEW route \in Routes, NEW step \in Range(Steps(route))
  PROVE  /\ After(route, step) \in Range(Steps(route)) \cup {"respond", "stream"}
         /\ After(route, step) = "stream" => route = "export"
         /\ After(route, step) = "build" => step = "read"
         /\ After(route, step) = "store" => step = "build"
  <1>1. PICK i \in DOMAIN Steps(route) : step = Steps(route)[i]
    BY DEF Range
  <1>2. After(route, step) = IF i < Len(Steps(route)) THEN Steps(route)[i + 1]
                             ELSE IF route = "export" THEN "stream" ELSE "respond"
    BY <1>1, StepAfter
  <1>3. CASE route = "submit"
    BY <1>1, <1>2, <1>3 DEF Steps, Range
  <1>4. CASE route = "json"
    BY <1>1, <1>2, <1>4 DEF Steps, Range
  <1>5. CASE route = "export"
    BY <1>1, <1>2, <1>5 DEF Steps, Range
  <1>6. CASE route = "plain"
    BY <1>1, <1>2, <1>6 DEF Steps, Range
  <1> QED
    BY <1>3, <1>4, <1>5, <1>6 DEF Routes

Classes == {"none", "ApiError", "HTTPException", "SubmissionRejected", "SQLAlchemyError",
            "RequestValidationError", "Exception"}

\* No step raises the 413 of the size limit.
LEMMA StepsRaise ==
  ASSUME NEW route \in Routes, NEW step \in Working, NEW error \in MayRaise(route, step)
  PROVE  error \in [class : Classes, status : Nat \ {413}]
  <1>1. step \in {"ip", "resolve", "endpoint", "check", "validate", "authenticate", "admit", "handle",
                  "read", "build", "store"}
    BY StepsWork DEF Before
  <1> USE DEF ApiError, SubmissionRejected, SQLAlchemyError, InvalidRequest, UnexpectedError, Raised, Classes
  <1>2. CASE step = "ip"
    BY <1>2 DEF MayRaise
  <1>3. CASE step = "resolve"
    BY <1>3 DEF MayRaise
  <1>4. CASE step = "endpoint"
    BY <1>4 DEF MayRaise
  <1>5. CASE step = "check"
    BY <1>5 DEF MayRaise
  <1>6. CASE step = "validate"
    BY <1>6 DEF MayRaise
  <1>7. CASE step = "authenticate"
    BY <1>7 DEF MayRaise
  <1>8. CASE step = "admit"
    BY <1>8 DEF MayRaise
  <1>9. CASE step = "handle"
    BY <1>9 DEF MayRaise
  <1>10. CASE step = "read"
    BY <1>10 DEF MayRaise
  <1>11. CASE step = "build"
    BY <1>11 DEF MayRaise
  <1>12. CASE step = "store"
    BY <1>12 DEF MayRaise
  <1> QED
    BY <1>1, <1>2, <1>3, <1>4, <1>5, <1>6, <1>7, <1>8, <1>9, <1>10, <1>11, <1>12

-----------------------------------------------------------------------------
(***************************************************************************)
(* Answers.                                                                *)
(***************************************************************************)
Message == [type : {"start", "body"}, status : Nat, more : BOOLEAN]

\* One response, or the beginning of one.
WellFormed(s) ==
  \A i \in DOMAIN s :
    /\ s[i].type = "start" <=> i = 1
    /\ i < Len(s) => s[i].more

\* A message that is sent on continues the answer it is part of.
LEMMA SentOn ==
  ASSUME NEW s \in Seq(Message), NEW p \in Seq(Message), p # <<>>, WellFormed(s \o p)
  PROVE  /\ Append(s, Head(p)) \in Seq(Message)
         /\ WellFormed(Append(s, Head(p)))
         /\ s \o <<Head(p)>> = Append(s, Head(p))
         /\ Append(s, Head(p)) \o Tail(p) = s \o p
         /\ Head(p).type = "start" <=> s = <<>>
  <1>1. /\ Len(s) \in Nat /\ Len(p) \in Nat \ {0}
        /\ Head(p) \in Message /\ Head(p) = p[1] /\ Tail(p) \in Seq(Message)
        /\ Len(Tail(p)) = Len(p) - 1
    OBVIOUS
  <1>2. /\ s \o p \in Seq(Message) /\ Len(s \o p) = Len(s) + Len(p)
        /\ \A i \in 1..Len(s) : (s \o p)[i] = s[i]
        /\ (s \o p)[Len(s) + 1] = Head(p)
    BY <1>1
  <1>3. /\ Append(s, Head(p)) \in Seq(Message) /\ Len(Append(s, Head(p))) = Len(s) + 1
        /\ \A i \in 1..Len(s) : Append(s, Head(p))[i] = s[i]
        /\ Append(s, Head(p))[Len(s) + 1] = Head(p)
    BY <1>1
  <1>4. \A i \in 1..(Len(s) + 1) : Append(s, Head(p))[i] = (s \o p)[i]
    BY <1>1, <1>2, <1>3
  <1>5. WellFormed(Append(s, Head(p)))
    <2> SUFFICES ASSUME NEW i \in 1..(Len(s) + 1)
                 PROVE  /\ Append(s, Head(p))[i].type = "start" <=> i = 1
                        /\ i < Len(s) + 1 => Append(s, Head(p))[i].more
      BY <1>3 DEF WellFormed
    <2>1. i \in DOMAIN (s \o p) /\ (i < Len(s) + 1 => i < Len(s \o p))
      BY <1>1, <1>2
    <2> QED
      BY <1>4, <2>1 DEF WellFormed
  <1>6. s \o <<Head(p)>> = Append(s, Head(p))
    BY <1>1
  <1>7. Append(s, Head(p)) \o Tail(p) = s \o p
    BY <1>1
  <1>8. Head(p).type = "start" <=> s = <<>>
    <2>1. Len(s) + 1 \in DOMAIN (s \o p)
      BY <1>1, <1>2
    <2>2. Head(p).type = "start" <=> Len(s) + 1 = 1
      BY <1>2, <2>1 DEF WellFormed
    <2> QED
      BY <1>1, <2>2
  <1> QED
    BY <1>3, <1>5, <1>6, <1>7, <1>8

\* A plain answer has its head, its status and its end.
LEMMA ResponseFits ==
  ASSUME NEW status \in Nat
  PROVE  /\ Response(status) \in Seq(Message) /\ WellFormed(Response(status))
         /\ Response(status) # <<>> /\ Response(status)[1].status = status
         /\ \A i \in DOMAIN Response(status) : Response(status)[i].status \in {0, status}
  <1> USE DEF Response, Start, Final, Message
  <1>1. Start(status) \in Message /\ Final \in Message
    OBVIOUS
  <1> QED
    BY <1>1 DEF WellFormed

\* The answers the program makes.
LEMMA AnswersFit ==
  /\ \A status \in Nat : /\ Response(status) \in Seq(Message) /\ WellFormed(Response(status))
                          /\ Response(status) # <<>> /\ Response(status)[1].status = status
                          /\ \A i \in DOMAIN Response(status) :
                               Response(status)[i].status \in {0, status}
  /\ \A route \in Routes : /\ AnswerOf(route) \in Seq(Message) /\ WellFormed(AnswerOf(route))
                            /\ AnswerOf(route) # <<>>
                            /\ \A i \in DOMAIN AnswerOf(route) : AnswerOf(route)[i].status # 413
  <1> USE DEF Response, Streamed, Start, Piece, Final, Message
  <1>1. ASSUME NEW status \in Nat
        PROVE  /\ Response(status) \in Seq(Message) /\ WellFormed(Response(status))
               /\ Response(status) # <<>> /\ Response(status)[1].status = status
               /\ \A i \in DOMAIN Response(status) : Response(status)[i].status \in {0, status}
    <2> HIDE DEF Response, Message
    <2> QED
      BY ResponseFits
  <1>2. /\ Streamed(200) \in Seq(Message) /\ WellFormed(Streamed(200)) /\ Streamed(200) # <<>>
        /\ \A i \in DOMAIN Streamed(200) : Streamed(200)[i].status # 413
    <2>1. Start(200) \in Message /\ Piece \in Message /\ Final \in Message
      OBVIOUS
    <2>2. Streamed(200) \in Seq(Message) /\ Len(Streamed(200)) = 3
      BY <2>1
    <2>3. Streamed(200)[1] = Start(200) /\ Streamed(200)[2] = Piece /\ Streamed(200)[3] = Final
      OBVIOUS
    <2>4. ASSUME NEW i \in 1..3
          PROVE  /\ Streamed(200)[i].status # 413
                 /\ Streamed(200)[i].type = "start" <=> i = 1
                 /\ i < 3 => Streamed(200)[i].more
      <3>1. i = 1 \/ i = 2 \/ i = 3
        OBVIOUS
      <3> QED
        BY <2>3, <3>1
    <2>5. DOMAIN Streamed(200) = 1..3 /\ Streamed(200) # <<>>
      BY <2>2
    <2> QED
      BY <2>2, <2>4, <2>5 DEF WellFormed
  <1>3. ASSUME NEW route \in Routes
        PROVE  AnswerOf(route) \in {Response(200), Response(202), Streamed(200)}
    BY DEF AnswerOf, Routes
  <1> HIDE DEF Response, Streamed, Start, Piece, Final, Message
  <1>4. ASSUME NEW status \in {200, 202}
        PROVE  \A i \in DOMAIN Response(status) : Response(status)[i].status # 413
    <2>1. status \in Nat /\ status # 413
      OBVIOUS
    <2>2. \A i \in DOMAIN Response(status) : Response(status)[i].status \in {0, status}
      BY <1>1, <2>1
    <2> QED
      BY <2>1, <2>2
  <1>5. ASSUME NEW route \in Routes
        PROVE  /\ AnswerOf(route) \in Seq(Message) /\ WellFormed(AnswerOf(route))
               /\ AnswerOf(route) # <<>>
               /\ \A i \in DOMAIN AnswerOf(route) : AnswerOf(route)[i].status # 413
    <2>1. CASE AnswerOf(route) = Response(200)
      BY <1>1, <1>4, <2>1
    <2>2. CASE AnswerOf(route) = Response(202)
      BY <1>1, <1>4, <2>2
    <2>3. CASE AnswerOf(route) = Streamed(200)
      BY <1>2, <2>3
    <2> QED
      BY <1>3, <2>1, <2>2, <2>3
  <1> QED
    BY <1>1, <1>5

-----------------------------------------------------------------------------
(***************************************************************************)
(* The inductive invariant.                                                *)
(***************************************************************************)
Types ==
  /\ request \in [route : Routes, declared : Sizes \cup {NoLength}, size : Sizes]
  /\ wire \in Nat /\ received \in Nat /\ handed \in Nat
  /\ {ended, overflowed, replaced, stored} \subseteq BOOLEAN
  /\ pc \in {"arrived", "raised", "respond", "stream", "done"} \cup Working
  /\ raised \in [class : Classes, status : Nat]
  /\ sent \in Seq(Message) /\ pending \in Seq(Message)

\* The count is right, and the application was given what was counted below the limit.
Counted ==
  /\ received + wire = request.size
  /\ overflowed <=> received > MaxBytes
  /\ handed <= MaxBytes
  /\ ~overflowed => handed = received

\* Nothing is built or stored of a body that is over the limit.
BodyRead == pc \in {"build", "store"} \/ stored => request.size <= MaxBytes

\* What has been declared to be over the limit is refused without the application.
DeclaredRefused ==
  DeclaresTooMuch => pc \in {"arrived", "done"} /\ received = 0 /\ charged = {}

\* A request that is being worked on is on its route and has no answer yet.
OnRoute ==
  /\ pc \in Working => pc \in Range(Steps(request.route))
  /\ pc \in Working \cup {"arrived"} => sent = <<>> /\ pending = <<>> /\ ~overflowed
  /\ pc = "stream" => request.route = "export" /\ ~overflowed

\* What is pending completes what was sent, unless it was replaced.
Sending ==
  /\ WellFormed(sent)
  /\ replaced => sent # <<>>
  /\ pc \in {"respond", "stream", "raised"} /\ ~replaced => WellFormed(sent \o pending)
  /\ pc \in {"respond", "stream"} => pending # <<>>

\* A 413 is raised and answered only for a body that is over the limit, and such a body
\* is never answered past the middleware.
LimitTold ==
  /\ \A i \in DOMAIN pending : pending[i].status = 413 => overflowed
  /\ pc = "raised" => /\ raised.class # "none"
                      /\ raised.status = 413 => overflowed
                      /\ raised.class = "Exception" /\ sent = <<>> => ~overflowed

IngressInv ==
  /\ Types
  /\ Counted
  /\ BodyRead
  /\ DeclaredRefused
  /\ OnRoute
  /\ Sending
  /\ LimitTold

\* The invariant holds when a request arrives.
LEMMA IngressInvInit == Init => IngressInv
  <1> SUFFICES ASSUME Init PROVE IngressInv
    OBVIOUS
  <1>0. "arrived" \notin Working
    BY StepsWork DEF Before
  <1>1. Types
    <2>1. raised \in [class : Classes, status : Nat]
      BY DEF Init, NoError, Raised, Classes
    <2>2. wire \in Nat /\ received \in Nat /\ handed \in Nat
      BY DEF Init
    <2>3. sent \in Seq(Message) /\ pending \in Seq(Message)
      BY DEF Init
    <2> QED
      BY <2>1, <2>2, <2>3 DEF Init, Types
  <1>2. Counted
    BY DEF Init, Counted
  <1> QED
    BY <1>0, <1>1, <1>2 DEF Init, IngressInv, BodyRead, DeclaredRefused, OnRoute, Sending, WellFormed,
                            LimitTold

\* A message that is being sent either continues the answer or is replaced, or follows an
\* answer that was; the first one that goes out is a 413 exactly past the limit.
LEMMA SendKeeps ==
  ASSUME IngressInv, pc \in {"respond", "stream", "raised"}, pending # <<>>,
         guarded_send(Head(pending))
  PROVE  /\ sent' \in Seq(Message) /\ sent' # <<>> /\ WellFormed(sent')
         /\ replaced' \in BOOLEAN
         /\ ~replaced' => /\ WellFormed(sent' \o Tail(pending))
                          /\ WellFormed(sent' \o <<>>)
         /\ sent = <<>> => (sent'[1].status = 413 <=> overflowed)
  <1> DEFINE m == Head(pending)
  <1>0. /\ sent \in Seq(Message) /\ pending \in Seq(Message) /\ m = pending[1] /\ 1 \in DOMAIN pending
        /\ replaced \in BOOLEAN
    BY DEF IngressInv, Types
  <1>1. CASE replaced /\ UNCHANGED <<sent, replaced>>
    BY <1>0, <1>1 DEF IngressInv, Sending
  <1>2. CASE /\ ~replaced
             /\ overflowed /\ m.type = "start" /\ m.status # RequestBodyTooLarge.status
             /\ replaced' = TRUE
             /\ sent' = sent \o Response(RequestBodyTooLarge.status)
    <2>1. RequestBodyTooLarge.status = 413
      BY DEF RequestBodyTooLarge, ApiError, Raised
    <2>2. WellFormed(sent \o pending)
      BY <1>2 DEF IngressInv, Sending
    <2>3. sent = <<>>
      BY <1>0, <1>2, <2>2, SentOn
    <2>4. Response(413) \in Seq(Message)
      BY AnswersFit
    <2>5. sent' = Response(413)
      BY <1>2, <2>1, <2>3, <2>4
    <2> QED
      BY <1>2, <2>5, AnswersFit
  <1>3. CASE /\ ~replaced
             /\ ~(overflowed /\ m.type = "start" /\ m.status # RequestBodyTooLarge.status)
             /\ sent' = Append(sent, m)
             /\ UNCHANGED replaced
    <2>1. RequestBodyTooLarge.status = 413
      BY DEF RequestBodyTooLarge, ApiError, Raised
    <2>2. WellFormed(sent \o pending)
      BY <1>3 DEF IngressInv, Sending
    <2>3. /\ sent' \in Seq(Message) /\ WellFormed(sent')
          /\ sent' \o Tail(pending) = sent \o pending
          /\ m.type = "start" <=> sent = <<>>
      BY <1>0, <1>3, <2>2, SentOn
    <2>4. sent' # <<>> /\ (sent = <<>> => sent'[1] = m)
      BY <1>0, <1>3
    <2>5. ASSUME sent = <<>> PROVE sent'[1].status = 413 <=> overflowed
      <3>1. m.status = 413 => overflowed
        BY <1>0 DEF IngressInv, LimitTold
      <3>2. overflowed => m.status = 413
        BY <1>3, <2>1, <2>3, <2>5
      <3>3. sent'[1] = m
        BY <2>4, <2>5
      <3> HIDE DEF m
      <3> QED
        BY <1>0, <3>1, <3>2, <3>3 DEF IngressInv, Types
    <2>6. sent' \o <<>> = sent'
      BY <2>3
    <2>7. WellFormed(sent' \o Tail(pending)) /\ WellFormed(sent' \o <<>>)
      BY <2>2, <2>3, <2>6, Zenon
    <2>8. replaced' \in BOOLEAN
      BY <1>0, <1>3
    <2> QED
      BY <2>3, <2>4, <2>5, <2>7, <2>8
  <1> QED
    BY <1>1, <1>2, <1>3 DEF guarded_send

\* What is left of an answer is a part of it.
LEMMA RestOf ==
  ASSUME NEW p \in Seq(Message), p # <<>>
  PROVE  /\ Tail(p) \in Seq(Message) /\ <<Head(p)>> \in Seq(Message)
         /\ \A i \in DOMAIN Tail(p) : i + 1 \in DOMAIN p /\ Tail(p)[i] = p[i + 1]
         /\ \A i \in DOMAIN <<Head(p)>> : 1 \in DOMAIN p /\ <<Head(p)>>[i] = p[1]
  <1>1. Tail(p) \in Seq(Message) /\ Len(Tail(p)) = Len(p) - 1 /\ Head(p) = p[1]
    OBVIOUS
  <1>2. \A i \in DOMAIN Tail(p) : i + 1 \in DOMAIN p /\ Tail(p)[i] = p[i + 1]
    BY <1>1
  <1>3. Head(p) \in Message /\ 1 \in DOMAIN p
    OBVIOUS
  <1> QED
    BY <1>1, <1>2, <1>3

-----------------------------------------------------------------------------
(***************************************************************************)
(* Every step keeps the invariant.  First what several actions share:      *)
(* taking a message of the body, going on to the next step of the route    *)
(* and raising.                                                            *)
(***************************************************************************)
IntakeTypes ==
  /\ wire \in Nat /\ received \in Nat /\ handed \in Nat
  /\ ended \in BOOLEAN /\ overflowed \in BOOLEAN /\ stored \in BOOLEAN

\* The count stays right, and a whole body that did not cross the limit is within it.
LEMMA Receives ==
  ASSUME IngressInv, NEW size \in 0..wire, NEW last \in BOOLEAN,
         limited_receive(size, last), UNCHANGED <<request, stored>>
  PROVE  /\ Counted' /\ IntakeTypes'
         /\ last /\ ~overflowed' => request.size <= MaxBytes
  <1> USE DEF IngressInv, Types, Counted
  <1>1. request.size \in Nat /\ size \in Nat
    OBVIOUS
  <1>2. /\ received' = received + size /\ wire' = wire - size /\ ended' = last
        /\ overflowed' = (received + size > MaxBytes)
        /\ handed' = IF received + size > MaxBytes THEN handed ELSE handed + size
    BY DEF limited_receive, CrossesLimit
  <1>3. IntakeTypes'
    <2>0. /\ wire \in Nat /\ received \in Nat /\ handed \in Nat /\ size <= wire
          /\ wire' = wire - size /\ received' = received + size
          /\ handed' \in {handed, handed + size}
      BY <1>2
    <2> HIDE DEF IngressInv, Types, Counted
    <2>1. wire' \in Nat /\ received' \in Nat
      BY <1>1, <2>0
    <2>2. handed' \in Nat
      BY <1>1, <2>0
    <2> USE DEF IngressInv, Types, Counted
    <2>3. ended' \in BOOLEAN /\ overflowed' \in BOOLEAN /\ stored' \in BOOLEAN
      BY <1>2
    <2> QED
      BY <2>1, <2>2, <2>3 DEF IntakeTypes
  <1>4. /\ received' + wire' = request'.size
        /\ overflowed' <=> received' > MaxBytes
    <2>1. received' + wire' = request'.size
      BY <1>1, <1>2
    <2>2. overflowed' <=> received' > MaxBytes
      BY <1>2, Zenon
    <2> QED
      BY <2>1, <2>2
  <1>5. handed' <= MaxBytes /\ (~overflowed' => handed' = received')
    <2>1. CASE received + size > MaxBytes
      BY <1>2, <2>1
    <2>2. CASE ~(received + size > MaxBytes)
      BY <1>1, <1>2, <2>2
    <2> QED
      BY <2>1, <2>2
  <1>6. last /\ ~overflowed' => request.size <= MaxBytes
    <2>1. last => size = wire
      BY DEF limited_receive
    <2>2. ~overflowed' => received' <= MaxBytes
      BY <1>1, <1>3, <1>4 DEF IntakeTypes
    <2>3. size = wire => received' = request.size
      BY <1>1, <1>2
    <2> QED
      BY <2>1, <2>2, <2>3
  <1> QED
    BY <1>3, <1>4, <1>5, <1>6

\* A request that is at work on a route, or being answered, did not declare too much.
LEMMA WorkDeclared ==
  ASSUME IngressInv, pc \notin {"arrived", "done"}
  PROVE  ~DeclaresTooMuch
  BY DEF IngressInv, DeclaredRefused

\* Nothing goes out with what is raised, and what is raised is told apart from a 413.
LEMMA Raises ==
  ASSUME IngressInv, pc \notin {"arrived", "done"},
         NEW error \in [class : Classes, status : Nat], error.class # "none", Raise(error),
         Counted', IntakeTypes', stored' => request.size <= MaxBytes,
         error.status = 413 => overflowed',
         error.class = "Exception" /\ sent = <<>> => ~overflowed'
  PROVE  IngressInv'
  <1>0. "raised" \notin Working
    BY StepsWork DEF Before
  <1>1. Types'
    BY DEF IngressInv, Types, Raise, client, IntakeTypes
  <1>2. BodyRead' /\ OnRoute'
    BY <1>0 DEF IngressInv, BodyRead, OnRoute, Raise, client
  <1>3. DeclaredRefused'
    BY WorkDeclared DEF DeclaredRefused, DeclaresTooMuch, Raise, client
  <1>4. Sending'
    <2>1. sent \in Seq(Message) /\ sent \o <<>> = sent
      BY DEF IngressInv, Types
    <2> QED
      BY <2>1 DEF IngressInv, Sending, Raise
  <1>5. LimitTold'
    BY DEF LimitTold, Raise
  <1> QED
    BY <1>1, <1>2, <1>3, <1>4, <1>5 DEF IngressInv

\* A route goes on to its next step, or its answer is ready to go out.
LEMMA Advances ==
  ASSUME IngressInv, pc \in Working, Advance,
         Counted', IntakeTypes', ~overflowed',
         pc' \in {"build", "store"} \/ stored' => request.size <= MaxBytes
  PROVE  IngressInv'
  <1>0. /\ {"raised", "respond", "stream", "arrived", "done"} \cap Working = {}
        /\ pc \in Range(Steps(request.route)) /\ request.route \in Routes
        /\ sent = <<>> /\ pending = <<>>
    BY StepsWork DEF Before, IngressInv, OnRoute, Types
  <1>1. pc' = After(request.route, pc)
    BY DEF Advance
  <1>2. /\ pc' \in Range(Steps(request.route)) \cup {"respond", "stream"}
        /\ pc' = "stream" => request.route = "export"
    BY <1>0, <1>1, AfterIs
  <1>3. Range(Steps(request.route)) \subseteq Working
    BY <1>0 DEF Working
  <1>4. /\ pending' \in Seq(Message) /\ WellFormed(pending')
        /\ \A i \in DOMAIN pending' : pending'[i].status # 413
        /\ pc' \in {"respond", "stream"} => pending' # <<>>
        /\ pc' \notin {"respond", "stream"} => pending' = <<>>
    <2>1. CASE pc' \in {"respond", "stream"}
      <3>1. pending' = AnswerOf(request.route)
        BY <2>1 DEF Advance
      <3> QED
        BY <1>0, <2>1, <3>1, AnswersFit
    <2>2. CASE pc' \notin {"respond", "stream"}
      <3>1. pending' = <<>>
        BY <2>2 DEF Advance
      <3> QED
        BY <2>2, <3>1 DEF WellFormed
    <2> QED
      BY <2>1, <2>2
  <1>5. Types'
    BY <1>2, <1>3, <1>4 DEF IngressInv, Types, Advance, client, IntakeTypes
  <1>6. BodyRead' /\ OnRoute'
    BY <1>0, <1>2, <1>3, <1>4 DEF BodyRead, OnRoute, Advance, client
  <1>7. DeclaredRefused'
    BY <1>0, WorkDeclared DEF DeclaredRefused, DeclaresTooMuch, Advance, client
  <1>8. Sending'
    <2>1. sent' = <<>> /\ sent' \o pending' = pending'
      BY <1>0, <1>4 DEF Advance
    <2>2. ~replaced'
      BY <1>0 DEF IngressInv, Sending, Advance
    <2>3. WellFormed(sent') /\ WellFormed(sent' \o pending')
      BY <1>4, <2>1 DEF WellFormed
    <2> QED
      BY <1>4, <2>2, <2>3 DEF Sending
  <1>9. LimitTold'
    BY <1>0, <1>2, <1>3, <1>4 DEF LimitTold
  <1> QED
    BY <1>5, <1>6, <1>7, <1>8, <1>9 DEF IngressInv

\* The middleware lets the request in, or answers it itself.
LEMMA ArrivalKeeps ==
  ASSUME IngressInv, RefuseDeclared \/ CallApp
  PROVE  IngressInv'
  <1>0. /\ {"raised", "respond", "stream", "arrived", "done"} \cap Working = {}
        /\ request.route \in Routes
    BY StepsWork DEF Before, IngressInv, Types
  <1>1. CASE RefuseDeclared
    <2> USE <1>1 DEF RefuseDeclared
    <2>1. sent' = Response(413)
      BY DEF RequestBodyTooLarge, ApiError, Raised
    <2>2. sent' \in Seq(Message) /\ WellFormed(sent') /\ sent' # <<>>
      BY <2>1, AnswersFit
    <2>3. Types'
      BY <2>2 DEF IngressInv, Types, client, intake, effect
    <2>4. Counted' /\ BodyRead' /\ DeclaredRefused'
      BY DEF IngressInv, Counted, BodyRead, DeclaredRefused, DeclaresTooMuch, client, intake, effect
    <2>5. OnRoute' /\ Sending' /\ LimitTold'
      BY <1>0, <2>2 DEF IngressInv, OnRoute, Sending, LimitTold, client, intake
    <2> QED
      BY <2>3, <2>4, <2>5 DEF IngressInv
  <1>2. CASE CallApp
    <2> USE <1>2 DEF CallApp
    <2>1. /\ pc' \in Range(Steps(request.route)) /\ pc' \in Working
          /\ pc' \notin {"build", "store"}
      <3>1. 1 \in DOMAIN Steps(request.route)
        BY <1>0 DEF Steps, Routes
      <3>2. Steps(request.route)[1] \in Before \cup {"read"}
        BY <1>0, StepsWork
      <3> QED
        BY <1>0, <3>1, <3>2, StepsWork DEF Range, Before
    <2>2. Types'
      BY <2>1 DEF IngressInv, Types, client, intake, answer, effect
    <2>3. Counted' /\ BodyRead' /\ DeclaredRefused'
      BY <2>1 DEF IngressInv, Counted, BodyRead, DeclaredRefused, DeclaresTooMuch, client, intake, effect
    <2>4. OnRoute' /\ Sending' /\ LimitTold'
      BY <1>0, <2>1 DEF IngressInv, OnRoute, Sending, LimitTold, client, intake, answer
    <2> QED
      BY <2>2, <2>3, <2>4 DEF IngressInv
  <1> QED
    BY <1>1, <1>2

\* The body is read.
LEMMA ReadKeeps ==
  ASSUME IngressInv, NEW size \in 0..wire, NEW last \in BOOLEAN,
         ReadBody(size, last) \/ ReadBroken
  PROVE  IngressInv'
  <1>0. pc = "read" /\ pc \in Working
    BY StepsWork DEF ReadBody, ReadBroken
  <1>1. ASSUME NEW error \in [class : Classes, status : Nat]
        PROVE  ReadError(error) \in {error, HTTPException(400)}
    BY DEF ReadError
  <1>2. HTTPException(400) = [class |-> "HTTPException", status |-> 400]
    BY DEF HTTPException, Raised
  <1>3. stored => request.size <= MaxBytes
    BY DEF IngressInv, BodyRead
  <1>4. CASE ReadBody(size, last)
    <2>0. limited_receive(size, last) /\ UNCHANGED <<charged, stored>>
      BY <1>4 DEF ReadBody, effect
    <2>1. UNCHANGED <<request, limited, connected>>
      BY <1>4 DEF ReadBody, Raise, Advance, client
    <2>2. /\ Counted' /\ IntakeTypes'
          /\ last /\ ~overflowed' => request.size <= MaxBytes
      BY <2>0, <2>1, Receives
    <2>3. CASE overflowed'
      <3> DEFINE e == ReadError(RequestBodyTooLarge)
      <3>1. Raise(e)
        BY <1>4, <2>3 DEF ReadBody
      <3>2. RequestBodyTooLarge = [class |-> "ApiError", status |-> 413]
        BY DEF RequestBodyTooLarge, ApiError, Raised
      <3>3. e \in {[class |-> "ApiError", status |-> 413], [class |-> "HTTPException", status |-> 400]}
        BY <1>2, <3>2 DEF ReadError
      <3>4. e \in [class : Classes, status : Nat] /\ e.class # "none" /\ e.class # "Exception"
        BY <3>3 DEF Classes
      <3> HIDE DEF e
      <3>5. pc \notin {"arrived", "done"} /\ (stored' => request.size <= MaxBytes)
        BY <1>0, <1>3, <2>0
      <3> QED
        BY <2>2, <2>3, <3>1, <3>4, <3>5, Raises
    <2>4. CASE ~overflowed' /\ last
      <3>1. Advance
        BY <1>4, <2>4 DEF ReadBody
      <3> QED
        BY <1>0, <2>2, <2>4, <3>1, Advances
    <2>5. CASE ~overflowed' /\ ~last
      <3>1. UNCHANGED <<answer, pc, raised>>
        BY <1>4, <2>5 DEF ReadBody
      <3>2. Types'
        BY <2>1, <2>2, <3>1 DEF IngressInv, Types, IntakeTypes, answer
      <3>3. BodyRead' /\ DeclaredRefused'
        BY <1>0, <1>3, <2>0, <2>1, <3>1, WorkDeclared DEF BodyRead, DeclaredRefused, DeclaresTooMuch
      <3>4. OnRoute' /\ Sending' /\ LimitTold'
        BY <1>0, <2>1, <2>5, <3>1 DEF IngressInv, OnRoute, Sending, LimitTold, answer
      <3> QED
        BY <2>2, <3>2, <3>3, <3>4 DEF IngressInv
    <2> QED
      BY <2>3, <2>4, <2>5
  <1>5. CASE ReadBroken
    <2> DEFINE e == ReadError(UnexpectedError)
    <2>1. Raise(e) /\ UNCHANGED <<intake, effect>>
      BY <1>5 DEF ReadBroken
    <2>2. UnexpectedError = [class |-> "Exception", status |-> 0]
      BY DEF UnexpectedError, Raised
    <2>3. e \in {[class |-> "Exception", status |-> 0], [class |-> "HTTPException", status |-> 400]}
      BY <1>2, <2>2 DEF ReadError
    <2>4. e \in [class : Classes, status : Nat] /\ e.class # "none" /\ e.status # 413
      BY <2>3 DEF Classes
    <2> HIDE DEF e
    <2>5. UNCHANGED request
      BY <2>1 DEF Raise, client
    <2>6. Counted' /\ IntakeTypes'
      BY <2>1, <2>5 DEF IngressInv, Counted, Types, IntakeTypes, intake, effect
    <2>7. ~overflowed' /\ (stored' => request.size <= MaxBytes)
      BY <1>0, <1>3, <2>1 DEF IngressInv, OnRoute, intake, effect
    <2> QED
      BY <1>0, <2>1, <2>4, <2>6, <2>7, Raises
  <1> QED
    BY <1>4, <1>5

\* A step of the route ends well, or raises.
LEMMA WorkKeeps ==
  ASSUME IngressInv, Passes \/ \E error \in Errors : Fails(error)
  PROVE  IngressInv'
  <1>0. /\ pc \in Working /\ UNCHANGED <<intake, request>>
        /\ pc \notin {"arrived", "done"}
    BY StepsWork DEF Before, Passes, Fails, Advance, Raise, client
  <1>1. /\ request.route \in Routes /\ pc \in Range(Steps(request.route)) /\ ~overflowed
        /\ stored \in BOOLEAN
    BY <1>0 DEF IngressInv, Types, OnRoute
  <1>2. Counted' /\ ~overflowed'
    BY <1>0, <1>1 DEF IngressInv, Counted, intake
  <1>3. pc = "store" \/ stored => request.size <= MaxBytes
    BY DEF IngressInv, BodyRead
  <1>4. CASE Passes
    <2>1. Advance /\ pc # "read"
      BY <1>4 DEF Passes
    <2>2. stored' = (stored \/ pc = "store")
      BY <1>4 DEF Passes
    <2>3. stored' \in BOOLEAN
      BY <2>2
    <2>4. IntakeTypes'
      BY <1>0, <2>3 DEF IngressInv, Types, IntakeTypes, intake
    <2>5. pc' = After(request.route, pc)
      BY <2>1 DEF Advance
    <2>6. pc' \in {"build", "store"} => pc = "build"
      BY <1>1, <2>1, <2>5, AfterIs
    <2>7. pc' \in {"build", "store"} => request.size <= MaxBytes
      BY <2>6 DEF IngressInv, BodyRead
    <2>8. stored' => request.size <= MaxBytes
      BY <1>3, <2>2
    <2> QED
      BY <1>0, <1>2, <2>1, <2>4, <2>7, <2>8, Advances
  <1>5. ASSUME NEW error \in Errors, Fails(error)
        PROVE  IngressInv'
    <2>1. error \in MayRaise(request.route, pc) /\ Raise(error)
      BY <1>5 DEF Fails
    <2>2. error \in [class : Classes, status : Nat \ {413}]
      BY <1>0, <1>1, <2>1, StepsRaise
    <2>3. error.class # "none"
      BY <1>0, <1>1, <2>1, StepsWork DEF Before, MayRaise, ApiError, SubmissionRejected, SQLAlchemyError,
         InvalidRequest, UnexpectedError, Raised
    <2>4. stored' \in BOOLEAN /\ (stored' => request.size <= MaxBytes)
      <3>1. stored' = (stored \/ (pc = "store" /\ error = SQLAlchemyError)) \/ stored' = stored
        BY <1>5 DEF Fails, effect
      <3>2. stored' \in BOOLEAN
        BY <1>1, <3>1
      <3>3. stored' => stored \/ pc = "store"
        BY <3>1, Zenon
      <3> QED
        BY <1>3, <3>2, <3>3
    <2>5. IntakeTypes'
      BY <1>0, <2>4 DEF IngressInv, Types, IntakeTypes, intake
    <2>6. error \in [class : Classes, status : Nat] /\ error.status # 413
      BY <2>2
    <2> QED
      BY <1>0, <1>2, <2>1, <2>3, <2>4, <2>5, <2>6, Raises
  <1> QED
    BY <1>4, <1>5

\* A message of the answer is sent.
LEMMA AnswerKeeps ==
  ASSUME IngressInv, Answers \/ SentBeforeCancelled
  PROVE  IngressInv'
  <1>0. /\ pc \in {"respond", "stream", "raised"} /\ pending # <<>>
        /\ guarded_send(Head(pending))
        /\ UNCHANGED <<client, intake, raised, effect>>
        /\ pending' \in {Tail(pending), <<>>}
    BY DEF Answers, SentBeforeCancelled, IngressInv, Sending
  <1>1. /\ sent' \in Seq(Message) /\ sent' # <<>> /\ WellFormed(sent')
        /\ replaced' \in BOOLEAN
        /\ ~replaced' => WellFormed(sent' \o Tail(pending)) /\ WellFormed(sent' \o <<>>)
    BY <1>0, SendKeeps
  <1>2. /\ pending' \in Seq(Message)
        /\ \A i \in DOMAIN pending' : pending'[i].status = 413 => overflowed
    <2>1. pending \in Seq(Message)
      BY DEF IngressInv, Types
    <2>2. CASE pending' = Tail(pending)
      BY <1>0, <2>1, <2>2, RestOf DEF IngressInv, LimitTold
    <2>3. CASE pending' = <<>>
      BY <2>3
    <2> QED
      BY <1>0, <2>2, <2>3
  <1>3. {"raised", "respond", "stream", "arrived", "done"} \cap Working = {}
    BY StepsWork DEF Before
  <1>4. /\ pc' \in {pc, "done"}
        /\ pc' \in {"respond", "stream"} => pending' # <<>>
    BY <1>0 DEF Answers, SentBeforeCancelled
  <1>5. Types'
    BY <1>0, <1>1, <1>2, <1>4 DEF IngressInv, Types, client, intake, effect
  <1>6. Counted' /\ BodyRead'
    BY <1>0, <1>3, <1>4 DEF IngressInv, Counted, BodyRead, client, intake, effect
  <1>7. DeclaredRefused'
    BY <1>0, WorkDeclared DEF DeclaredRefused, DeclaresTooMuch, client
  <1>8. OnRoute'
    BY <1>0, <1>3, <1>4 DEF IngressInv, OnRoute, client, intake
  <1>9. Sending'
    <2>1. ~replaced' => WellFormed(sent' \o pending')
      BY <1>0, <1>1
    <2> QED
      BY <1>1, <1>4, <2>1 DEF Sending
  <1>10. LimitTold'
    BY <1>0, <1>1, <1>2, <1>4 DEF IngressInv, LimitTold, intake
  <1> QED
    BY <1>5, <1>6, <1>7, <1>8, <1>9, <1>10 DEF IngressInv

\* The export listens while it streams.
LEMMA ListenKeeps ==
  ASSUME IngressInv, NEW size \in 0..wire, NEW last \in BOOLEAN,
         ListenWhileStreaming(size, last)
  PROVE  IngressInv'
  <1>0. /\ pc = "stream" /\ limited_receive(size, last)
        /\ UNCHANGED <<client, replaced, sent, effect>>
    BY DEF ListenWhileStreaming
  <1>1. Counted' /\ IntakeTypes'
    BY <1>0, Receives DEF client, effect
  <1>2. {"raised", "respond", "stream", "arrived", "done"} \cap Working = {}
    BY StepsWork DEF Before
  <1>3. /\ sent \in Seq(Message) /\ pending \in Seq(Message) /\ pending # <<>>
        /\ ~replaced => WellFormed(sent \o pending)
        /\ raised \in [class : Classes, status : Nat]
    BY <1>0 DEF IngressInv, Types, Sending
  <1>4. CASE overflowed'
    <2>1. raised' = RequestBodyTooLarge /\ pc' = "raised" /\ pending' = <<Head(pending)>>
      BY <1>4 DEF ListenWhileStreaming
    <2>2. RequestBodyTooLarge = [class |-> "ApiError", status |-> 413]
      BY DEF RequestBodyTooLarge, ApiError, Raised
    <2>3. raised' \in [class : Classes, status : Nat] /\ raised'.class \notin {"none", "Exception"}
      BY <2>1, <2>2 DEF Classes
    <2>4. pending' \in Seq(Message)
      BY <1>3, <2>1, RestOf
    <2>5. Types'
      BY <1>0, <1>1, <2>1, <2>3, <2>4 DEF IngressInv, Types, client, IntakeTypes
    <2>6. BodyRead' /\ OnRoute'
      BY <1>0, <1>2, <2>1 DEF IngressInv, BodyRead, OnRoute, client, effect
    <2>7. DeclaredRefused'
      BY <1>0, WorkDeclared DEF DeclaredRefused, DeclaresTooMuch, client
    <2>8. Sending'
      <3>1. ~replaced => WellFormed(sent \o <<Head(pending)>>)
        <4> SUFFICES ASSUME ~replaced PROVE WellFormed(sent \o <<Head(pending)>>)
          OBVIOUS
        <4>1. /\ WellFormed(Append(sent, Head(pending)))
              /\ sent \o <<Head(pending)>> = Append(sent, Head(pending))
          BY <1>3, SentOn
        <4> QED
          BY <4>1, Zenon
      <3> QED
        BY <1>0, <2>1, <3>1 DEF IngressInv, Sending
    <2>9. LimitTold'
      BY <1>4, <2>1, <2>3 DEF LimitTold
    <2> QED
      BY <1>1, <2>5, <2>6, <2>7, <2>8, <2>9 DEF IngressInv
  <1>5. CASE ~overflowed'
    <2>1. UNCHANGED <<pc, raised, pending>>
      BY <1>5 DEF ListenWhileStreaming
    <2>2. Types'
      BY <1>0, <1>1, <2>1 DEF IngressInv, Types, client, IntakeTypes
    <2>3. BodyRead' /\ OnRoute'
      BY <1>0, <1>2, <1>5, <2>1 DEF IngressInv, BodyRead, OnRoute, client, effect
    <2>4. DeclaredRefused'
      BY <1>0, WorkDeclared DEF DeclaredRefused, DeclaresTooMuch, client
    <2>5. Sending'
      BY <1>0, <2>1 DEF IngressInv, Sending
    <2>6. LimitTold'
      BY <1>0, <1>5, <2>1 DEF IngressInv, LimitTold, OnRoute
    <2> QED
      BY <1>1, <2>2, <2>3, <2>4, <2>5, <2>6 DEF IngressInv
  <1> QED
    BY <1>4, <1>5

\* What is raised is answered, or the stream just stops.
LEMMA EndKeeps ==
  ASSUME IngressInv, StreamCancelled \/ StreamFails \/ HandleError \/ HandleUnexpected
  PROVE  IngressInv'
  <1>0. {"raised", "respond", "stream", "arrived", "done"} \cap Working = {}
    BY StepsWork DEF Before
  <1>1. /\ UNCHANGED <<request, intake, effect, replaced>>
        /\ pc \in {"stream", "raised"}
    BY DEF StreamCancelled, StreamFails, HandleError, HandleUnexpected, Raise, client
  <1>2. Counted' /\ IntakeTypes'
    BY <1>1 DEF IngressInv, Counted, Types, IntakeTypes, intake, effect
  <1>3. stored' => request.size <= MaxBytes
    BY <1>1 DEF IngressInv, BodyRead, effect
  <1>4. DeclaredRefused'
    BY <1>1, WorkDeclared DEF DeclaredRefused, DeclaresTooMuch
  <1>5. CASE StreamCancelled
    <2> USE <1>5 DEF StreamCancelled
    <2>1. Types' /\ BodyRead'
      BY <1>0, <1>1, <1>2, <1>3 DEF IngressInv, Types, BodyRead, IntakeTypes
    <2>2. OnRoute' /\ Sending' /\ LimitTold'
      BY <1>0, <1>1 DEF IngressInv, OnRoute, Sending, LimitTold
    <2> QED
      BY <1>2, <1>4, <2>1, <2>2 DEF IngressInv
  <1>6. CASE StreamFails
    <2>1. Raise(SQLAlchemyError) /\ sent # <<>> /\ pc \notin {"arrived", "done"}
      BY <1>6 DEF StreamFails
    <2>2. SQLAlchemyError = [class |-> "SQLAlchemyError", status |-> 0]
      BY DEF SQLAlchemyError, Raised
    <2>3. /\ SQLAlchemyError \in [class : Classes, status : Nat]
          /\ SQLAlchemyError.class # "none" /\ SQLAlchemyError.status # 413
      BY <2>2 DEF Classes
    <2> QED
      BY <1>2, <1>3, <2>1, <2>3, Raises
  <1>7. CASE HandleError /\ sent # <<>>
    <2>1. /\ raised' = UnexpectedError /\ pending' = <<>> /\ pc' = "raised"
          /\ sent' = sent
      BY <1>7 DEF HandleError
    <2>2. UnexpectedError = [class |-> "Exception", status |-> 0]
      BY DEF UnexpectedError, Raised
    <2>3. raised' \in [class : Classes, status : Nat] /\ raised'.class # "none" /\ raised'.status # 413
      BY <2>1, <2>2 DEF Classes
    <2>4. Types' /\ BodyRead' /\ OnRoute'
      BY <1>0, <1>1, <1>2, <1>3, <2>1, <2>3 DEF IngressInv, Types, BodyRead, OnRoute, IntakeTypes
    <2>5. Sending'
      <3>1. sent \o <<>> = sent
        BY DEF IngressInv, Types
      <3> QED
        BY <1>1, <2>1, <3>1 DEF IngressInv, Sending
    <2>6. LimitTold'
      BY <1>7, <2>1, <2>3 DEF LimitTold
    <2> QED
      BY <1>2, <1>4, <2>4, <2>5, <2>6 DEF IngressInv
  <1>8. CASE HandleError /\ sent = <<>>
    <2>1. /\ pending' = Response(handlers(raised)) /\ pc' = "respond"
          /\ sent' = sent /\ raised' = raised
      BY <1>8 DEF HandleError
    <2>2. raised.class \in Classes \ {"none", "Exception"} /\ raised.status \in Nat
      BY <1>8 DEF HandleError, IngressInv, Types, LimitTold
    <2>3. handlers(raised) \in Nat /\ (handlers(raised) = 413 => raised.status = 413)
      BY <2>2 DEF handlers, Classes
    <2>4. /\ pending' \in Seq(Message) /\ WellFormed(pending') /\ pending' # <<>>
          /\ \A i \in DOMAIN pending' : pending'[i].status \in {0, handlers(raised)}
      <3>1. PICK status \in Nat : status = handlers(raised)
        BY <2>3
      <3>2. /\ Response(status) \in Seq(Message) /\ WellFormed(Response(status))
            /\ Response(status) # <<>>
            /\ \A i \in DOMAIN Response(status) : Response(status)[i].status \in {0, status}
        BY ResponseFits
      <3> QED
        BY <2>1, <3>1, <3>2
    <2>5. Types' /\ BodyRead' /\ OnRoute'
      BY <1>0, <1>1, <1>2, <1>3, <2>1, <2>4 DEF IngressInv, Types, BodyRead, OnRoute, IntakeTypes
    <2>6. Sending'
      <3>1. sent' \o pending' = pending'
        BY <1>8, <2>1, <2>4
      <3> QED
        BY <1>1, <1>8, <2>1, <2>4, <3>1 DEF IngressInv, Sending
    <2>7. LimitTold'
      <3>1. raised.status = 413 => overflowed
        BY <1>8 DEF HandleError, IngressInv, LimitTold
      <3>2. \A i \in DOMAIN pending' : pending'[i].status = 413 => overflowed
        BY <2>3, <2>4, <3>1
      <3> QED
        BY <1>1, <2>1, <3>2 DEF LimitTold, intake
    <2> QED
      BY <1>2, <1>4, <2>5, <2>6, <2>7 DEF IngressInv
  <1>9. CASE HandleUnexpected
    <2>1. /\ sent' = IF sent = <<>> THEN Response(handlers(raised)) ELSE sent
          /\ pc' = "done" /\ UNCHANGED <<pending, raised>> /\ raised.class = "Exception"
      BY <1>9 DEF HandleUnexpected
    <2>2. handlers(raised) = 500
      BY <2>1 DEF handlers
    <2>3. /\ sent' \in Seq(Message) /\ WellFormed(sent') /\ sent' # <<>>
      <3>1. CASE sent = <<>>
        BY <2>1, <2>2, <3>1, AnswersFit
      <3>2. CASE sent # <<>>
        BY <2>1, <3>2 DEF IngressInv, Types, Sending
      <3> QED
        BY <3>1, <3>2
    <2>4. Types' /\ BodyRead' /\ OnRoute'
      BY <1>0, <1>1, <1>2, <1>3, <2>1, <2>3 DEF IngressInv, Types, BodyRead, OnRoute, IntakeTypes
    <2>5. Sending' /\ LimitTold'
      BY <1>1, <2>1, <2>3 DEF IngressInv, Sending, LimitTold, intake
    <2> QED
      BY <1>2, <1>4, <2>4, <2>5 DEF IngressInv
  <1> QED
    BY <1>5, <1>6, <1>7, <1>8, <1>9

\* The client goes away, or nothing happens.
LEMMA QuietKeeps ==
  ASSUME IngressInv, Disconnects \/ UNCHANGED vars
  PROVE  IngressInv'
  <1>1. UNCHANGED <<request, wire, ended, received, overflowed, handed, replaced, pending, sent,
                    pc, raised, charged, stored>>
    BY DEF Disconnects, vars, client, intake, answer, effect
  <1> QED
    BY <1>1 DEF IngressInv, Types, Counted, BodyRead, DeclaredRefused, DeclaresTooMuch, OnRoute,
                Sending, LimitTold

\* The invariant is inductive.
LEMMA IngressInvStep == IngressInv /\ [Next]_vars => IngressInv'
  <1> SUFFICES ASSUME IngressInv, [Next]_vars PROVE IngressInv'
    OBVIOUS
  <1>1. CASE RefuseDeclared \/ CallApp
    BY <1>1, ArrivalKeeps
  <1>2. CASE ReadBroken
    <2>1. 0 \in 0..wire /\ TRUE \in BOOLEAN
      BY DEF IngressInv, Types
    <2> QED
      BY <1>2, <2>1, ReadKeeps
  <1>3. ASSUME NEW size \in 0..wire, NEW last \in BOOLEAN, ReadBody(size, last)
        PROVE  IngressInv'
    BY <1>3, ReadKeeps
  <1>4. CASE Passes \/ \E error \in Errors : Fails(error)
    BY <1>4, WorkKeeps
  <1>5. CASE Answers \/ SentBeforeCancelled
    BY <1>5, AnswerKeeps
  <1>6. ASSUME NEW size \in 0..wire, NEW last \in BOOLEAN, ListenWhileStreaming(size, last)
        PROVE  IngressInv'
    BY <1>6, ListenKeeps
  <1>7. CASE StreamCancelled \/ StreamFails \/ HandleError \/ HandleUnexpected
    BY <1>7, EndKeeps
  <1>8. CASE Disconnects \/ UNCHANGED vars
    BY <1>8, QuietKeeps
  <1> QED
    BY <1>1, <1>2, <1>3, <1>4, <1>5, <1>6, <1>7, <1>8 DEF Next, ServerStep, ClientStep

-----------------------------------------------------------------------------
(***************************************************************************)
(* Theorems.                                                               *)
(***************************************************************************)

\* The invariant holds of every request.
THEOREM IngressInvariant == Spec => []IngressInv
  BY IngressInvInit, IngressInvStep, PTL DEF Spec

\* The server is given at most one response, whatever is raised, replaced or cancelled.
THEOREM AnsweredOnce == Spec => []OneAnswer
  <1>1. IngressInv => OneAnswer
    BY DEF IngressInv, Sending, WellFormed, OneAnswer
  <1> QED
    BY <1>1, IngressInvariant, PTL

\* The application is never given more of a body than the limit and stores nothing of one
\* that is over it; one that declares it costs nothing.
THEOREM LimitHolds == Spec => []CapHolds
  <1>1. ASSUME IngressInv PROVE CapHolds
    <2>1. /\ request.size \in Nat /\ wire \in Nat /\ received \in Nat
          /\ received + wire = request.size /\ (overflowed <=> received > MaxBytes)
          /\ handed <= MaxBytes
      BY <1>1 DEF IngressInv, Types, Counted
    <2>2. overflowed => request.size > MaxBytes
      BY <2>1
    <2>3. request.size > MaxBytes => ~stored
      BY <1>1, <2>1 DEF IngressInv, BodyRead
    <2> QED
      BY <1>1, <2>1, <2>2, <2>3 DEF CapHolds, IngressInv, DeclaredRefused
  <1> QED
    BY <1>1, IngressInvariant, PTL

\* The answer that starts says 413 exactly when the body was declared or counted to be
\* over the limit.
THEOREM TooLargeIsTold == Spec => RefusedAsTooLarge
  <1> DEFINE Told == sent = <<>> /\ sent' # <<>> =>
                       (sent'[1].status = 413 <=> DeclaresTooMuch \/ overflowed)
  <1>1. ASSUME IngressInv, [Next]_vars PROVE [Told]_vars
    <2> SUFFICES ASSUME sent = <<>>, sent' # <<>>
                 PROVE  sent'[1].status = 413 <=> DeclaresTooMuch \/ overflowed
      OBVIOUS
    <2>1. RefuseDeclared \/ Answers \/ SentBeforeCancelled \/ HandleUnexpected
      BY <1>1 DEF Next, ServerStep, ClientStep, CallApp, ReadBroken, Passes, Fails, StreamCancelled,
                  StreamFails, HandleError, ReadBody, ListenWhileStreaming, Disconnects, Raise, Advance,
                  answer, vars
    <2>2. CASE RefuseDeclared
      <3>1. sent' = Response(413) /\ DeclaresTooMuch
        BY <2>2 DEF RefuseDeclared, RequestBodyTooLarge, ApiError, Raised
      <3> QED
        BY <3>1, AnswersFit
    <2>3. CASE Answers \/ SentBeforeCancelled
      <3>1. /\ pc \in {"respond", "stream", "raised"} /\ pending # <<>>
            /\ guarded_send(Head(pending))
        BY <1>1, <2>3 DEF Answers, SentBeforeCancelled, IngressInv, Sending
      <3>2. sent'[1].status = 413 <=> overflowed
        BY <1>1, <3>1, SendKeeps
      <3>3. ~DeclaresTooMuch
        BY <1>1, <3>1, WorkDeclared
      <3> QED
        BY <3>2, <3>3
    <2>4. CASE HandleUnexpected
      <3>1. pc = "raised" /\ raised.class = "Exception" /\ sent' = Response(handlers(raised))
        BY <2>4 DEF HandleUnexpected
      <3>2. handlers(raised) = 500
        BY <3>1 DEF handlers
      <3>3. sent'[1].status = 500
        BY <3>1, <3>2, AnswersFit
      <3>4. ~overflowed
        BY <1>1, <3>1 DEF IngressInv, LimitTold
      <3>5. ~DeclaresTooMuch
        BY <1>1, <3>1, WorkDeclared
      <3> QED
        BY <3>3, <3>4, <3>5
    <2> QED
      BY <2>1, <2>2, <2>3, <2>4
  <1> QED
    BY <1>1, IngressInvariant, PTL DEF Spec, RefusedAsTooLarge

=============================================================================
