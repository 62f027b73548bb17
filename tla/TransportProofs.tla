-------------------------- MODULE TransportProofs --------------------------
(***************************************************************************)
(* Transport for every set of calls, every number of retries and every     *)
(* set of answers: its types, that a state-changing call runs at most      *)
(* once, that refusals and successes are truthful, and that the engine     *)
(* implements CallPromise (its safety part).                               *)
(***************************************************************************)
EXTENDS Transport, TLAPS

USE CallsAssumption, OptionsAssumption, RepliesAssumption
    DEF CallsAssumption, OptionsAssumption, RepliesAssumption, Answers

(***************************************************************************)
(* Types.                                                                  *)
(***************************************************************************)
\* An attempt under way has a number, and one more is left after a backoff.
AttemptsCounted ==
    \A c \in Calls :
        /\ pc[c] # "idle" => attempt[c] >= 1
        /\ pc[c] = "backoff" => attempt[c] < Attempts(c)

TypeInv == TypeOK /\ AttemptsCounted

\* DecodeError yields one of the kinds of the taxonomy, whatever the answer.
LEMMA KindOfType == \A r : KindOf(r) \in Kinds
  BY DEF KindOf, KindFromStatus, Kinds

\* The decoder and the server agree: what the client takes for a success was
\* accepted, what it takes for a definite refusal was declined.
LEMMA DecodingIsSound ==
    ASSUME NEW r \in Replies
    PROVE  /\ Success(r) => r.status < 300
           /\ (~Success(r) /\ KindOf(r) # "Server") => Declined(r)
  <1> USE RepliesAssumption DEF RepliesAssumption
  <1>1. r \in Answers
    OBVIOUS
  <1>2. /\ r.status \in Nat /\ (r.status \in 200 .. 299 \/ r.status >= 400)
        /\ r.locked \in BOOLEAN /\ r.fields \in BOOLEAN
    BY <1>1 DEF Answers
  <1>3. Success(r) => r.status < 300
    BY <1>2 DEF Success
  <1>4. ASSUME ~Success(r), r.status >= 500, ~r.locked, ~r.fields
        PROVE  KindOf(r) = "Server"
    BY <1>2, <1>4 DEF KindOf, KindFromStatus
  <1>5. (~Success(r) /\ KindOf(r) # "Server") => Declined(r)
    BY <1>2, <1>4 DEF Success, Declined
  <1> QED BY <1>3, <1>5

\* A state-changing call has one attempt, any call at least one.
LEMMA AttemptsType ==
    \A c \in Calls : /\ Attempts(c) \in 1 .. MaxRetries + 1
                     /\ c \in Mutating => Attempts(c) = 1
  BY DEF Attempts

\* The error path at the bottom of doRaw's loop keeps the types.
LEMMA FailAttemptType ==
    ASSUME TypeInv, NEW c \in Calls, NEW k \in Kinds, FailAttempt(c, k),
           attempt[c] >= 1
    PROVE  /\ pc' \in [Calls -> {"idle", "limit", "apply", "send", "await", "backoff", "done"}]
           /\ attempt' = attempt /\ expired' = expired
           /\ reply' \in [Calls -> Replies \cup {NoReply}]
           /\ outcome' \in [Calls -> Kinds \cup {"none", "ok", "undecoded", "ctx", "killed"}]
           /\ AttemptsCounted'
  <1> USE AttemptsType DEF TypeInv, TypeOK, AttemptsCounted, FailAttempt, Finish
  <1>1. CASE attempt[c] < Attempts(c)
    BY <1>1
  <1>2. CASE ~(attempt[c] < Attempts(c))
    BY <1>2
  <1> QED BY <1>1, <1>2

LEMMA TypeStep == TypeInv /\ [Next]_vars => TypeInv'
  <1> SUFFICES ASSUME TypeInv, [Next]_vars PROVE TypeInv'
    OBVIOUS
  <1> USE DEF TypeInv, TypeOK, AttemptsCounted
  <1>1. ASSUME NEW c \in Calls, Start(c) PROVE TypeInv'
    BY <1>1, AttemptsType DEF Start, BeforeAttempt, serverVars, limiterVars, authVars
  <1>2. ASSUME NEW c \in Calls, BackoffElapses(c) PROVE TypeInv'
    BY <1>2, AttemptsType DEF BackoffElapses, BeforeAttempt, serverVars, limiterVars, authVars
  <1>3. ASSUME NEW c \in Calls, BackoffCancelled(c) PROVE TypeInv'
    BY <1>3 DEF BackoffCancelled, Finish, serverVars, limiterVars, authVars
  <1>4. ASSUME NEW c \in Calls, TakeToken(c) PROVE TypeInv'
    BY <1>4 DEF TakeToken, serverVars, authVars
  <1>5. ASSUME NEW c \in Calls, LimiterFails(c) PROVE TypeInv'
    BY <1>5 DEF LimiterFails, Finish, Kinds, serverVars, limiterVars, authVars
  <1>6. ASSUME NEW c \in Calls, Login(c) PROVE TypeInv'
    BY <1>6 DEF Login, serverVars, limiterVars
  <1>7. ASSUME NEW c \in Calls, LoginFails(c) PROVE TypeInv'
    <2>1. FailAttempt(c, "Transport") /\ "Transport" \in Kinds /\ attempt[c] >= 1
      BY <1>7 DEF LoginFails, Kinds
    <2>2. UNCHANGED <<requests, executed, tokens, refilled, ticket, credentials>>
          /\ sent' \in Nat /\ rejected' \subseteq Calls
      BY <1>7 DEF LoginFails, serverVars, authVars
    <2> QED BY <2>1, <2>2, FailAttemptType
  <1>8. ASSUME NEW c \in Calls, Send(c) PROVE TypeInv'
    <2>1. attempt[c] \in 1 .. MaxRetries + 1
      BY <1>8 DEF Send, Applied
    <2> QED BY <1>8, <2>1 DEF Send, Applied, authVars
  <1>9. ASSUME NEW c \in Calls, TransportFails(c) PROVE TypeInv'
    <2>1. FailAttempt(c, "Transport") /\ "Transport" \in Kinds /\ attempt[c] >= 1
      BY <1>9 DEF TransportFails, Applied, Kinds
    <2>2. UNCHANGED <<requests, executed, tokens, refilled, ticket, credentials>>
          /\ sent' \in Nat /\ rejected' \subseteq Calls
      BY <1>9 DEF TransportFails, Applied, serverVars, authVars
    <2> QED BY <2>1, <2>2, FailAttemptType
  <1>10. ASSUME NEW c \in Calls, Receive(c) PROVE TypeInv'
    <2>1. /\ UNCHANGED <<requests, executed, tokens, refilled, sent, ticket, credentials>>
          /\ rejected' \subseteq Calls
          /\ pc[c] = "await" /\ attempt[c] >= 1
          /\ KindOf(reply[c]) \in Kinds
      BY <1>10, KindOfType DEF Receive, serverVars, limiterVars, authVars
    <2>2. CASE c \notin Mutating /\ RetryableStatus(reply[c])
      BY <1>10, <2>1, <2>2, FailAttemptType DEF Receive
    <2>3. CASE ~(c \notin Mutating /\ RetryableStatus(reply[c]))
      BY <1>10, <2>1, <2>3 DEF Receive, Returned, Finish
    <2> QED BY <2>2, <2>3
  <1>11. ASSUME NEW c \in Calls, NEW n \in 1 .. Attempts(c), Serve(c, n) PROVE TypeInv'
    BY <1>11 DEF Serve, limiterVars, authVars
  <1>12. ASSUME NEW c \in Calls, Expire(c) PROVE TypeInv'
    BY <1>12 DEF Expire, serverVars, limiterVars, authVars
  <1>13. ASSUME NEW c \in Calls, Kill(c) PROVE TypeInv'
    BY <1>13 DEF Kill, Finish, serverVars, limiterVars, authVars
  <1>14. CASE Refill \/ TicketAges
    <2>1. CASE Refill
      BY <2>1 DEF Refill, callVars, serverVars, authVars
    <2>2. CASE TicketAges
      <3>1. ticket' \in BOOLEAN
        BY <2>2 DEF TicketAges
      <3>2. UNCHANGED <<callVars, serverVars, limiterVars, credentials, rejected>>
        BY <2>2 DEF TicketAges
      <3> QED BY <3>1, <3>2 DEF callVars, serverVars, limiterVars
    <2> QED BY <1>14, <2>1, <2>2
  <1>15. CASE UNCHANGED vars
    BY <1>15 DEF vars, callVars, serverVars, limiterVars, authVars
  <1> QED
    BY <1>1, <1>2, <1>3, <1>4, <1>5, <1>6, <1>7, <1>8, <1>9, <1>10, <1>11,
       <1>12, <1>13, <1>14, <1>15 DEF Next, ClientStep

LEMMA TypeInit == Init => TypeInv
  <1> SUFFICES ASSUME Init PROVE TypeInv
    OBVIOUS
  <1>1. TypeOK
    <2>1. /\ pc \in [Calls -> {"idle", "limit", "apply", "send", "await", "backoff", "done"}]
          /\ attempt \in [Calls -> 0 .. MaxRetries + 1]
          /\ executed \in [Calls -> Nat]
      BY DEF Init
    <2>2. /\ expired \in [Calls -> BOOLEAN]
          /\ reply \in [Calls -> Replies \cup {NoReply}]
          /\ outcome \in [Calls -> Kinds \cup {"none", "ok", "undecoded", "ctx", "killed"}]
      BY DEF Init
    <2>3. tokens \in 0 .. Burst /\ refilled \in Nat /\ sent \in Nat
      BY DEF Init
    <2>4. /\ requests \subseteq Calls \X (1 .. MaxRetries + 1)
          /\ ticket \in BOOLEAN /\ credentials \in BOOLEAN
          /\ rejected \subseteq Calls
      BY DEF Init
    <2> QED BY <2>1, <2>2, <2>3, <2>4 DEF TypeOK
  <1>2. AttemptsCounted
    BY DEF Init, AttemptsCounted
  <1> QED BY <1>1, <1>2 DEF TypeInv

\* Every variable of the request engine keeps its type in every behaviour.
THEOREM TypeCorrect == Spec => []TypeOK
  <1>1. Spec => []TypeInv
    BY TypeInit, TypeStep, PTL DEF Spec
  <1> QED BY <1>1, PTL DEF TypeInv

(***************************************************************************)
(* At most once, and truthful.                                             *)
(*                                                                         *)
(* AtMostOnce is not inductive: it must be known that a state-changing     *)
(* call has one attempt, whose request is gone from the network when it    *)
(* has run, and that the answer being read agrees with what the server     *)
(* did.                                                                    *)
(***************************************************************************)
InFlight(c) == \E n \in 1 .. MaxRetries + 1 : <<c, n>> \in requests

\* One attempt: nothing was sent before it, and it ran or is in flight.
SingleAttempt(c) ==
    /\ attempt[c] <= 1
    /\ \A n \in 1 .. MaxRetries + 1 : <<c, n>> \in requests => n = 1
    /\ pc[c] \in {"idle", "limit", "apply", "send"} => executed[c] = 0 /\ ~InFlight(c)
    /\ executed[c] <= 1
    /\ InFlight(c) => executed[c] = 0

\* An answer that waits to be read is true of the call.
AnswerTrue(c) ==
    reply[c] # NoReply =>
        /\ pc[c] = "await"
        /\ Success(reply[c]) => executed[c] >= 1
        /\ c \in Mutating => ~InFlight(c)
        /\ (c \in Mutating /\ ~Success(reply[c]) /\ KindOf(reply[c]) # "Server")
              => executed[c] = 0

\* So is the outcome that was returned.
OutcomeTrue(c) ==
    /\ outcome[c] # "none" => pc[c] = "done"
    /\ outcome[c] \in {"ok", "undecoded"} => executed[c] >= 1
    /\ (c \in Mutating /\ outcome[c] = "undecoded") => ~InFlight(c)
    /\ (c \in Mutating /\ outcome[c] \in DefiniteKinds)
          => executed[c] = 0 /\ ~InFlight(c)

IInv ==
    /\ \A c \in Mutating : SingleAttempt(c)
    /\ \A c \in Calls : AnswerTrue(c) /\ OutcomeTrue(c)

LEMMA SafeInit == Init => IInv
  BY DEF Init, IInv, SingleAttempt, AnswerTrue, OutcomeTrue, InFlight, Kinds, DefiniteKinds

\* Giving up an attempt, or the whole call, never invents an answer.
LEMMA FailAttemptSafe ==
    ASSUME TypeInv, IInv, NEW c \in Calls, NEW k \in Kinds, FailAttempt(c, k),
           attempt[c] >= 1, UNCHANGED serverVars,
           pc[c] \in {"apply", "send", "await"},
           c \in Mutating => k \notin DefiniteKinds
    PROVE  IInv'
  <1> USE AttemptsType DEF IInv, TypeInv, TypeOK, AttemptsCounted, FailAttempt, Finish, serverVars
  <1>1. ASSUME NEW d \in Mutating PROVE SingleAttempt(d)'
    BY <1>1 DEF SingleAttempt, InFlight
  <1>2. ASSUME NEW d \in Calls PROVE AnswerTrue(d)'
    BY <1>2 DEF AnswerTrue, InFlight
  <1>3. ASSUME NEW d \in Calls PROVE OutcomeTrue(d)'
    BY <1>3 DEF OutcomeTrue, InFlight, Kinds
  <1> QED BY <1>1, <1>2, <1>3

LEMMA SafeStep == TypeInv /\ IInv /\ [Next]_vars => IInv'
  <1> SUFFICES ASSUME TypeInv, IInv, [Next]_vars PROVE IInv'
    OBVIOUS
  <1> USE DEF IInv, TypeInv, TypeOK, AttemptsCounted
  <1>1. ASSUME NEW c \in Calls, Start(c) PROVE IInv'
    <2> USE <1>1 DEF Start, BeforeAttempt, serverVars
    <2>1. ASSUME NEW d \in Mutating PROVE SingleAttempt(d)'
      BY <2>1, AttemptsType DEF SingleAttempt, InFlight
    <2>2. ASSUME NEW d \in Calls PROVE AnswerTrue(d)'
      BY <2>2 DEF AnswerTrue, InFlight
    <2>3. ASSUME NEW d \in Calls PROVE OutcomeTrue(d)'
      BY <2>3 DEF OutcomeTrue, InFlight, Kinds, DefiniteKinds
    <2> QED BY <2>1, <2>2, <2>3
  <1>2. ASSUME NEW c \in Calls, BackoffElapses(c) PROVE IInv'
    <2> USE <1>2 DEF BackoffElapses, BeforeAttempt, serverVars
    <2>1. ASSUME NEW d \in Mutating PROVE SingleAttempt(d)'
      BY <2>1, AttemptsType DEF SingleAttempt, InFlight
    <2>2. ASSUME NEW d \in Calls PROVE AnswerTrue(d)'
      BY <2>2 DEF AnswerTrue, InFlight
    <2>3. ASSUME NEW d \in Calls PROVE OutcomeTrue(d)'
      BY <2>3 DEF OutcomeTrue, InFlight, Kinds, DefiniteKinds
    <2> QED BY <2>1, <2>2, <2>3
  <1>3. ASSUME NEW c \in Calls, BackoffCancelled(c) PROVE IInv'
    <2> USE <1>3 DEF BackoffCancelled, Finish, serverVars
    <2>1. ASSUME NEW d \in Mutating PROVE SingleAttempt(d)'
      BY <2>1, AttemptsType DEF SingleAttempt, InFlight
    <2>2. ASSUME NEW d \in Calls PROVE AnswerTrue(d)'
      BY <2>2 DEF AnswerTrue, InFlight
    <2>3. ASSUME NEW d \in Calls PROVE OutcomeTrue(d)'
      BY <2>3 DEF OutcomeTrue, InFlight, Kinds, DefiniteKinds
    <2> QED BY <2>1, <2>2, <2>3
  <1>4. ASSUME NEW c \in Calls, TakeToken(c) PROVE IInv'
    <2> USE <1>4 DEF TakeToken, serverVars
    <2>1. ASSUME NEW d \in Mutating PROVE SingleAttempt(d)'
      BY <2>1, AttemptsType DEF SingleAttempt, InFlight
    <2>2. ASSUME NEW d \in Calls PROVE AnswerTrue(d)'
      BY <2>2 DEF AnswerTrue, InFlight
    <2>3. ASSUME NEW d \in Calls PROVE OutcomeTrue(d)'
      BY <2>3 DEF OutcomeTrue, InFlight, Kinds, DefiniteKinds
    <2> QED BY <2>1, <2>2, <2>3
  <1>5. ASSUME NEW c \in Calls, LimiterFails(c) PROVE IInv'
    <2> USE <1>5 DEF LimiterFails, Finish, serverVars
    <2>1. ASSUME NEW d \in Mutating PROVE SingleAttempt(d)'
      BY <2>1, AttemptsType DEF SingleAttempt, InFlight
    <2>2. ASSUME NEW d \in Calls PROVE AnswerTrue(d)'
      BY <2>2 DEF AnswerTrue, InFlight
    <2>3. ASSUME NEW d \in Calls PROVE OutcomeTrue(d)'
      BY <2>3 DEF OutcomeTrue, InFlight, Kinds, DefiniteKinds
    <2> QED BY <2>1, <2>2, <2>3
  <1>6. ASSUME NEW c \in Calls, Login(c) PROVE IInv'
    <2> USE <1>6 DEF Login, serverVars
    <2>1. ASSUME NEW d \in Mutating PROVE SingleAttempt(d)'
      BY <2>1, AttemptsType DEF SingleAttempt, InFlight
    <2>2. ASSUME NEW d \in Calls PROVE AnswerTrue(d)'
      BY <2>2 DEF AnswerTrue, InFlight
    <2>3. ASSUME NEW d \in Calls PROVE OutcomeTrue(d)'
      BY <2>3 DEF OutcomeTrue, InFlight, Kinds, DefiniteKinds
    <2> QED BY <2>1, <2>2, <2>3
  <1>7. ASSUME NEW c \in Calls, LoginFails(c) PROVE IInv'
    <2>1. /\ FailAttempt(c, "Transport") /\ attempt[c] >= 1
          /\ pc[c] \in {"apply", "send", "await"} /\ UNCHANGED serverVars
          /\ "Transport" \in Kinds /\ "Transport" \notin DefiniteKinds
      BY <1>7 DEF LoginFails, Kinds, DefiniteKinds
    <2> QED BY <2>1, FailAttemptSafe
  <1>8. ASSUME NEW c \in Calls, Send(c) PROVE IInv'
    <2> USE <1>8 DEF Send, Applied
    <2>1. ASSUME NEW d \in Mutating PROVE SingleAttempt(d)'
      BY <2>1, AttemptsType DEF SingleAttempt, InFlight
    <2>2. ASSUME NEW d \in Calls PROVE AnswerTrue(d)'
      BY <2>2 DEF AnswerTrue, InFlight
    <2>3. ASSUME NEW d \in Calls PROVE OutcomeTrue(d)'
      BY <2>3 DEF OutcomeTrue, InFlight, Kinds, DefiniteKinds
    <2> QED BY <2>1, <2>2, <2>3
  <1>9. ASSUME NEW c \in Calls, TransportFails(c) PROVE IInv'
    <2>1. /\ FailAttempt(c, "Transport") /\ attempt[c] >= 1
          /\ pc[c] \in {"apply", "send", "await"} /\ UNCHANGED serverVars
          /\ "Transport" \in Kinds /\ "Transport" \notin DefiniteKinds
      BY <1>9 DEF TransportFails, Applied, Kinds, DefiniteKinds
    <2> QED BY <2>1, FailAttemptSafe
  <1>10. ASSUME NEW c \in Calls, Receive(c) PROVE IInv'
    <2>1. /\ pc[c] = "await" /\ attempt[c] >= 1 /\ UNCHANGED serverVars
          /\ reply[c] # NoReply /\ KindOf(reply[c]) \in Kinds
      BY <1>10, KindOfType DEF Receive
    <2>2. CASE c \notin Mutating /\ RetryableStatus(reply[c])
      BY <1>10, <2>1, <2>2, FailAttemptSafe DEF Receive
    <2>3. CASE ~(c \notin Mutating /\ RetryableStatus(reply[c]))
      <3> USE <1>10, <2>1, <2>3 DEF Receive, Finish, serverVars
      <3>1. ASSUME NEW d \in Mutating PROVE SingleAttempt(d)'
        BY <3>1 DEF SingleAttempt, InFlight
      <3>2. ASSUME NEW d \in Calls PROVE AnswerTrue(d)'
        BY <3>2 DEF AnswerTrue, InFlight
      <3>3. ASSUME NEW d \in Calls PROVE OutcomeTrue(d)'
        BY <3>3 DEF OutcomeTrue, AnswerTrue, InFlight, Returned, Kinds, DefiniteKinds
      <3> QED BY <3>1, <3>2, <3>3
    <2> QED BY <2>2, <2>3
  <1>11. ASSUME NEW c \in Calls, NEW n \in 1 .. Attempts(c), Serve(c, n) PROVE IInv'
    <2>1. n \in 1 .. MaxRetries + 1 /\ (c \in Mutating => n = 1)
      BY AttemptsType
    <2>2. InFlight(c)
      BY <1>11, <2>1 DEF Serve, InFlight
    <2>3. PICK r \in Replies, ran \in BOOLEAN :
             /\ MayAnswer(r, ran)
             /\ executed' = [executed EXCEPT ![c] = @ + (IF ran THEN 1 ELSE 0)]
             /\ reply' = IF pc[c] = "await" /\ attempt[c] = n
                         THEN [reply EXCEPT ![c] = r] ELSE reply
      BY <1>11 DEF Serve
    <2>4. /\ requests' = requests \ {<<c, n>>}
          /\ UNCHANGED <<pc, attempt, outcome>>
          /\ executed[c] \in Nat
          /\ executed'[c] = executed[c] + (IF ran THEN 1 ELSE 0)
          /\ reply'[c] = IF pc[c] = "await" /\ attempt[c] = n THEN r ELSE reply[c]
      BY <1>11, <2>3 DEF Serve
    <2>5. ASSUME NEW d \in Calls, d # c
          PROVE  /\ executed'[d] = executed[d] /\ reply'[d] = reply[d]
                 /\ InFlight(d)' <=> InFlight(d)
                 /\ \A m \in 1 .. MaxRetries + 1 :
                       <<d, m>> \in requests' <=> <<d, m>> \in requests
      BY <2>3, <2>4, <2>5 DEF InFlight
    <2>6. c \in Mutating => /\ executed[c] = 0
                            /\ ~InFlight(c)'
                            /\ pc[c] \notin {"idle", "limit", "apply", "send"}
      BY <2>1, <2>2, <2>4 DEF SingleAttempt, InFlight
    <2>7. ASSUME NEW d \in Mutating PROVE SingleAttempt(d)'
      <3>1. CASE d = c
        BY <2>1, <2>4, <2>6, <3>1 DEF SingleAttempt, InFlight
      <3>2. CASE d # c
        BY <2>4, <2>5, <3>2 DEF SingleAttempt
      <3> QED BY <3>1, <3>2
    <2>8. ASSUME NEW d \in Calls PROVE AnswerTrue(d)'
      <3>1. CASE d = c
        BY <2>1, <2>3, <2>4, <2>6, <3>1, DecodingIsSound DEF AnswerTrue, SingleAttempt, MayAnswer
      <3>2. CASE d # c
        BY <2>4, <2>5, <3>2 DEF AnswerTrue
      <3> QED BY <3>1, <3>2
    <2>9. ASSUME NEW d \in Calls PROVE OutcomeTrue(d)'
      <3>1. CASE d = c
        BY <2>2, <2>4, <2>6, <3>1 DEF OutcomeTrue
      <3>2. CASE d # c
        BY <2>4, <2>5, <3>2 DEF OutcomeTrue
      <3> QED BY <3>1, <3>2
    <2> QED BY <2>7, <2>8, <2>9
  <1>12. ASSUME NEW c \in Calls, Expire(c) PROVE IInv'
    <2> USE <1>12 DEF Expire, serverVars
    <2>1. ASSUME NEW d \in Mutating PROVE SingleAttempt(d)'
      BY <2>1, AttemptsType DEF SingleAttempt, InFlight
    <2>2. ASSUME NEW d \in Calls PROVE AnswerTrue(d)'
      BY <2>2 DEF AnswerTrue, InFlight
    <2>3. ASSUME NEW d \in Calls PROVE OutcomeTrue(d)'
      BY <2>3 DEF OutcomeTrue, InFlight, Kinds, DefiniteKinds
    <2> QED BY <2>1, <2>2, <2>3
  <1>13. ASSUME NEW c \in Calls, Kill(c) PROVE IInv'
    <2> USE <1>13 DEF Kill, Finish, serverVars
    <2>1. ASSUME NEW d \in Mutating PROVE SingleAttempt(d)'
      BY <2>1, AttemptsType DEF SingleAttempt, InFlight
    <2>2. ASSUME NEW d \in Calls PROVE AnswerTrue(d)'
      BY <2>2 DEF AnswerTrue, InFlight
    <2>3. ASSUME NEW d \in Calls PROVE OutcomeTrue(d)'
      BY <2>3 DEF OutcomeTrue, InFlight, Kinds, DefiniteKinds
    <2> QED BY <2>1, <2>2, <2>3
  <1>14. CASE Refill \/ TicketAges
    BY <1>14 DEF Refill, TicketAges, callVars, serverVars, SingleAttempt, AnswerTrue, OutcomeTrue, InFlight
  <1>15. CASE UNCHANGED vars
    BY <1>15 DEF vars, callVars, serverVars, SingleAttempt, AnswerTrue, OutcomeTrue, InFlight
  <1> QED
    BY <1>1, <1>2, <1>3, <1>4, <1>5, <1>6, <1>7, <1>8, <1>9, <1>10, <1>11,
       <1>12, <1>13, <1>14, <1>15 DEF Next, ClientStep

\* The inductive invariant holds throughout.
LEMMA Inductive == Spec => [](TypeInv /\ IInv)
  <1>1. Init => TypeInv /\ IInv
    BY TypeInit, SafeInit
  <1>2. TypeInv /\ IInv /\ [Next]_vars => (TypeInv /\ IInv)'
    BY TypeStep, SafeStep
  <1> QED BY <1>1, <1>2, PTL DEF Spec

\* A state-changing call runs at most once on the server, for every number
\* of retries, every network behaviour and every set of answers.
THEOREM AtMostOnceHolds == Spec => []AtMostOnce
  <1>1. IInv => AtMostOnce
    BY DEF IInv, SingleAttempt, AtMostOnce
  <1> QED BY <1>1, Inductive, PTL

\* A call reported as successful ran on the server.
THEOREM OkMeansExecutedHolds == Spec => []OkMeansExecuted
  <1>1. IInv => OkMeansExecuted
    BY DEF IInv, OutcomeTrue, OkMeansExecuted
  <1> QED BY <1>1, Inductive, PTL

\* A refused state-changing call did not run and has no request left.
THEOREM RefusalIsFinalHolds == Spec => []RefusalIsFinal
  <1>1. IInv => RefusalIsFinal
    BY CallsAssumption DEF IInv, OutcomeTrue, InFlight, RefusalIsFinal
  <1> QED BY <1>1, Inductive, PTL

(***************************************************************************)
(* Exit codes and retries: what is known of a call that returned.          *)
(***************************************************************************)
\* A state-changing call has no backoff that could be cancelled, and a
\* transport error comes from the last attempt, or from a deadline.
EInv ==
    \A c \in Calls :
        /\ pc[c] = "done" => outcome[c] # "none"
        /\ c \in Mutating => outcome[c] # "ctx"
        /\ attempt[c] <= Attempts(c)
        /\ expired[c] => c \in Deadlined
        /\ c \notin Deadlined /\ outcome[c] = "Transport" => attempt[c] = Attempts(c)

LEMMA NeverNone == "none" \notin Kinds /\ "ctx" \notin Kinds
  BY DEF Kinds

\* An answer never yields the kind that a lost connection has.
LEMMA AnswersAreNotTransport == \A r : KindOf(r) # "Transport"
  BY DEF KindOf, KindFromStatus

LEMMA FailAttemptExits ==
    ASSUME TypeInv, EInv, NEW c \in Calls, NEW k \in Kinds, FailAttempt(c, k)
    PROVE  EInv'
  <1> USE AttemptsType, NeverNone DEF EInv, TypeInv, TypeOK, FailAttempt, Finish
  <1>1. CASE attempt[c] < Attempts(c)
    BY <1>1 DEF Attempts
  <1>2. CASE ~(attempt[c] < Attempts(c))
    <2>1. /\ pc' = [pc EXCEPT ![c] = "done"] /\ outcome' = [outcome EXCEPT ![c] = k]
          /\ UNCHANGED <<attempt, expired>>
          /\ attempt[c] = Attempts(c) /\ k # "none" /\ k # "ctx"
      BY <1>2
    <2>2. \A d \in Calls : Attempts(d)' = Attempts(d)
      BY DEF Attempts
    <2>3. \A d \in Calls : /\ pc'[d] = "done" => outcome'[d] # "none"
                           /\ d \in Mutating => outcome'[d] # "ctx"
      BY <2>1
    <2>4. \A d \in Calls : /\ attempt'[d] <= Attempts(d)' /\ (expired'[d] => d \in Deadlined)
                           /\ d \notin Deadlined /\ outcome'[d] = "Transport"
                                 => attempt'[d] = Attempts(d)'
      BY <2>1, <2>2
    <2> QED BY <2>3, <2>4
  <1> QED BY <1>1, <1>2

LEMMA ExitStep == TypeInv /\ IInv /\ EInv /\ [Next]_vars => EInv'
  <1> SUFFICES ASSUME TypeInv, IInv, EInv, [Next]_vars PROVE EInv'
    OBVIOUS
  <1> USE DEF TypeInv, TypeOK, EInv
  <1>1. ASSUME NEW c \in Calls, Start(c) PROVE EInv'
    <2>1. outcome[c] = "none" /\ 1 <= Attempts(c)
      BY <1>1, AttemptsType DEF Start, IInv, OutcomeTrue
    <2> QED BY <1>1, <2>1 DEF Start, BeforeAttempt, Attempts
  <1>2. ASSUME NEW c \in Calls, BackoffElapses(c) PROVE EInv'
    BY <1>2, AttemptsType DEF BackoffElapses, BeforeAttempt, AttemptsCounted, IInv, OutcomeTrue, Attempts
  <1>3. ASSUME NEW c \in Calls, BackoffCancelled(c) PROVE EInv'
    BY <1>3, AttemptsType DEF BackoffCancelled, Finish, AttemptsCounted, Attempts
  <1>4. ASSUME NEW c \in Calls, TakeToken(c) PROVE EInv'
    BY <1>4 DEF TakeToken, Attempts
  <1>5. ASSUME NEW c \in Calls, LimiterFails(c) PROVE EInv'
    BY <1>5 DEF LimiterFails, Finish, Attempts
  <1>6. ASSUME NEW c \in Calls, Login(c) PROVE EInv'
    BY <1>6 DEF Login, Attempts
  <1>7. ASSUME NEW c \in Calls, LoginFails(c) \/ TransportFails(c) PROVE EInv'
    <2>1. FailAttempt(c, "Transport") /\ "Transport" \in Kinds
      BY <1>7 DEF LoginFails, TransportFails, Kinds
    <2> QED BY <2>1, FailAttemptExits
  <1>8. ASSUME NEW c \in Calls, Send(c) PROVE EInv'
    BY <1>8 DEF Send, Applied, Attempts
  <1>9. ASSUME NEW c \in Calls, Receive(c) PROVE EInv'
    <2>1. KindOf(reply[c]) \in Kinds \ {"Transport"}
      BY KindOfType, AnswersAreNotTransport
    <2>2. CASE c \notin Mutating /\ RetryableStatus(reply[c])
      BY <1>9, <2>1, <2>2, FailAttemptExits DEF Receive
    <2>3. CASE ~(c \notin Mutating /\ RetryableStatus(reply[c]))
      BY <1>9, <2>1, <2>3, NeverNone DEF Receive, Returned, Finish, Attempts
    <2> QED BY <2>2, <2>3
  <1>10. ASSUME NEW c \in Calls, NEW n \in 1 .. Attempts(c), Serve(c, n) PROVE EInv'
    BY <1>10 DEF Serve, Attempts
  <1>11. ASSUME NEW c \in Calls, Expire(c) PROVE EInv'
    BY <1>11 DEF Expire, Attempts
  <1>12. ASSUME NEW c \in Calls, Kill(c) PROVE EInv'
    BY <1>12 DEF Kill, Finish, Attempts
  <1>13. CASE Refill \/ TicketAges \/ UNCHANGED vars
    BY <1>13 DEF Refill, TicketAges, vars, callVars, Attempts
  <1> QED
    BY <1>1, <1>2, <1>3, <1>4, <1>5, <1>6, <1>7, <1>8, <1>9, <1>10, <1>11,
       <1>12, <1>13 DEF Next, ClientStep

LEMMA ExitInductive == Spec => [](TypeInv /\ IInv /\ EInv)
  <1>1. Init => EInv
    BY AttemptsType DEF Init, EInv
  <1>2. TypeInv /\ IInv /\ EInv /\ [Next]_vars => EInv'
    BY ExitStep
  <1> QED BY <1>1, <1>2, Inductive, PTL DEF Spec

\* For every answer and number of retries: only exit code 4 leaves it open
\* whether a state-changing call ran, and one whose answer did not decode ran.
THEOREM DoubtIsExitFourHolds == Spec => []DoubtIsExitFour
  <1>1. TypeInv /\ IInv /\ EInv => DoubtIsExitFour
    <2> SUFFICES ASSUME TypeInv, IInv, EInv, NEW c \in Mutating
                 PROVE  /\ (/\ pc[c] = "done"
                            /\ outcome[c] \notin {"ok", "undecoded", "killed"}
                            /\ executed[c] > 0 \/ <<c, 1>> \in requests)
                           => ExitCode(outcome[c]) = 4
                        /\ outcome[c] = "undecoded" => executed[c] = 1 /\ <<c, 1>> \notin requests
      BY DEF DoubtIsExitFour
    <2>1. ASSUME pc[c] = "done", outcome[c] \notin {"ok", "undecoded", "killed"},
                 executed[c] > 0 \/ <<c, 1>> \in requests
          PROVE  ExitCode(outcome[c]) = 4
      <3>1. outcome[c] \notin DefiniteKinds
        BY <2>1 DEF IInv, OutcomeTrue, InFlight
      <3>2. outcome[c] \in Kinds
        BY <2>1 DEF TypeInv, TypeOK, EInv
      <3>3. outcome[c] \in {"Transport", "Server"}
        BY <3>1, <3>2 DEF DefiniteKinds
      <3> QED BY <3>3 DEF ExitCode
    <2>2. ASSUME outcome[c] = "undecoded"
          PROVE  executed[c] = 1 /\ <<c, 1>> \notin requests
      <3>1. executed[c] >= 1 /\ ~InFlight(c) /\ executed[c] <= 1
        BY <2>2 DEF IInv, OutcomeTrue, SingleAttempt
      <3>2. executed[c] \in Nat /\ 1 \in 1 .. MaxRetries + 1
        BY DEF TypeInv, TypeOK
      <3>3. executed[c] = 1
        BY <3>1, <3>2
      <3>4. <<c, 1>> \notin requests
        BY <3>1, <3>2, Zenon DEF InFlight
      <3> QED BY <3>3, <3>4
    <2> QED BY <2>1, <2>2, Zenon
  <1> QED BY <1>1, ExitInductive, PTL

\* A call without a deadline that ends with a transport error made every
\* attempt it is allowed.
THEOREM TransientFailureIsRetriedHolds == Spec => []TransientFailureIsRetried
  <1>1. EInv => TransientFailureIsRetried
    BY DEF EInv, TransientFailureIsRetried
  <1> QED BY <1>1, ExitInductive, PTL

(***************************************************************************)
(* The rate. One call is under way at a time, and an attempt about to      *)
(* leave has paid for itself.                                              *)
(***************************************************************************)
UnderWay(c) == pc[c] \notin {"idle", "done"}
HasPaid(c) == pc[c] \in {"apply", "send"}

RateInv ==
    /\ \A c, d \in Calls : UnderWay(c) /\ UnderWay(d) => c = d
    /\ Limited => /\ sent + tokens <= Burst + refilled
                  /\ \A c \in Calls : HasPaid(c) => sent + tokens < Burst + refilled

\* A step of the call that is under way, which does not get a token with it.
LEMMA OneCall ==
    ASSUME TypeInv, TypeInv', RateInv, NEW c \in Calls, UnderWay(c),
           \A d \in Calls \ {c} : pc'[d] = pc[d],
           UNCHANGED refilled,
           Limited => /\ sent' + tokens' <= Burst + refilled
                      /\ HasPaid(c)' => sent' + tokens' < Burst + refilled
    PROVE  RateInv'
  <1>1. \A d \in Calls \ {c} : ~UnderWay(d) /\ ~HasPaid(d)
    BY DEF RateInv, UnderWay, HasPaid
  <1>2. \A d \in Calls \ {c} : ~UnderWay(d)' /\ ~HasPaid(d)'
    BY <1>1 DEF UnderWay, HasPaid
  <1> QED BY <1>2 DEF RateInv

LEMMA RateStep == TypeInv /\ RateInv /\ [Next]_vars => RateInv'
  <1> SUFFICES ASSUME TypeInv, RateInv, [Next]_vars PROVE RateInv'
    OBVIOUS
  <1>1. TypeInv'
    BY TypeStep
  <1>2. /\ tokens \in Nat /\ sent \in Nat /\ refilled \in Nat
        /\ pc \in [Calls -> {"idle", "limit", "apply", "send", "await", "backoff", "done"}]
    BY DEF TypeInv, TypeOK
  <1>3. /\ Limited => sent + tokens <= Burst + refilled
        /\ \A c \in Calls : Limited /\ HasPaid(c) => sent + tokens < Burst + refilled
    BY DEF RateInv
  <1>4. ASSUME NEW c \in Calls, Start(c) PROVE RateInv'
    <2>1. /\ \A d \in Calls : ~UnderWay(d)
          /\ pc' = [pc EXCEPT ![c] = BeforeAttempt]
          /\ UNCHANGED <<tokens, sent, refilled>>
      BY <1>4 DEF Start, UnderWay, limiterVars
    <2>2. \A d \in Calls \ {c} : ~UnderWay(d)' /\ ~HasPaid(d)'
      BY <1>2, <2>1 DEF UnderWay, HasPaid
    <2>3. Limited => ~HasPaid(c)'
      BY <1>2, <2>1 DEF HasPaid, BeforeAttempt
    <2> QED BY <1>3, <2>1, <2>2, <2>3 DEF RateInv
  <1>5. ASSUME NEW c \in Calls, BackoffElapses(c) PROVE RateInv'
    <2>1. /\ pc' = [pc EXCEPT ![c] = BeforeAttempt] /\ UnderWay(c)
          /\ UNCHANGED <<tokens, sent, refilled>>
      BY <1>5 DEF BackoffElapses, UnderWay, limiterVars
    <2>2. Limited => ~HasPaid(c)'
      BY <1>2, <2>1 DEF HasPaid, BeforeAttempt
    <2> QED BY <1>1, <1>2, <1>3, <2>1, <2>2, OneCall
  <1>6. ASSUME NEW c \in Calls, BackoffCancelled(c) \/ LimiterFails(c) \/ Kill(c)
        PROVE  RateInv'
    <2>1. /\ pc' = [pc EXCEPT ![c] = "done"] /\ UnderWay(c)
          /\ UNCHANGED <<tokens, sent, refilled>>
      BY <1>6 DEF BackoffCancelled, LimiterFails, Kill, Finish, UnderWay, limiterVars
    <2>2. ~HasPaid(c)'
      BY <1>2, <2>1 DEF HasPaid
    <2> QED BY <1>1, <1>2, <1>3, <2>1, <2>2, OneCall
  <1>7. ASSUME NEW c \in Calls, TakeToken(c) PROVE RateInv'
    <2>1. /\ pc' = [pc EXCEPT ![c] = "apply"] /\ UnderWay(c)
          /\ tokens' = tokens - 1 /\ UNCHANGED <<sent, refilled>>
      BY <1>7 DEF TakeToken, UnderWay
    <2> QED BY <1>1, <1>2, <1>3, <2>1, OneCall
  <1>8. ASSUME NEW c \in Calls, Login(c) PROVE RateInv'
    <2>1. /\ pc' = [pc EXCEPT ![c] = "send"] /\ UnderWay(c) /\ HasPaid(c)
          /\ UNCHANGED <<tokens, sent, refilled>>
      BY <1>8 DEF Login, UnderWay, HasPaid, limiterVars
    <2> QED BY <1>1, <1>2, <1>3, <2>1, OneCall
  <1>9. ASSUME NEW c \in Calls, LoginFails(c) \/ TransportFails(c) \/ Send(c)
        PROVE  RateInv'
    <2>1. /\ UnderWay(c) /\ UNCHANGED <<tokens, refilled>>
          /\ \/ HasPaid(c) /\ sent' = sent + 1
             \/ pc[c] = "await" /\ sent' = sent
          /\ \E where \in {"await", "backoff", "done"} : pc' = [pc EXCEPT ![c] = where]
      BY <1>9 DEF LoginFails, TransportFails, Send, Applied, FailAttempt, Finish,
                  UnderWay, HasPaid
    <2>2. ~HasPaid(c)' /\ \A d \in Calls \ {c} : pc'[d] = pc[d]
      BY <1>2, <2>1 DEF HasPaid
    <2> QED BY <1>1, <1>2, <1>3, <2>1, <2>2, OneCall
  <1>10. ASSUME NEW c \in Calls, Receive(c) PROVE RateInv'
    <2>1. /\ UnderWay(c) /\ UNCHANGED <<tokens, sent, refilled>>
          /\ \E where \in {"backoff", "done"} : pc' = [pc EXCEPT ![c] = where]
      BY <1>10 DEF Receive, FailAttempt, Finish, UnderWay, limiterVars
    <2>2. ~HasPaid(c)' /\ \A d \in Calls \ {c} : pc'[d] = pc[d]
      BY <1>2, <2>1 DEF HasPaid
    <2> QED BY <1>1, <1>2, <1>3, <2>1, <2>2, OneCall
  <1>11. CASE Refill
    BY <1>2, <1>3, <1>11 DEF Refill, RateInv, UnderWay, HasPaid, callVars
  <1>12. ASSUME UNCHANGED <<pc, tokens, sent, refilled>> PROVE RateInv'
    BY <1>12 DEF RateInv, UnderWay, HasPaid
  <1>13. ASSUME NEW c \in Calls,
                Expire(c) \/ (\E n \in 1 .. Attempts(c) : Serve(c, n))
         PROVE  RateInv'
    BY <1>12, <1>13 DEF Expire, Serve, limiterVars
  <1>14. CASE TicketAges \/ UNCHANGED vars
    BY <1>12, <1>14 DEF TicketAges, vars, callVars, limiterVars
  <1> QED
    BY <1>4, <1>5, <1>6, <1>7, <1>8, <1>9, <1>10, <1>11, <1>13, <1>14
    DEF Next, ClientStep

\* Attempts, retries included, never outrun the bucket, whatever its size.
THEOREM RateBoundHolds == Spec => []RateBound
  <1>1. Init => RateInv
    BY DEF Init, RateInv, UnderWay, HasPaid
  <1>2. RateInv => RateBound
    BY DEF RateInv, RateBound
  <1> QED BY <1>1, <1>2, TypeInit, TypeStep, RateStep, PTL DEF Spec

(***************************************************************************)
(* Refinement: each step of the engine is a step of CallPromise, or leaves *)
(* its variables alone.                                                    *)
(***************************************************************************)
\* A step that touches one call, and runs nothing, at most tells its caller.
LEMMA TellOrStutter ==
    ASSUME NEW c \in Calls, executed' = executed,
           \A d \in Calls \ {c} : Verdict(d)' = Verdict(d),
           \/ Verdict(c)' = Verdict(c)
           \/ /\ c \in Mutating
              /\ Verdict(c) = "pending"
              /\ Verdict(c)' \in {"applied", "refused", "unknown"}
              /\ Verdict(c)' = "applied" => executed[c] = 1
              /\ Verdict(c)' = "refused" => executed[c] = 0
           \/ c \notin Mutating
    PROVE  [Promise!Next]_(Promise!vars)
  <1>1. CASE c \in Mutating /\ Verdict(c) = "pending" /\ Verdict(c)' # Verdict(c)
    <2> DEFINE verdicts == [d \in Mutating |-> Verdict(d)]
    <2>2. verdicts' = [verdicts EXCEPT ![c] = Verdict(c)']
      <3>1. \A d \in Mutating : verdicts'[d] = IF d = c THEN Verdict(c)' ELSE verdicts[d]
        BY <1>1
      <3> QED
        BY <1>1, <3>1
    <2>3. /\ verdicts[c] = "pending"
          /\ Verdict(c)' = "applied" => [d \in Mutating |-> executed[d]][c] = 1
          /\ Verdict(c)' = "refused" => [d \in Mutating |-> executed[d]][c] = 0
      BY <1>1
    <2>4. [d \in Mutating |-> executed[d]]' = [d \in Mutating |-> executed[d]]
      OBVIOUS
    <2>1. Promise!Tell(c, Verdict(c)')
      BY <2>2, <2>3, <2>4 DEF Promise!Tell
    <2> QED BY <1>1, <2>1 DEF Promise!Next
  <1>2. CASE \A d \in Mutating : Verdict(d)' = Verdict(d)
    BY <1>2 DEF Promise!vars
  <1> QED BY <1>1, <1>2

\* Before it returns, a call that has started is pending.
LEMMA PendingUntilDone ==
    ASSUME NEW c \in Calls, pc[c] \notin {"idle", "done"} PROVE Verdict(c) = "pending"
  BY DEF Verdict

\* The server's step is the abstract Run, unless nothing ran or nothing is
\* changed by the call.
LEMMA ServeRefines ==
    ASSUME TypeInv, IInv, NEW c \in Calls, NEW n \in 1 .. Attempts(c), Serve(c, n)
    PROVE  [Promise!Next]_(Promise!vars)
  <1>1. PICK ran \in BOOLEAN :
           executed' = [executed EXCEPT ![c] = @ + (IF ran THEN 1 ELSE 0)]
    BY DEF Serve
  <1>2. \A d \in Calls : Verdict(d)' = Verdict(d)
    BY DEF Serve, Verdict
  <1>3. \A d \in Calls : executed[d] \in Nat
    BY DEF TypeInv, TypeOK
  <1>4. CASE c \in Mutating /\ ran
    <2>1. InFlight(c) /\ executed[c] = 0 /\ pc[c] \notin {"idle", "limit", "apply", "send"}
      BY <1>4, AttemptsType DEF Serve, InFlight, IInv, SingleAttempt
    <2>2. Verdict(c) \in {"pending", "unknown"}
      BY <1>4, <2>1 DEF Verdict, IInv, OutcomeTrue
    <2>3. [d \in Mutating |-> executed[d]]' =
             [[d \in Mutating |-> executed[d]] EXCEPT ![c] = 1]
      <3>1. /\ executed'[c] = 1
            /\ \A d \in Mutating \ {c} : executed'[d] = executed[d]
        BY <1>1, <1>3, <1>4, <2>1 DEF TypeInv, TypeOK
      <3> QED BY <1>4, <3>1, Zenon
    <2>4. Promise!Run(c)
      BY <1>2, <1>4, <2>1, <2>2, <2>3 DEF Promise!Run
    <2> QED BY <1>4, <2>4 DEF Promise!Next
  <1>5. CASE ~(c \in Mutating /\ ran)
    <2>1. \A d \in Mutating : executed'[d] = executed[d]
      BY <1>1, <1>3, <1>5 DEF TypeInv, TypeOK
    <2> QED BY <1>2, <2>1 DEF Promise!vars
  <1> QED BY <1>4, <1>5

LEMMA RefinementStep ==
    TypeInv /\ IInv /\ [Next]_vars => [Promise!Next]_(Promise!vars)
  <1> SUFFICES ASSUME TypeInv, IInv, [Next]_vars
               PROVE  [Promise!Next]_(Promise!vars)
    OBVIOUS
  <1> USE DEF TypeInv, TypeOK, AttemptsCounted
  <1>1. ASSUME NEW c \in Calls, Start(c) PROVE [Promise!Next]_(Promise!vars)
    <2>1. CASE c \in Mutating
      <3>1. /\ executed' = executed
            /\ Verdict(c) = "idle" /\ Verdict(c)' = "pending"
            /\ \A d \in Calls \ {c} : Verdict(d)' = Verdict(d)
        BY <1>1 DEF Start, BeforeAttempt, serverVars, Verdict
      <3>2. [d \in Mutating |-> Verdict(d)]' =
               [[d \in Mutating |-> Verdict(d)] EXCEPT ![c] = "pending"]
        BY <2>1, <3>1, Zenon
      <3>3. [d \in Mutating |-> Verdict(d)][c] = "idle"
        BY <2>1, <3>1
      <3>4. Promise!Ask(c)
        BY <3>1, <3>2, <3>3 DEF Promise!Ask
      <3> QED BY <2>1, <3>4 DEF Promise!Next
    <2>2. CASE c \notin Mutating
      BY <1>1, <2>2, TellOrStutter DEF Start, serverVars, Verdict
    <2> QED BY <2>1, <2>2
  <1>2. ASSUME NEW c \in Calls, BackoffElapses(c) PROVE [Promise!Next]_(Promise!vars)
    <2>1. executed' = executed /\ \A d \in Calls : Verdict(d)' = Verdict(d)
      BY <1>2 DEF BackoffElapses, BeforeAttempt, serverVars, Verdict
    <2> QED BY <2>1, TellOrStutter
  <1>3. ASSUME NEW c \in Calls, TakeToken(c) PROVE [Promise!Next]_(Promise!vars)
    <2>1. executed' = executed /\ \A d \in Calls : Verdict(d)' = Verdict(d)
      BY <1>3 DEF TakeToken, serverVars, Verdict
    <2> QED BY <2>1, TellOrStutter
  <1>4. ASSUME NEW c \in Calls, Login(c) PROVE [Promise!Next]_(Promise!vars)
    <2>1. executed' = executed /\ \A d \in Calls : Verdict(d)' = Verdict(d)
      BY <1>4 DEF Login, serverVars, Verdict
    <2> QED BY <2>1, TellOrStutter
  <1>5. ASSUME NEW c \in Calls, Send(c) PROVE [Promise!Next]_(Promise!vars)
    <2>1. executed' = executed /\ \A d \in Calls : Verdict(d)' = Verdict(d)
      BY <1>5 DEF Send, Applied, Verdict
    <2> QED BY <2>1, TellOrStutter
  <1>6. ASSUME NEW c \in Calls, Expire(c) PROVE [Promise!Next]_(Promise!vars)
    <2>1. executed' = executed /\ \A d \in Calls : Verdict(d)' = Verdict(d)
      BY <1>6 DEF Expire, serverVars, Verdict
    <2> QED BY <2>1, TellOrStutter
  <1>7. ASSUME NEW c \in Calls, BackoffCancelled(c) PROVE [Promise!Next]_(Promise!vars)
    <2>1. /\ executed' = executed
          /\ \A d \in Calls \ {c} : Verdict(d)' = Verdict(d)
          /\ c \in Mutating => Verdict(c)' \in {"pending", "unknown"}
      BY <1>7, AttemptsType DEF BackoffCancelled, Finish, serverVars, Verdict, Kinds, DefiniteKinds, IInv, SingleAttempt
    <2>2. Verdict(c) = "pending"
      BY <1>7, PendingUntilDone DEF BackoffCancelled
    <2> QED BY <2>1, <2>2, TellOrStutter
  <1>8. ASSUME NEW c \in Calls, LimiterFails(c) PROVE [Promise!Next]_(Promise!vars)
    <2>1. /\ executed' = executed
          /\ \A d \in Calls \ {c} : Verdict(d)' = Verdict(d)
          /\ c \in Mutating => Verdict(c)' \in {"pending", "unknown"}
      BY <1>8, AttemptsType DEF LimiterFails, Finish, serverVars, Verdict, Kinds, DefiniteKinds
    <2>2. Verdict(c) = "pending"
      BY <1>8, PendingUntilDone DEF LimiterFails
    <2> QED BY <2>1, <2>2, TellOrStutter
  <1>9. ASSUME NEW c \in Calls, Kill(c) PROVE [Promise!Next]_(Promise!vars)
    <2>1. /\ executed' = executed
          /\ \A d \in Calls \ {c} : Verdict(d)' = Verdict(d)
          /\ c \in Mutating => Verdict(c)' \in {"pending", "unknown"}
      BY <1>9, AttemptsType DEF Kill, Finish, serverVars, Verdict, Kinds, DefiniteKinds
    <2>2. Verdict(c) = "pending"
      BY <1>9, PendingUntilDone DEF Kill
    <2> QED BY <2>1, <2>2, TellOrStutter
  <1>10. ASSUME NEW c \in Calls, LoginFails(c) PROVE [Promise!Next]_(Promise!vars)
    <2>1. /\ executed' = executed
          /\ \A d \in Calls \ {c} : Verdict(d)' = Verdict(d)
          /\ c \in Mutating => Verdict(c)' \in {"pending", "unknown"}
      BY <1>10, AttemptsType DEF LoginFails, FailAttempt, Finish, serverVars, Verdict, Kinds, DefiniteKinds
    <2>2. Verdict(c) = "pending"
      BY <1>10, PendingUntilDone DEF LoginFails
    <2> QED BY <2>1, <2>2, TellOrStutter
  <1>11. ASSUME NEW c \in Calls, TransportFails(c) PROVE [Promise!Next]_(Promise!vars)
    <2>1. /\ executed' = executed
          /\ \A d \in Calls \ {c} : Verdict(d)' = Verdict(d)
          /\ c \in Mutating => Verdict(c)' \in {"pending", "unknown"}
      BY <1>11, AttemptsType DEF TransportFails, Applied, FailAttempt, Finish, serverVars, Verdict, Kinds, DefiniteKinds
    <2>2. Verdict(c) = "pending"
      BY <1>11, PendingUntilDone DEF TransportFails, Applied
    <2> QED BY <2>1, <2>2, TellOrStutter
  <1>12. ASSUME NEW c \in Calls, Receive(c) PROVE [Promise!Next]_(Promise!vars)
    <2>1. Verdict(c) = "pending"
      BY <1>12, PendingUntilDone DEF Receive
    <2>2. /\ executed' = executed
          /\ \A d \in Calls \ {c} : Verdict(d)' = Verdict(d)
      BY <1>12 DEF Receive, FailAttempt, Finish, serverVars, Verdict
    <2>3. CASE c \in Mutating
      <3>1. reply[c] # NoReply /\ pc'[c] = "done"
            /\ outcome'[c] \in Returned(c, reply[c])
        BY <1>12, <2>3 DEF Receive, Finish
      <3>2. KindOf(reply[c]) \in Kinds /\ executed[c] \in Nat
        BY KindOfType
      <3>3. AnswerTrue(c) /\ executed[c] <= 1
        BY <2>3 DEF IInv, SingleAttempt
      <3>4. CASE Success(reply[c])
        <4>1. Verdict(c)' \in {"applied", "unknown"}
          BY <3>1, <3>4 DEF Verdict, Returned, Kinds, DefiniteKinds
        <4> QED BY <2>1, <2>2, <2>3, <3>1, <3>2, <3>3, <3>4, <4>1, TellOrStutter DEF AnswerTrue
      <3>5. CASE ~Success(reply[c])
        <4>1. /\ Verdict(c)' \in {"refused", "unknown"}
              /\ Verdict(c)' = "refused" => KindOf(reply[c]) # "Server"
          BY <3>1, <3>2, <3>5 DEF Verdict, Returned, Kinds, DefiniteKinds
        <4> QED BY <2>1, <2>2, <2>3, <3>1, <3>3, <3>5, <4>1, TellOrStutter DEF AnswerTrue
      <3> QED BY <3>4, <3>5
    <2>4. CASE c \notin Mutating
      BY <2>2, <2>4, TellOrStutter
    <2> QED BY <2>3, <2>4
  <1>13. ASSUME NEW c \in Calls, NEW n \in 1 .. Attempts(c), Serve(c, n)
         PROVE [Promise!Next]_(Promise!vars)
    BY <1>13, ServeRefines
  <1>14. CASE Refill \/ TicketAges \/ UNCHANGED vars
    <2>1. executed' = executed /\ \A d \in Calls : Verdict(d)' = Verdict(d)
      BY <1>14 DEF Refill, TicketAges, vars, callVars, serverVars, Verdict
    <2> QED BY <2>1 DEF Promise!vars
  <1> QED
    BY <1>1, <1>2, <1>3, <1>4, <1>5, <1>6, <1>7, <1>8, <1>9, <1>10, <1>11,
       <1>12, <1>13, <1>14 DEF Next, ClientStep

\* The request engine implements the promise of at-most-once, truthfully
\* reported calls: every behaviour of it is one of CallPromise.
THEOREM ImplementsSafePromise == Spec => Promise!Safe
  <1>1. Init => Promise!Init
    <2> SUFFICES ASSUME Init PROVE Promise!Init
      OBVIOUS
    <2>1. \A c \in Calls : executed[c] = 0 /\ Verdict(c) = "idle"
      BY DEF Init, Verdict
    <2> QED BY <2>1, CallsAssumption DEF Promise!Init
  <1> QED BY <1>1, Inductive, RefinementStep, PTL DEF Spec, Promise!Safe
=============================================================================
