--------------------------- MODULE LlmStepProofs ---------------------------
(***************************************************************************)
(* Proofs about LlmStep and the DeviceFlow it begins with, for any times,  *)
(* any tools, any number of tool calls in an answer and of rounds.         *)
(***************************************************************************)
EXTENDS LlmStep, SequenceTheorems, TLAPS

\* The constants, each by itself.
LEMMA Numbers ==
  /\ interval \in Nat /\ timeout \in Nat /\ SlowDown \in Nat /\ SlowDown > 0
  /\ RequestTime \in Nat
  /\ max_tool_steps \in Nat /\ Lifetime \in Nat /\ _REFRESH_SKEW \in Nat
  /\ _REFRESH_SKEW < Lifetime /\ MaxCalls \in Nat
  BY FlowConstants, StepConstants

-----------------------------------------------------------------------------
(* The device flow. *)

\* The types of the flow, each by itself.
LEMMA FlowTyping ==
  ASSUME FlowTypeOK
  PROVE  /\ now \in Nat /\ began \in Nat /\ until \in Nat /\ flows \in Nat
         /\ \A t \in authorized : t \in Nat /\ began <= t /\ t <= now
  BY DEF FlowTypeOK

\* No flow has begun.
LEMMA FlowBegins ==
  ASSUME FlowInit PROVE FlowInv
<1>1. {_oauth_token, put_off} \subseteq BOOLEAN
  BY Zenon DEF FlowInit
<1>2. FlowTypeOK
  BY <1>1 DEF FlowInit, FlowTypeOK
<1>3. QED
  BY <1>2 DEF FlowInit, FlowInv, AuthorizedIsSeen, Polling

\* The clock stands still at the end of a sleep or of a request's patience.
LEMMA FlowWaits ==
  ASSUME FlowInv, FlowLetsTimePass, now' = now + 1, UNCHANGED flowVars
  PROVE  FlowInv'
<1>1. UNCHANGED <<_oauth_token, flow, began, until, authorized, put_off, flows>>
  BY DEF flowVars
<1>2. /\ now \in Nat /\ began \in Nat /\ until \in Nat
      /\ \A t \in authorized : t \in Nat /\ began <= t /\ t <= now
  BY FlowTyping DEF FlowInv
<1>3. FlowTypeOK'
  BY <1>1, <1>2 DEF FlowInv, FlowTypeOK
<1>4. flow = "none" \/ (flow \in Polling /\ now < until)
  BY DEF FlowLetsTimePass
<1>5. QED
  BY <1>1, <1>2, <1>3, <1>4, Numbers DEF FlowInv, AuthorizedIsSeen, Polling

\* A step of the flow, by the clock.
LEMMA FlowSteps ==
  ASSUME FlowInv, FlowNext
  PROVE  FlowInv'
<1>1. /\ now \in Nat /\ began \in Nat /\ until \in Nat /\ flows \in Nat
      /\ \A t \in authorized : t \in Nat /\ began <= t /\ t <= now
  BY FlowTyping DEF FlowInv
<1>2. CASE start_device_flow
  <2>1. /\ now' = now /\ flow' = "sleep" /\ began' = now /\ until' = now /\ flows' = flows + 1
        /\ _oauth_token' = _oauth_token /\ authorized' = {} /\ put_off' = put_off
    BY <1>2 DEF start_device_flow, FlowInv
  <2>2. QED
    BY <1>1, <2>1, Numbers DEF FlowInv, FlowTypeOK, AuthorizedIsSeen, Polling, Round
<1>3. CASE check
  <2>1. /\ UNCHANGED <<now, _oauth_token, began, authorized, put_off, flows>>
        /\ flow = "sleep" /\ now >= until /\ until' = now + RequestTime
        /\ flow' = IF now < began + timeout THEN "poll" ELSE "timed_out"
    BY <1>3 DEF check
  <2>2. now = until /\ (~put_off => \A t \in authorized : now <= t + Round)
    BY <1>1, <2>1 DEF FlowInv, Polling
  <2>3. FlowTypeOK'
    BY <1>1, <2>1, Numbers DEF FlowInv, FlowTypeOK, Polling
  <2>4. QED
    BY <1>1, <2>1, <2>2, <2>3, Numbers DEF FlowInv, AuthorizedIsSeen, Polling
<1>4. CASE poll_device_flow
  <2>1. PICK reply \in Replies :
          /\ _oauth_token' = (_oauth_token \/ reply = "access_token")
          /\ flow' = CASE reply = "access_token" -> "logged_in"
                       [] reply = "denied"       -> "raised"
                       [] OTHER                  -> "sleep"
          /\ until' = now + Sleep(reply)
          /\ put_off' = (reply = "slow_down" /\ Entered)
    BY <1>4 DEF poll_device_flow
  <2>2. flow = "poll" /\ UNCHANGED <<now, began, authorized, flows>>
    BY <1>4 DEF poll_device_flow
  <2>3. Sleep(reply) \in Nat /\ Sleep(reply) <= interval + SlowDown
    BY Numbers DEF Sleep
  <2>4. _oauth_token' \in BOOLEAN /\ put_off' \in BOOLEAN
    BY <2>1, Zenon DEF FlowInv, FlowTypeOK
  <2>5. CASE reply \in {"access_token", "denied"}
    <3>1. flow' \in {"logged_in", "raised"}
      BY <2>1, <2>5
    <3>2. QED
      BY <1>1, <2>1, <2>2, <2>3, <2>4, <3>1 DEF FlowInv, FlowTypeOK, AuthorizedIsSeen, Polling
  <2>6. CASE reply \notin {"access_token", "denied"}
    <3>1. flow' = "sleep"
      BY <2>1, <2>6, Zenon
    <3>2. reply = "slow_down" \/ ~Entered
      BY <2>6 DEF Replies
    <3>3. ~put_off' => \A t \in authorized : until <= t + RequestTime
      <4>1. ASSUME ~put_off' PROVE ~Entered
        BY <2>1, <3>2, <4>1
      <4>2. ASSUME ~Entered PROVE \A t \in authorized : until <= t + RequestTime
        BY <1>1, <4>2, Numbers DEF Entered
      <4>3. QED
        BY <4>1, <4>2
    <3>4. began <= now /\ now <= until /\ until < began + timeout + RequestTime
      BY <2>2 DEF FlowInv, Polling
    <3>5. /\ until' \in Nat /\ now <= until' /\ until' <= now + interval + SlowDown
          /\ until' < began + timeout + Round
      BY <1>1, <2>1, <2>3, <3>4, Numbers DEF Round
    <3>6. ~put_off' => \A t \in authorized : until' <= t + Round
      BY <1>1, <2>1, <2>3, <3>3, <3>4, Numbers DEF Round
    <3>7. QED
      BY <1>1, <2>2, <2>4, <3>1, <3>4, <3>5, <3>6
         DEF FlowInv, FlowTypeOK, AuthorizedIsSeen, Polling
  <2>7. QED
    BY <2>5, <2>6
<1>5. CASE login_device_flow
  <2>1. /\ flow' = "none" /\ began' = 0 /\ until' = 0 /\ authorized' = {} /\ put_off' = FALSE
        /\ UNCHANGED <<now, _oauth_token, flows>>
    BY <1>5 DEF login_device_flow
  <2>2. {_oauth_token', put_off'} \subseteq BOOLEAN
    BY <2>1, Zenon DEF FlowInv, FlowTypeOK
  <2>3. FlowTypeOK'
    BY <1>1, <2>1, <2>2 DEF FlowInv, FlowTypeOK
  <2>4. QED
    BY <2>1, <2>3 DEF FlowInv, AuthorizedIsSeen, Polling
<1>6. CASE user_authorizes
  <2>1. /\ flow \in Polling /\ authorized' = {now}
        /\ UNCHANGED <<now, _oauth_token, flow, began, until, put_off, flows>>
    BY <1>6 DEF user_authorizes
  <2>2. FlowTypeOK'
    BY <1>1, <2>1 DEF FlowInv, FlowTypeOK
  <2>3. flow = "sleep" => until <= now + Round
    BY <1>1, Numbers DEF FlowInv, Round
  <2>4. QED
    BY <1>1, <2>1, <2>2, <2>3 DEF FlowInv, AuthorizedIsSeen, Polling
<1>7. QED
  BY <1>2, <1>3, <1>4, <1>5, <1>6 DEF FlowNext

\* It stands still while a step runs.
LEMMA FlowStays ==
  ASSUME FlowInv, UNCHANGED <<now, flowVars>>
  PROVE  FlowInv'
  BY DEF FlowInv, FlowTypeOK, AuthorizedIsSeen, flowVars

-----------------------------------------------------------------------------
(* Conversations. *)

\* An answer is a message, and so is the result of a tool call.
LEMMA MessagesOf ==
  /\ \A calls \in Answers : /\ calls \in Seq(ToolCalls)
                            /\ AI(calls) \in Messages
  /\ \A call \in ToolCalls : ToolMessage(call) \in Messages
<1>1. ASSUME NEW calls \in Answers
      PROVE  calls \in Seq(ToolCalls) /\ AI(calls) \in Messages
  <2>1. PICK n \in 0..MaxCalls : calls \in [1..n -> ToolCalls]
    BY DEF Answers
  <2>2. n \in Nat
    BY <2>1, Numbers
  <2>3. QED
    BY <2>1, <2>2 DEF AI, Messages
<1>2. ASSUME NEW call \in ToolCalls PROVE ToolMessage(call) \in Messages
  <2>1. call_id(call) \in Tools \cup {Unknown} \cup 1..MaxCalls
    BY Numbers DEF ToolCalls, call_id, NoId
  <2>2. QED
    BY <2>1 DEF ToolMessage, Messages
<1>3. QED
  BY <1>1, <1>2

\* The messages of a conversation, and the calls of its answers.
LEMMA Talks ==
  ASSUME NEW c \in Seq(Messages), NEW k \in 1..Len(c)
  PROVE  /\ Len(c) \in Nat /\ k \in Nat /\ c[k] \in Messages
         /\ c[k].kind = "ai" => c[k].calls \in Seq(ToolCalls) /\ Len(c[k].calls) \in Nat
<1>1. Len(c) \in Nat /\ k \in Nat /\ c[k] \in Messages
  OBVIOUS
<1>2. ASSUME c[k].kind = "ai" PROVE c[k].calls \in Answers
  BY <1>1, <1>2 DEF Messages
<1>3. QED
  BY <1>1, <1>2, MessagesOf

\* What is answered stays so, whatever is said next.
LEMMA StaysAnswered ==
  ASSUME NEW c \in Seq(Messages), NEW m \in Messages, NEW k \in 1..Len(c), Answered(c, k)
  PROVE  Answered(Append(c, m), k)
<1> DEFINE d == Append(c, m)
<1>1. /\ Len(d) = Len(c) + 1
      /\ \A i \in 1..Len(c) : d[i] = c[i]
  OBVIOUS
<1>2. Len(c) \in Nat /\ k \in Nat /\ (c[k].kind = "ai" => Len(c[k].calls) \in Nat)
  BY Talks
<1> HIDE DEF d
<1>3. CASE c[k].kind = "ai" /\ Len(c) >= k + Len(c[k].calls)
  BY <1>1, <1>2, <1>3 DEF Answered
<1>4. CASE \E i \in 1..(k - 1) : /\ c[i].kind = "ai" /\ k - i \in DOMAIN c[i].calls
                                 /\ c[k] = ToolMessage(c[i].calls[k - i])
  <2>1. PICK i \in 1..(k - 1) : /\ c[i].kind = "ai" /\ k - i \in DOMAIN c[i].calls
                                /\ c[k] = ToolMessage(c[i].calls[k - i])
    BY <1>4
  <2>2. i \in 1..Len(c)
    BY <1>2
  <2>3. d[i] = c[i] /\ d[k] = c[k]
    BY <1>1, <2>2
  <2>4. QED
    BY <2>1, <2>3 DEF Answered
<1>5. QED
  BY <1>3, <1>4 DEF Answered, d

\* An answer without tool calls leaves nothing to do ...
LEMMA AnswersEmpty ==
  ASSUME NEW c \in Seq(Messages), NEW calls \in Answers, calls = <<>>,
         \A k \in 1..Len(c) : Answered(c, k)
  PROVE  LET d == Append(c, AI(calls))
         IN  /\ d \in Seq(Messages) /\ d # <<>> /\ d[Len(d)] = AI(<<>>)
             /\ \A k \in 1..Len(d) : Answered(d, k)
<1> DEFINE d == Append(c, AI(calls))
<1>1. AI(calls) \in Messages
  BY MessagesOf
<1>2. /\ d \in Seq(Messages) /\ Len(d) = Len(c) + 1 /\ d[Len(c) + 1] = AI(calls)
      /\ Len(c) \in Nat
  BY <1>1
<1>3. \A k \in 1..Len(c) : Answered(d, k)
  BY <1>1, StaysAnswered
<1> HIDE DEF d
<1>4. Answered(d, Len(d))
  BY <1>2 DEF Answered, AI
<1>5. \A k \in 1..Len(d) : Answered(d, k)
  BY <1>2, <1>3, <1>4
<1>6. d # <<>> /\ d[Len(d)] = AI(<<>>)
  BY <1>2
<1>7. QED
  BY <1>2, <1>5, <1>6 DEF d

\* ... one with tool calls begins their execution ...
LEMMA AnswersBegin ==
  ASSUME NEW c \in Seq(Messages), NEW calls \in Answers,
         \A k \in 1..Len(c) : Answered(c, k)
  PROVE  LET d == Append(c, AI(calls))
         IN  d \in Seq(Messages) /\ \E j \in 1..Len(d) : InExecution(d, calls, j)
<1> DEFINE d == Append(c, AI(calls))
<1>1. AI(calls) \in Messages /\ calls \in Seq(ToolCalls)
  BY MessagesOf
<1>2. /\ d \in Seq(Messages) /\ Len(d) = Len(c) + 1 /\ d[Len(c) + 1] = AI(calls)
      /\ Len(c) \in Nat
  BY <1>1
<1>3. \A k \in 1..Len(c) : Answered(d, k)
  BY <1>1, StaysAnswered
<1> HIDE DEF d
<1>4. d[Len(d)].kind = "ai" /\ d[Len(d)].calls = calls
  BY <1>2 DEF AI
<1>5. Len(calls) \in Nat
  BY <1>1
<1>6. \A i \in 1..Len(calls) : calls[i] = d[Len(d)].calls[i + Len(d) - Len(d)]
  BY <1>2, <1>4, <1>5
<1>7. InExecution(d, calls, Len(d))
  <2>1. \A k \in 1..Len(d) : k # Len(d) => k \in 1..Len(c)
    BY <1>2
  <2>2. \A k \in 1..Len(d) : k # Len(d) => Answered(d, k)
    BY <1>3, <2>1
  <2>3. QED
    BY <1>4, <1>5, <1>6, <2>2 DEF InExecution
<1>8. Len(d) \in 1..Len(d)
  BY <1>2
<1>9. QED
  BY <1>2, <1>7, <1>8 DEF d

\* ... whose next result answers the next of them, and the answer itself at the end.
LEMMA ExecutionGoesOn ==
  ASSUME NEW c \in Seq(Messages), NEW calls \in Seq(ToolCalls), calls # <<>>,
         NEW j \in 1..Len(c), InExecution(c, calls, j)
  PROVE  LET d == Append(c, ToolMessage(Head(calls)))
         IN  /\ d \in Seq(Messages) /\ j \in 1..Len(d)
             /\ InExecution(d, Tail(calls), j)
             /\ Tail(calls) = <<>> => \A k \in 1..Len(d) : Answered(d, k)
<1> DEFINE m == ToolMessage(Head(calls))
           d == Append(c, m)
           rest == Tail(calls)
<1>1. /\ Head(calls) = calls[1] /\ calls[1] \in ToolCalls
      /\ rest \in Seq(ToolCalls) /\ Len(rest) \in Nat /\ Len(calls) = Len(rest) + 1
      /\ \A i \in 1..Len(rest) : rest[i] = calls[i + 1]
  BY EmptySeq, HeadTailProperties, LenProperties
<1>2. m \in Messages /\ m = ToolMessage(calls[1])
  BY <1>1, MessagesOf
<1> HIDE DEF m, rest
<1>3. /\ d \in Seq(Messages) /\ Len(d) = Len(c) + 1 /\ d[Len(c) + 1] = m
      /\ \A i \in 1..Len(c) : d[i] = c[i]
  BY <1>2
<1>4. \A k \in 1..Len(c) : k # j => Answered(d, k)
  BY <1>2, StaysAnswered DEF InExecution
<1> HIDE DEF d
<1>5. /\ c[j].kind = "ai" /\ Len(c) + Len(calls) = j + Len(c[j].calls)
      /\ \A i \in 1..Len(calls) : calls[i] = c[j].calls[i + Len(c) - j]
  BY DEF InExecution
<1>6. /\ Len(c) \in Nat /\ j \in Nat /\ j <= Len(c) /\ Len(c[j].calls) \in Nat
      /\ c[j].calls \in Seq(ToolCalls)
  BY <1>5, Talks
<1>7. d[j] = c[j]
  BY <1>3
<1>8. Answered(d, Len(d))
  <2>1. 1 \in 1..Len(calls)
    BY <1>1
  <2>2. 1 + Len(c) - j = Len(d) - j
    BY <1>3, <1>6
  <2>3. m = ToolMessage(d[j].calls[Len(d) - j])
    BY <1>2, <1>5, <1>7, <2>1, <2>2
  <2>4. Len(d) - j \in 1..Len(c[j].calls)
    BY <1>1, <1>3, <1>5, <1>6
  <2>5. Len(d) - j \in DOMAIN d[j].calls
    BY <1>6, <1>7, <2>4
  <2>6. j \in 1..(Len(d) - 1)
    BY <1>3, <1>6
  <2>7. d[Len(d)] = m
    BY <1>3
  <2>8. QED
    BY <1>5, <1>7, <2>3, <2>5, <2>6, <2>7 DEF Answered
<1>9. InExecution(d, rest, j)
  <2>1. Len(d) + Len(rest) = j + Len(d[j].calls)
    BY <1>1, <1>3, <1>5, <1>6, <1>7
  <2>2. ASSUME NEW i \in 1..Len(rest) PROVE rest[i] = d[j].calls[i + Len(d) - j]
    <3>1. i + 1 \in 1..Len(calls)
      BY <1>1
    <3>2. (i + 1) + Len(c) - j = i + Len(d) - j
      BY <1>3, <1>6
    <3>3. QED
      BY <1>1, <1>5, <1>7, <3>1, <3>2
  <2>3. \A k \in 1..Len(d) : k # j => Answered(d, k)
    <3>1. \A k \in 1..Len(d) : k = Len(d) \/ k \in 1..Len(c)
      BY <1>3, <1>6
    <3>2. QED
      BY <1>4, <1>8, <3>1
  <2>4. QED
    BY <1>5, <1>7, <2>1, <2>2, <2>3 DEF InExecution
<1>10. ASSUME rest = <<>> PROVE \A k \in 1..Len(d) : Answered(d, k)
  <2>1. Len(rest) = 0
    BY <1>10
  <2>2. Answered(d, j)
    BY <1>5, <1>7, <1>3, <1>1, <1>6, <2>1 DEF Answered
  <2>3. \A k \in 1..Len(d) : k = Len(d) \/ k \in 1..Len(c)
    BY <1>3, <1>6
  <2>4. QED
    BY <1>4, <1>8, <2>2, <2>3
<1>11. j \in 1..Len(d)
  BY <1>3, <1>6
<1>12. QED
  BY <1>3, <1>9, <1>10, <1>11 DEF d, m, rest

-----------------------------------------------------------------------------
(* The steps of a node. *)

\* The types, each by itself.
LEMMA Typing ==
  ASSUME TypeOK
  PROVE  /\ now \in Nat /\ _copilot_token \in Nat /\ base \in Nat /\ taken \in Nat
         /\ rounds \in Nat /\ made \in Nat /\ steps \in Nat
         /\ tools \in {{}, Tools} /\ todo \in Seq(ToolCalls) /\ convo \in Seq(Messages)
         /\ Len(convo) \in Nat
  BY DEF TypeOK, FlowTypeOK

\* The types outlast a step that keeps to them.
LEMMA StepTyping ==
  ASSUME IInv, UNCHANGED <<now, flowVars>>,
         {_copilot_token', base', taken', rounds', made', steps'} \subseteq Nat,
         pc' \in {"idle", "chat", "invoke", "answer", "execute", "structured", "result",
                  "raised", "rejected"},
         tools' \in {{}, Tools}, todo' \in Seq(ToolCalls), convo' \in Seq(Messages)
  PROVE  TypeOK' /\ FlowInv'
<1>1. FlowInv'
  BY FlowStays DEF IInv
<1>2. QED
  BY <1>1 DEF TypeOK, FlowInv

\* The invariant holds at the start.
LEMMA InitInv ==
  ASSUME Init PROVE IInv
<1>1. FlowInv /\ now = 0
  BY FlowBegins DEF Init, FlowInit
<1>2. <<>> \in Seq(ToolCalls) /\ <<>> \in Seq(Messages) /\ Len(<<>>) = 0
  OBVIOUS
<1>3. TypeOK
  BY <1>1, <1>2 DEF Init, TypeOK, FlowInv
<1>4. ConversationInOrder
  BY <1>2 DEF Init, ConversationInOrder
<1>5. QED
  BY <1>1, <1>3, <1>4 DEF Init, IInv, RequestsCounted, ChatIsFresh, RejectedOnlyLate

\* A step that returns or raises leaves nothing behind but the token.
LEMMA LeaveStep ==
  ASSUME IInv, UNCHANGED <<now, flowVars>>, NEW how \in {"idle", "raised", "rejected"},
         Leave(how), how = "rejected" => now > taken + _REFRESH_SKEW
  PROVE  IInv'
<1>1. /\ pc' = how /\ tools' = {} /\ convo' = <<>> /\ todo' = <<>> /\ rounds' = 0 /\ made' = 0
      /\ UNCHANGED <<_copilot_token, base, taken, steps>>
  BY DEF Leave
<1>2. <<>> \in Seq(ToolCalls) /\ <<>> \in Seq(Messages) /\ Len(<<>>) = 0
  OBVIOUS
<1>3. TypeOK' /\ FlowInv'
  <2>1. TypeOK
    BY DEF IInv
  <2>2. QED
    BY <1>1, <1>2, <2>1, StepTyping, Typing
<1>4. ConversationInOrder'
  BY <1>1, <1>2 DEF ConversationInOrder
<1>5. QED
  BY <1>1, <1>3, <1>4 DEF IInv, RequestsCounted, ChatIsFresh, RejectedOnlyLate

\* A step begins with nothing asked.
LEMMA BeginStep ==
  ASSUME IInv, UNCHANGED <<now, flowVars>>, list_tools PROVE IInv'
<1>1. /\ pc \in {"idle", "raised", "rejected"} /\ pc' = "chat" /\ tools' \in {{}, Tools}
      /\ steps' = steps + 1
      /\ UNCHANGED <<_copilot_token, base, taken, convo, todo, rounds, made>>
  BY DEF list_tools
<1>2. TypeOK' /\ FlowInv'
  <2>1. TypeOK
    BY DEF IInv
  <2>2. QED
    BY <1>1, <2>1, StepTyping, Typing
<1>3. ConversationInOrder'
  BY <1>1 DEF IInv, ConversationInOrder
<1>4. QED
  BY <1>1, <1>2, <1>3 DEF IInv, RequestsCounted, ChatIsFresh, RejectedOnlyLate

\* The token of the chat is a new one, or one that need not be replaced.
LEMMA ChatStep ==
  ASSUME IInv, UNCHANGED <<now, flowVars>>, chat PROVE IInv'
<1>1. /\ pc = "chat" /\ taken' = now /\ base' = _copilot_token'
      /\ _copilot_token' = IF needs_refresh THEN now + Lifetime ELSE _copilot_token
      /\ pc' = IF tools = {} THEN "structured" ELSE "invoke"
      /\ UNCHANGED <<tools, convo, todo, rounds, made, steps>>
  BY DEF chat
<1>2. TypeOK
  BY DEF IInv
<1>3. _copilot_token' \in Nat /\ base' > taken' + _REFRESH_SKEW
  BY <1>1, <1>2, Typing, Numbers DEF needs_refresh
<1>4. TypeOK' /\ FlowInv'
  BY <1>1, <1>2, <1>3, StepTyping, Typing
<1>5. ConversationInOrder'
  BY <1>1 DEF IInv, ConversationInOrder
<1>6. made = 0 /\ rounds = 0
  BY <1>1 DEF IInv, RequestsCounted
<1>7. RequestsCounted'
  <2>1. CASE tools = {}
    BY <1>1, <1>6, <2>1 DEF RequestsCounted
  <2>2. CASE tools # {}
    BY <1>1, <1>6, <2>2, Numbers DEF RequestsCounted
  <2>3. QED
    BY <2>1, <2>2
<1>8. QED
  BY <1>1, <1>3, <1>4, <1>5, <1>7 DEF IInv, ChatIsFresh, RejectedOnlyLate

\* The next request of the loop, or the end of its rounds.
LEMMA InvokeStep ==
  ASSUME IInv, UNCHANGED <<now, flowVars>>, invoke PROVE IInv'
<1>1. /\ pc = "invoke" /\ pc' = IF rounds = max_tool_steps THEN "structured" ELSE "answer"
      /\ UNCHANGED <<_copilot_token, tools, base, taken, convo, todo, rounds, made, steps>>
  BY DEF invoke
<1>2. TypeOK
  BY DEF IInv
<1>3. TypeOK' /\ FlowInv'
  BY <1>1, <1>2, StepTyping, Typing
<1>4. ConversationInOrder'
  BY <1>1 DEF IInv, ConversationInOrder
<1>5. tools # {} /\ made = rounds /\ rounds <= max_tool_steps
  BY <1>1 DEF IInv, RequestsCounted
<1>6. RequestsCounted'
  <2>1. CASE rounds = max_tool_steps
    BY <1>1, <1>2, <1>5, <2>1, Typing, Numbers DEF RequestsCounted
  <2>2. CASE rounds # max_tool_steps
    BY <1>1, <1>2, <1>5, <2>2, Typing, Numbers DEF RequestsCounted
  <2>3. QED
    BY <2>1, <2>2
<1>7. QED
  BY <1>1, <1>3, <1>4, <1>6 DEF IInv, ChatIsFresh, RejectedOnlyLate

\* An answer.
LEMMA AnswerStep ==
  ASSUME IInv, UNCHANGED <<now, flowVars>>, ai_message PROVE IInv'
<1>1. pc = "answer" /\ made' = made + 1
      /\ UNCHANGED <<_copilot_token, tools, base, taken, rounds, steps>>
  BY DEF ai_message
<1>2. PICK calls \in Answers :
        /\ convo' = Append(convo, AI(calls)) /\ todo' = calls
        /\ pc' = IF calls = <<>> THEN "structured" ELSE "execute"
  BY DEF ai_message
<1>3. TypeOK /\ \A k \in 1..Len(convo) : Answered(convo, k)
  BY <1>1 DEF IInv, ConversationInOrder
<1>4. calls \in Seq(ToolCalls)
  BY MessagesOf
<1>5. tools # {} /\ made = rounds /\ rounds < max_tool_steps
  BY <1>1 DEF IInv, RequestsCounted
<1>6. /\ convo' \in Seq(Messages)
      /\ \E j \in 1..Len(convo') : InExecution(convo', calls, j)
  BY <1>2, <1>3, Typing, AnswersBegin
<1>7. calls = <<>> => /\ convo' # <<>> /\ convo'[Len(convo')] = AI(<<>>)
                      /\ \A k \in 1..Len(convo') : Answered(convo', k)
  BY <1>2, <1>3, Typing, AnswersEmpty
<1>8. TypeOK' /\ FlowInv'
  BY <1>1, <1>2, <1>3, <1>4, <1>6, StepTyping, Typing
<1>9. ConversationInOrder'
  BY <1>2, <1>6, <1>7 DEF ConversationInOrder
<1>10. RequestsCounted'
  <2>1. CASE calls = <<>>
    BY <1>1, <1>2, <1>3, <1>5, <1>7, <2>1, Typing, Numbers DEF RequestsCounted
  <2>2. CASE calls # <<>>
    BY <1>1, <1>2, <1>3, <1>5, <2>2, Typing, Numbers DEF RequestsCounted
  <2>3. QED
    BY <2>1, <2>2
<1>11. QED
  BY <1>1, <1>2, <1>8, <1>9, <1>10 DEF IInv, ChatIsFresh, RejectedOnlyLate

\* A tool call, the last of its answer or not.
LEMMA ExecuteStep ==
  ASSUME IInv, UNCHANGED <<now, flowVars>>, execute PROVE IInv'
<1>1. /\ pc = "execute" /\ convo' = Append(convo, ToolMessage(Head(todo)))
      /\ todo' = Tail(todo)
      /\ \/ todo' # <<>> /\ pc' = pc /\ rounds' = rounds
         \/ todo' = <<>> /\ pc' = "invoke" /\ rounds' = rounds + 1
      /\ UNCHANGED <<_copilot_token, tools, base, taken, made, steps>>
  BY DEF execute
<1>2. TypeOK /\ todo # <<>>
  BY <1>1 DEF IInv, ConversationInOrder
<1>3. PICK j \in 1..Len(convo) : InExecution(convo, todo, j)
  BY <1>1 DEF IInv, ConversationInOrder
<1>4. tools # {} /\ made = rounds + 1 /\ rounds < max_tool_steps
  BY <1>1 DEF IInv, RequestsCounted
<1>5. /\ convo' \in Seq(Messages) /\ j \in 1..Len(convo') /\ InExecution(convo', todo', j)
      /\ todo' = <<>> => \A k \in 1..Len(convo') : Answered(convo', k)
  BY <1>1, <1>2, <1>3, Typing, ExecutionGoesOn
<1>6. todo' \in Seq(ToolCalls)
  BY <1>1, <1>2, Typing, HeadTailProperties, EmptySeq
<1>7. rounds' \in Nat /\ pc' \in {"execute", "invoke"}
  BY <1>1, <1>2, Typing
<1>8. TypeOK' /\ FlowInv'
  BY <1>1, <1>2, <1>5, <1>6, <1>7, StepTyping, Typing
<1>9. ConversationInOrder'
  BY <1>1, <1>5 DEF ConversationInOrder
<1>10. RequestsCounted'
  BY <1>1, <1>2, <1>4, <1>7, Typing, Numbers DEF RequestsCounted
<1>11. QED
  BY <1>1, <1>7, <1>8, <1>9, <1>10 DEF IInv, ChatIsFresh, RejectedOnlyLate

\* The request for the structured result.
LEMMA StructuredStep ==
  ASSUME IInv, UNCHANGED <<now, flowVars>>, structured PROVE IInv'
<1>1. /\ pc = "structured" /\ pc' = "result"
      /\ UNCHANGED <<_copilot_token, tools, base, taken, convo, todo, rounds, made, steps>>
  BY DEF structured
<1>2. TypeOK' /\ FlowInv'
  <2>1. TypeOK
    BY DEF IInv
  <2>2. QED
    BY <1>1, <2>1, StepTyping, Typing
<1>3. ConversationInOrder'
  BY <1>1 DEF IInv, ConversationInOrder
<1>4. QED
  BY <1>1, <1>2, <1>3 DEF IInv, RequestsCounted, ChatIsFresh, RejectedOnlyLate

\* A rejected token had outlasted the skew when its chat was taken.
LEMMA RejectedStep ==
  ASSUME IInv, UNCHANGED <<now, flowVars>>, rejected PROVE IInv'
<1>1. pc \in {"structured", "invoke"} /\ now >= base /\ Leave("rejected")
  BY DEF rejected
<1>2. TypeOK /\ base > taken + _REFRESH_SKEW
  BY <1>1 DEF IInv, ChatIsFresh
<1>3. now > taken + _REFRESH_SKEW
  BY <1>1, <1>2, Typing, Numbers
<1>4. QED
  BY <1>1, <1>3, LeaveStep

\* The clock: a rejection stays a late one.
LEMMA TickStep ==
  ASSUME IInv, Tick PROVE IInv'
<1>1. /\ now' = now + 1 /\ UNCHANGED flowVars /\ FlowLetsTimePass
      /\ UNCHANGED <<_copilot_token, pc, tools, base, taken, convo, todo, rounds, made, steps>>
  BY DEF Tick, stepVars
<1>2. TypeOK /\ FlowInv
  BY DEF IInv
<1>3. FlowInv'
  BY <1>1, <1>2, FlowWaits
<1>4. TypeOK'
  BY <1>1, <1>2, <1>3 DEF TypeOK, FlowInv
<1>5. RejectedOnlyLate'
  BY <1>1, <1>2, Typing, Numbers DEF IInv, RejectedOnlyLate
<1>6. QED
  BY <1>1, <1>3, <1>4, <1>5 DEF IInv, ConversationInOrder, RequestsCounted, ChatIsFresh

\* A login, between two steps.
LEMMA LoginStep ==
  ASSUME IInv, FlowNext, UNCHANGED stepVars PROVE IInv'
<1>1. UNCHANGED <<_copilot_token, pc, tools, base, taken, convo, todo, rounds, made, steps>>
  BY DEF stepVars
<1>2. TypeOK /\ FlowInv
  BY DEF IInv
<1>3. FlowInv'
  BY <1>2, FlowSteps
<1>4. now' = now
  BY DEF FlowNext, start_device_flow, check, poll_device_flow, login_device_flow,
         user_authorizes
<1>5. TypeOK'
  BY <1>1, <1>2, <1>3 DEF TypeOK, FlowInv
<1>6. QED
  BY <1>1, <1>3, <1>4, <1>5
     DEF IInv, ConversationInOrder, RequestsCounted, ChatIsFresh, RejectedOnlyLate

\* Every step keeps the invariant.
LEMMA NextInv ==
  ASSUME IInv, [Next]_vars PROVE IInv'
<1>1. CASE Tick
  BY <1>1, TickStep
<1>2. CASE FlowNext /\ UNCHANGED stepVars
  BY <1>2, LoginStep
<1>3. CASE StepNext /\ UNCHANGED <<now, flowVars>>
  <2>1. CASE list_tools
    BY <1>3, <2>1, BeginStep
  <2>2. CASE chat
    BY <1>3, <2>2, ChatStep
  <2>3. CASE chat_raises
    BY <1>3, <2>3, LeaveStep DEF chat_raises
  <2>4. CASE invoke
    BY <1>3, <2>4, InvokeStep
  <2>5. CASE ai_message
    BY <1>3, <2>5, AnswerStep
  <2>6. CASE execute
    BY <1>3, <2>6, ExecuteStep
  <2>7. CASE structured
    BY <1>3, <2>7, StructuredStep
  <2>8. CASE rejected
    BY <1>3, <2>8, RejectedStep
  <2>9. CASE result
    BY <1>3, <2>9, LeaveStep DEF result
  <2>10. CASE llm_raises
    BY <1>3, <2>10, LeaveStep DEF llm_raises
  <2>11. QED
    BY <1>3, <2>1, <2>2, <2>3, <2>4, <2>5, <2>6, <2>7, <2>8, <2>9, <2>10 DEF StepNext
<1>4. CASE UNCHANGED vars
  <2>1. UNCHANGED <<now, flowVars, stepVars>>
    BY <1>4 DEF vars
  <2>2. FlowInv' /\ UNCHANGED <<now, _copilot_token, pc, tools, base, taken, convo, todo, rounds,
                                made, steps>>
    BY <2>1, FlowStays DEF IInv, stepVars
  <2>3. TypeOK'
    BY <2>2 DEF IInv, TypeOK, FlowInv
  <2>4. QED
    BY <2>2, <2>3
       DEF IInv, ConversationInOrder, RequestsCounted, ChatIsFresh, RejectedOnlyLate
<1>5. QED
  BY <1>1, <1>2, <1>3, <1>4 DEF Next, Quiet

-----------------------------------------------------------------------------
\* In every reachable state the types are right, every tool call is answered or its turn
\* is still to come, the answers are as many as the rounds, and the chat began with a
\* token that outlasts the refresh skew.
THEOREM Invariance == Spec => []IInv
<1>1. Init => IInv
  BY InitInv
<1>2. IInv /\ [Next]_vars => IInv'
  BY NextInv
<1>3. QED
  BY <1>1, <1>2, PTL DEF Spec

\* Whenever the LLM is asked, every earlier tool call has exactly one result, in its
\* place, however many calls and rounds there were and whichever tools failed.
THEOREM EveryCallAnswered == Spec => []CallsAnswered
<1>1. IInv => CallsAnswered
  BY DEF IInv, ConversationInOrder, CallsAnswered, Asking
<1>2. QED
  BY <1>1, Invariance, PTL

\* One recorded call is at most max_tool_steps + 1 requests; the last answer before the
\* result called no tool, unless the steps were used up.
THEOREM RequestsAreBounded == Spec => []RequestsBounded
<1>1. IInv => RequestsBounded
  <2>1. SUFFICES ASSUME IInv PROVE RequestsBounded
    OBVIOUS
  <2>2. TypeOK /\ RequestsCounted
    BY <2>1 DEF IInv
  <2>3. /\ rounds \in Nat /\ made \in Nat /\ max_tool_steps \in Nat
        /\ pc \in {"idle", "chat", "invoke", "answer", "execute", "structured", "result",
                   "raised", "rejected"}
    BY <2>2, Typing, Numbers DEF TypeOK
  <2>4. made + 1 <= IF tools = {} THEN 1 ELSE max_tool_steps + 1
    <3>1. CASE pc \in {"idle", "chat", "raised", "rejected"}
      BY <2>2, <2>3, <3>1 DEF RequestsCounted
    <3>2. CASE pc \in {"invoke", "answer", "execute"}
      BY <2>2, <2>3, <3>2 DEF RequestsCounted
    <3>3. CASE pc \in {"structured", "result"}
      BY <2>2, <2>3, <3>3 DEF RequestsCounted
    <3>4. QED
      BY <2>3, <3>1, <3>2, <3>3
  <2>5. QED
    BY <2>2, <2>4 DEF RequestsBounded, RequestsCounted
<1>2. QED
  BY <1>1, Invariance, PTL

\* A request is rejected only in a step that has outlasted the refresh skew.
THEOREM RejectionIsLate == Spec => []RejectedOnlyLate
<1>1. IInv => RejectedOnlyLate
  BY DEF IInv
<1>2. QED
  BY <1>1, Invariance, PTL

\* The device flow outlasts its deadline by less than one round.
THEOREM FlowIsTimely == Spec => []FlowEnds
<1>1. IInv => FlowEnds
  <2>1. SUFFICES ASSUME IInv PROVE FlowEnds
    OBVIOUS
  <2>2. FlowInv /\ TypeOK
    BY <2>1 DEF IInv
  <2>3. now \in Nat /\ began \in Nat /\ until \in Nat
    BY <2>2, FlowTyping DEF TypeOK
  <2>4. CASE flow = "sleep"
    BY <2>2, <2>3, <2>4, Numbers DEF FlowInv, FlowEnds, Polling, Round
  <2>5. CASE flow = "poll"
    BY <2>2, <2>3, <2>5, Numbers DEF FlowInv, FlowEnds, Polling, Round
  <2>6. CASE flow \notin Polling
    BY <2>6 DEF FlowEnds
  <2>7. QED
    BY <2>4, <2>5, <2>6 DEF Polling
<1>2. QED
  BY <1>1, Invariance, PTL

\* Only a code entered in the last round may go unseen, or one that GitHub put off.
THEOREM AuthorizationIsSeen == Spec => []AuthorizedIsSeen
<1>1. IInv => AuthorizedIsSeen
  BY DEF IInv, FlowInv
<1>2. QED
  BY <1>1, Invariance, PTL
=============================================================================
