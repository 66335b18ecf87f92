------------------------------ MODULE LlmStep ------------------------------
(***************************************************************************)
(* What a node of the dev orchestrator does to ask the LLM: list the tools *)
(* of the MCP servers (analyze and implement), take a chat bound to a      *)
(* valid Copilot token, run the function-calling loop with it, and ask for *)
(* the structured result (GitHubCopilotLLM._structured, run_tool_loop).    *)
(*                                                                         *)
(* One thread takes these steps, after a login through DeviceFlow or with  *)
(* a token from the environment; CopilotToken has the races of several     *)
(* threads, and the exchange of a token, which takes no time here.  A      *)
(* token is the moment it expires.  The LLM and the tools are external and *)
(* may take any time; Copilot looks at the token when a request is sent.   *)
(***************************************************************************)
EXTENDS DeviceFlow, Sequences

CONSTANTS
  Tools,            \* the tools the MCP servers offer, none if none is configured
  Unknown,          \* a name the LLM may call although no tool has it
  max_tool_steps,   \* DevOrchestratorConfig
  Lifetime, _REFRESH_SKEW,   \* of a token; how early it is replaced
  MaxCalls, MaxSteps, MaxTime   \* bounds: tool calls of an answer, steps, the clock

ASSUME StepConstants ==
  /\ {max_tool_steps, Lifetime, _REFRESH_SKEW, MaxCalls, MaxSteps, MaxTime} \subseteq Nat
  /\ _REFRESH_SKEW < Lifetime
  /\ Unknown \notin Tools

VARIABLES
  _copilot_token,  \* the provider's token; 0 is None
  pc,
  tools,           \* the tools bound to the chat of this step
  base, taken,     \* the token of its chat, and when it was taken
  convo,           \* the conversation after the prompt
  todo,            \* the tool calls of the last answer not yet executed
  rounds,          \* iterations of run_tool_loop
  made,            \* requests of this step that the LLM answered
  steps            \* steps begun

stepVars == <<_copilot_token, pc, tools, base, taken, convo, todo, rounds, made, steps>>
vars == <<now, flowVars, stepVars>>

\* A tool call names a tool and has an id, or none.
NoId      == 0
ToolCalls == [name : Tools \cup {Unknown}, id : 0..MaxCalls]

\* What the bound chat may answer: tool calls whose ids tell them apart, or without ids.
Answers ==
  {s \in UNION {[1..n -> ToolCalls] : n \in 0..MaxCalls} :
     \/ \A i \in DOMAIN s : s[i].id = NoId
     \/ \A i \in DOMAIN s : s[i].id = i}

\* (slip: the name does not stand in for a missing id)
call_id_missing(call) == call.id

call_id(call) == IF call.id = NoId THEN call.name ELSE call.id

AI(calls)         == [kind |-> "ai", calls |-> calls]
ToolMessage(call) == [kind |-> "tool", tool_call_id |-> call_id(call)]

Messages == [kind : {"ai"}, calls : Answers]
  \cup [kind : {"tool"}, tool_call_id : Tools \cup {Unknown} \cup 1..MaxCalls]

Init ==
  /\ FlowInit
  /\ _copilot_token = 0
  /\ pc = "idle" /\ tools = {} /\ base = 0 /\ taken = 0
  /\ convo = <<>> /\ todo = <<>> /\ rounds = 0 /\ made = 0 /\ steps = 0

\* The step returns or raises.
Leave(how) ==
  /\ pc' = how
  /\ tools' = {} /\ convo' = <<>> /\ todo' = <<>> /\ rounds' = 0 /\ made' = 0
  /\ UNCHANGED <<_copilot_token, base, taken, steps>>

-----------------------------------------------------------------------------
(* The node, and the head of _structured(). *)

\* analyze and implement list the tools; plan, review_solid and reflect do not.
list_tools ==
  /\ pc \in {"idle", "raised", "rejected"} /\ flow = "none" /\ steps < MaxSteps
  /\ tools' \in {{}, Tools}
  /\ pc' = "chat" /\ steps' = steps + 1
  /\ UNCHANGED <<_copilot_token, base, taken, convo, todo, rounds, made>>

\* (slip: a token is replaced once it has expired)
needs_refresh_late == _copilot_token = 0 \/ now >= _copilot_token

needs_refresh == _copilot_token = 0 \/ now + _REFRESH_SKEW >= _copilot_token

\* get_token() and chat(): the token is exchanged if need be, the chat is
\* rebuilt around it if it is a new one.
chat ==
  /\ pc = "chat"
  /\ needs_refresh => _oauth_token
  /\ _copilot_token' = IF needs_refresh THEN now + Lifetime ELSE _copilot_token
  /\ base' = _copilot_token' /\ taken' = now
  /\ pc' = IF tools = {} THEN "structured" ELSE "invoke"
  /\ UNCHANGED <<tools, convo, todo, rounds, made, steps>>

\* An MCP server cannot be reached; no OAuth token; the exchange fails.
chat_raises ==
  /\ pc = "chat"
  /\ tools # {} \/ needs_refresh
  /\ Leave("raised")

-----------------------------------------------------------------------------
(* run_tool_loop(), and the tail of _structured(). *)

\* (slip: one iteration too many)
invoke_late ==
  /\ pc = "invoke" /\ (rounds > max_tool_steps \/ now < base)
  /\ pc' = IF rounds > max_tool_steps THEN "structured" ELSE "answer"
  /\ UNCHANGED <<_copilot_token, tools, base, taken, convo, todo, rounds, made, steps>>

\* chat.invoke(convo): the request is sent, unless the steps are used up ...
invoke ==
  /\ pc = "invoke" /\ (rounds = max_tool_steps \/ now < base)
  /\ pc' = IF rounds = max_tool_steps THEN "structured" ELSE "answer"
  /\ UNCHANGED <<_copilot_token, tools, base, taken, convo, todo, rounds, made, steps>>

\* ... and answered.
ai_message ==
  /\ pc = "answer"
  /\ \E calls \in Answers :
       /\ convo' = Append(convo, AI(calls))
       /\ todo' = calls
       /\ pc' = IF calls = <<>> THEN "structured" ELSE "execute"
  /\ made' = made + 1
  /\ UNCHANGED <<_copilot_token, tools, base, taken, rounds, steps>>

\* (slip: the loop goes on to the next answer when a tool fails)
execute_first ==
  /\ pc = "execute"
  /\ convo' = Append(convo, ToolMessage(Head(todo)))
  /\ todo' = IF Head(todo).name \in tools THEN Tail(todo) ELSE <<>>
  /\ \/ todo' # <<>> /\ UNCHANGED <<pc, rounds>>
     \/ todo' = <<>> /\ pc' = "invoke" /\ rounds' = rounds + 1
  /\ UNCHANGED <<_copilot_token, tools, base, taken, made, steps>>

\* The next tool call is executed: with a result, or with an error, which an
\* unknown name and a tool that raises become.
execute ==
  /\ pc = "execute"
  /\ convo' = Append(convo, ToolMessage(Head(todo)))
  /\ todo' = Tail(todo)
  /\ \/ todo' # <<>> /\ UNCHANGED <<pc, rounds>>
     \/ todo' = <<>> /\ pc' = "invoke" /\ rounds' = rounds + 1
  /\ UNCHANGED <<_copilot_token, tools, base, taken, made, steps>>

\* base.with_structured_output(schema).invoke(messages)
structured ==
  /\ pc = "structured" /\ now < base
  /\ pc' = "result"
  /\ UNCHANGED <<_copilot_token, tools, base, taken, convo, todo, rounds, made, steps>>

\* (slip: the request is sent again, with the chat that was rejected)
rejected_retried ==
  /\ pc = "structured" \/ (pc = "invoke" /\ rounds < max_tool_steps)
  /\ now >= base
  /\ UNCHANGED stepVars

\* Copilot refuses a request whose token has expired; the client raises.
rejected ==
  /\ pc = "structured" \/ (pc = "invoke" /\ rounds < max_tool_steps)
  /\ now >= base
  /\ Leave("rejected")

result == pc = "result" /\ Leave("idle")

\* The LLM cannot be reached, or its result does not fit the schema.
llm_raises == pc \in {"answer", "result"} /\ Leave("raised")

-----------------------------------------------------------------------------
\* Time passes while something external is waited for.
Tick ==
  /\ now < MaxTime
  /\ FlowLetsTimePass
  /\ pc \notin {"invoke", "structured"}
  /\ now' = now + 1
  /\ UNCHANGED <<flowVars, stepVars>>

StepNext ==
  \/ list_tools \/ chat \/ chat_raises \/ invoke \/ ai_message \/ execute
  \/ structured \/ rejected \/ result \/ llm_raises

\* The session is over, or the clock has reached its bound.
Quiet == (steps = MaxSteps \/ now = MaxTime) /\ UNCHANGED vars

Next ==
  \/ Tick
  \/ FlowNext /\ pc \in {"idle", "raised", "rejected"} /\ UNCHANGED stepVars
  \/ StepNext /\ UNCHANGED <<now, flowVars>>
  \/ Quiet

Spec == Init /\ [][Next]_vars

\* Copilot and GitHub answer or the HTTP client gives up; a tool has no timeout.
FairSpec ==
  /\ Spec
  /\ WF_vars((chat \/ chat_raises \/ invoke \/ ai_message \/ structured \/ rejected
                \/ result \/ llm_raises) /\ UNCHANGED <<now, flowVars>>)
-----------------------------------------------------------------------------
(* Properties. *)

\* The types; a tool message always has an id, the name if the LLM gave none.
TypeOK ==
  /\ FlowTypeOK
  /\ {_copilot_token, base, taken, rounds, made, steps} \subseteq Nat
  /\ pc \in {"idle", "chat", "invoke", "answer", "execute", "structured", "result",
             "raised", "rejected"}
  /\ tools \in {{}, Tools}
  /\ todo \in Seq(ToolCalls)
  /\ convo \in Seq(Messages)

Asking == pc \in {"invoke", "answer", "structured", "result"}

\* The kth message of a conversation is an answer whose tool calls have been executed
\* since, or the result of the tool call whose turn it was.
Answered(c, k) ==
  \/ c[k].kind = "ai" /\ Len(c) >= k + Len(c[k].calls)
  \/ \E i \in 1..(k - 1) :
       /\ c[i].kind = "ai" /\ k - i \in DOMAIN c[i].calls
       /\ c[k] = ToolMessage(c[i].calls[k - i])

\* Whenever the LLM is asked, each of its earlier answers is followed by exactly
\* one result for each tool call, in their order, and no result stands elsewhere,
\* whatever tools fail or are unknown (run_tool_loop).
CallsAnswered ==
  Asking => \A k \in 1..Len(convo) : Answered(convo, k)

\* What record_llm_call counts as one call is one call without tools, and at most
\* max_tool_steps + 1 with tools; the last answer before the result called no tool,
\* unless the steps were used up (_structured, config.py:57).
RequestsBounded ==
  /\ made + 1 <= IF tools = {} THEN 1 ELSE max_tool_steps + 1
  /\ pc = "result" /\ rounds < max_tool_steps /\ tools # {} =>
       convo[Len(convo)] = AI(<<>>)

\* The chat is taken once for the whole step, so that its token may expire in the
\* loop: Copilot rejects a request only if the step has lasted longer than the
\* refresh skew (_structured, dev_llm.py:119; get_token).
RejectedOnlyLate == pc = "rejected" => now > taken + _REFRESH_SKEW

\* A step returns or raises, unless it waits for a tool for ever: nothing but a
\* tool can keep a run from its routers, where the time is looked at.
StepsEnd == [](pc = "chat" => <>(pc \in {"idle", "raised", "rejected"} \/ [](pc = "execute")))
-----------------------------------------------------------------------------
(* Why they hold. *)

\* All calls are answered but those of one answer, the jth message: the messages after
\* it are the results of the first of them, the rest is still to do.
InExecution(c, calls, j) ==
  /\ c[j].kind = "ai"
  /\ Len(c) + Len(calls) = j + Len(c[j].calls)
  /\ \A i \in 1..Len(calls) : calls[i] = c[j].calls[i + Len(c) - j]
  /\ \A k \in 1..Len(c) : k # j => Answered(c, k)

ConversationInOrder ==
  IF pc = "execute"
    THEN todo # <<>> /\ \E j \in 1..Len(convo) : InExecution(convo, todo, j)
    ELSE \A k \in 1..Len(convo) : Answered(convo, k)

\* The answers are as many as the rounds, one more while the tools run; a
\* structured result is asked for after the last round, or when no tool was called.
RequestsCounted ==
  /\ pc \in {"idle", "chat", "raised", "rejected"} => made = 0 /\ rounds = 0
  /\ pc \in {"invoke", "answer"} => tools # {} /\ made = rounds /\ rounds <= max_tool_steps
  /\ pc = "answer" => rounds < max_tool_steps
  /\ pc = "execute" => tools # {} /\ made = rounds + 1 /\ rounds < max_tool_steps
  /\ pc \in {"structured", "result"} =>
       /\ made <= IF tools = {} THEN 0 ELSE max_tool_steps
       /\ rounds < max_tool_steps /\ tools # {} =>
            convo # <<>> /\ convo[Len(convo)] = AI(<<>>)

\* A step starts with a token that outlasts the refresh skew.
ChatIsFresh ==
  pc \in {"invoke", "answer", "execute", "structured", "result"} => base > taken + _REFRESH_SKEW

IInv ==
  /\ TypeOK
  /\ FlowInv
  /\ ConversationInOrder
  /\ RequestsCounted
  /\ ChatIsFresh
  /\ RejectedOnlyLate
=============================================================================
