--------------------------- MODULE CopilotToken ---------------------------
(***************************************************************************)
(* The Copilot token and the chat object built on it, shared by all the    *)
(* threads that serve requests: GitHubCopilotTokenProvider (get_token,     *)
(* _exchange) and CopilotChatFactory (chat).  Nothing is locked, so every  *)
(* read and every write of a shared attribute is a step of its own.        *)
(*                                                                         *)
(* A token is its number in the order GitHub issued them.  One unit of     *)
(* time is the 30 s timeout of the HTTP client; the model assumes that a   *)
(* call of chat() takes at most Patience units from its look at the clock, *)
(* and that GitHub's tokens outlive two such calls.                        *)
(***************************************************************************)
EXTENDS Naturals, Sequences

CONSTANTS
  Threads,
  Lifetime,         \* of a Copilot token
  _REFRESH_SKEW,    \* how long before it expires a token is replaced
  Patience,         \* how long a call of chat() may take
  MaxTime, MaxTokens   \* bounds: the clock, the tokens GitHub issues

ASSUME TokenConstants ==
  /\ {Lifetime, _REFRESH_SKEW, Patience, MaxTime, MaxTokens} \subseteq Nat
  /\ _REFRESH_SKEW >= 3 * Patience
  /\ Lifetime > 2 * Patience

VARIABLES
  now,
  issued,                       \* when each token expires
  _copilot_token, _expires_at,  \* the provider's attributes; token 0 is None
  _chat, _cached_token,         \* the factory's; a chat is the token it carries
  pc, since, token              \* each thread: where it is, since when, with which token

vars == <<now, issued, _copilot_token, _expires_at, _chat, _cached_token,
          pc, since, token>>
provider == <<_copilot_token, _expires_at>>
factory  == <<_chat, _cached_token>>

PCs == {"idle", "exchange", "store_token", "store_expiry", "return", "compare",
        "build", "cache", "use"}

Init ==
  /\ now = 0 /\ issued = <<>>
  /\ _copilot_token = 0 /\ _expires_at = 0
  /\ _chat = 0 /\ _cached_token = 0
  /\ pc = [t \in Threads |-> "idle"]
  /\ since = [t \in Threads |-> 0]
  /\ token = [t \in Threads |-> 0]

Goto(t, label) == pc' = [pc EXCEPT ![t] = label]

\* The call returns or raises; its locals go with it.
Leave(t) ==
  /\ Goto(t, "idle")
  /\ since' = [since EXCEPT ![t] = 0]
  /\ token' = [token EXCEPT ![t] = 0]

-----------------------------------------------------------------------------
(* get_token() *)

\* (slip: the token is used up to its last second)
needs_refresh_late == _copilot_token = 0 \/ now >= _expires_at

needs_refresh == _copilot_token = 0 \/ now + _REFRESH_SKEW >= _expires_at

get_token(t) ==
  /\ pc[t] = "idle"
  /\ Goto(t, IF needs_refresh THEN "exchange" ELSE "return")
  /\ since' = [since EXCEPT ![t] = now]
  /\ UNCHANGED <<now, issued, provider, factory, token>>

\* GitHub answers the exchange with a new token ...
_exchange(t) ==
  /\ pc[t] = "exchange"
  /\ Len(issued) < MaxTokens
  /\ issued' = Append(issued, now + Lifetime)
  /\ token' = [token EXCEPT ![t] = Len(issued) + 1]
  /\ Goto(t, "store_token")
  /\ UNCHANGED <<now, provider, factory, since>>

\* (slip: the failure is logged, not raised)
_exchange_swallowed(t) ==
  /\ pc[t] = "exchange"
  /\ Goto(t, "return")
  /\ UNCHANGED <<now, issued, provider, factory, since, token>>

\* (or it does not: the call raises)
_exchange_raises(t) ==
  /\ pc[t] = "exchange"
  /\ Leave(t)
  /\ UNCHANGED <<now, issued, provider, factory>>

\* ... which is stored ...
store_token(t) ==
  /\ pc[t] = "store_token"
  /\ _copilot_token' = token[t]
  /\ Goto(t, "store_expiry")
  /\ UNCHANGED <<now, issued, _expires_at, factory, since, token>>

\* (slip: the lifetime is stored instead of the moment)
store_expiry_ahead(t) ==
  /\ pc[t] = "store_expiry"
  /\ _expires_at' = issued[token[t]] + Lifetime
  /\ Goto(t, "return")
  /\ UNCHANGED <<now, issued, _copilot_token, factory, since, token>>

\* ... and then its expiry, as GitHub gave it or else counted from now.
store_expiry(t) ==
  /\ pc[t] = "store_expiry"
  /\ _expires_at' \in {issued[token[t]], now + Lifetime}
  /\ Goto(t, "return")
  /\ UNCHANGED <<now, issued, _copilot_token, factory, since, token>>

\* The token that is returned is whatever the provider holds by now.
return_token(t) ==
  /\ pc[t] = "return"
  /\ token' = [token EXCEPT ![t] = _copilot_token]
  /\ Goto(t, "compare")
  /\ UNCHANGED <<now, issued, provider, factory, since>>

-----------------------------------------------------------------------------
(* chat() *)

compare(t) ==
  /\ pc[t] = "compare"
  /\ Goto(t, IF _chat = 0 \/ token[t] # _cached_token THEN "build" ELSE "use")
  /\ UNCHANGED <<now, issued, provider, factory, since, token>>

\* (slip: the chat is built with the token of the last one)
build_cached(t) ==
  /\ pc[t] = "build"
  /\ _chat' = IF _cached_token = 0 THEN token[t] ELSE _cached_token
  /\ Goto(t, "cache")
  /\ UNCHANGED <<now, issued, provider, _cached_token, since, token>>

build(t) ==
  /\ pc[t] = "build"
  /\ _chat' = token[t]
  /\ Goto(t, "cache")
  /\ UNCHANGED <<now, issued, provider, _cached_token, since, token>>

cache(t) ==
  /\ pc[t] = "cache"
  /\ _cached_token' = token[t]
  /\ Goto(t, "use")
  /\ UNCHANGED <<now, issued, provider, _chat, since, token>>

\* The caller sends its request with whatever chat the factory holds by now.
use(t) ==
  /\ pc[t] = "use"
  /\ Leave(t)
  /\ UNCHANGED <<now, issued, provider, factory>>

-----------------------------------------------------------------------------
Tick ==
  /\ now < MaxTime
  /\ \A t \in Threads : pc[t] # "idle" => now < since[t] + Patience
  /\ now' = now + 1
  /\ UNCHANGED <<issued, provider, factory, pc, since, token>>

Next ==
  \/ Tick
  \/ \E t \in Threads :
       \/ get_token(t) \/ _exchange(t) \/ _exchange_raises(t)
       \/ store_token(t) \/ store_expiry(t) \/ return_token(t)
       \/ compare(t) \/ build(t) \/ cache(t) \/ use(t)

Spec == Init /\ [][Next]_vars

-----------------------------------------------------------------------------
(* Properties. *)

\* Every attribute stays in its domain, a token is one that was issued, and what
\* get_token returns is one (its assert, copilot.py:166).
TypeOK ==
  /\ now \in Nat /\ issued \in Seq(Nat)
  /\ {_copilot_token, _chat, _cached_token} \subseteq 0..Len(issued)
  /\ _expires_at \in Nat
  /\ pc \in [Threads -> PCs]
  /\ since \in [Threads -> Nat]
  /\ token \in [Threads -> 0..Len(issued)]
  /\ \A t \in Threads : pc[t] \in {"compare", "build", "cache", "use"} => token[t] # 0

Valid(k) == k # 0 /\ now < issued[k]

\* Two exchanges may overlap and leave the token of one with the expiry of the
\* other; still, no token that get_token returns has expired (copilot.py:163).
ReturnedIsValid == \A t \in Threads : pc[t] = "compare" => Valid(token[t])

\* A chat is never rebuilt around a token that has expired (copilot.py:200).
BuiltValid == [][_chat' # _chat => Valid(_chat')]_vars

\* The expiry the provider trusts is never off by more than the length of two calls,
\* not even between the writes of the token and of its expiry (copilot.py:160).
DriftBounded ==
  _copilot_token # 0 => _expires_at <= issued[_copilot_token] + 2 * Patience

-----------------------------------------------------------------------------
(* Why they hold: whatever a thread has in its hands expires later than the  *)
(* call that holds it can last.                                              *)

\* A call is as long as Patience allows.
Timely == \A t \in Threads : pc[t] # "idle" => since[t] <= now /\ now <= since[t] + Patience

\* Nobody believes in an expiry that is further away than a new token's.
NoneBeyondLifetime ==
  /\ \A k \in 1..Len(issued) : issued[k] <= now + Lifetime
  /\ _expires_at <= now + Lifetime

\* A thread that exchanged has a token issued since its call began; once it has stored
\* it, the provider holds this token or one that is hardly older.
ExchangedIsNew ==
  \A t \in Threads :
    /\ pc[t] \in {"store_token", "store_expiry"} =>
         token[t] # 0 /\ issued[token[t]] >= since[t] + Lifetime
    /\ pc[t] = "store_expiry" =>
         _copilot_token # 0 /\ issued[_copilot_token] + Patience >= since[t] + Lifetime

\* What the provider holds when a thread is about to return it, and what the thread
\* has returned, outlasts its call.
OutlastsCall ==
  \A t \in Threads :
    /\ pc[t] = "return" =>
         _copilot_token # 0 /\ issued[_copilot_token] > since[t] + Patience
    /\ pc[t] \in {"compare", "build", "cache"} =>
         token[t] # 0 /\ issued[token[t]] > since[t] + Patience

IInv ==
  /\ TypeOK
  /\ Timely
  /\ NoneBeyondLifetime
  /\ ExchangedIsNew
  /\ OutlastsCall
  /\ DriftBounded

-----------------------------------------------------------------------------
\* "Builds a ChatOpenAI bound to Copilot, rotating with the token"
\* (copilot.py:171): when a call would be given the recorded token, without a
\* refresh, the chat it would be given carries a token that has not expired.
ChatRotates ==
  (\A t \in Threads : pc[t] = "idle") /\ ~needs_refresh /\ _cached_token = _copilot_token
    => Valid(_chat)
=============================================================================
