------------------------- MODULE CopilotTokenProofs -------------------------
(***************************************************************************)
(* Proofs about CopilotToken, for any number of threads, any clock and any *)
(* refresh skew of at least three calls.                                   *)
(***************************************************************************)
EXTENDS CopilotToken, TLAPS

\* The constants, each by itself.
LEMMA Numbers ==
  /\ Lifetime \in Nat /\ _REFRESH_SKEW \in Nat /\ Patience \in Nat
  /\ _REFRESH_SKEW >= 3 * Patience /\ Lifetime > 2 * Patience
  BY TokenConstants

\* What is known of the issued tokens and of a thread.
LEMMA Typing ==
  ASSUME TypeOK
  PROVE  /\ now \in Nat /\ _expires_at \in Nat /\ Len(issued) \in Nat
         /\ _copilot_token \in 0..Len(issued)
         /\ \A k \in 1..Len(issued) : issued[k] \in Nat
         /\ \A t \in Threads : /\ since[t] \in Nat /\ token[t] \in 0..Len(issued)
                               /\ pc[t] \in PCs
  BY DEF TypeOK

\* The steps that issue no token and write no attribute: one thread moves on, which
\* keeps its call as long as it was.
LEMMA ThreadMoves ==
  ASSUME IInv, NEW t \in Threads, NEW to \in PCs, NEW k \in 0..Len(issued),
         pc[t] # "idle", pc' = [pc EXCEPT ![t] = to],
         token' = [token EXCEPT ![t] = k],
         UNCHANGED <<now, issued, provider, since>>,
         {_chat', _cached_token'} \subseteq 0..Len(issued),
         to \notin {"store_token", "store_expiry", "return"},
         to \in {"compare", "build", "cache", "use"} => k # 0,
         to \in {"compare", "build", "cache"} => issued[k] > since[t] + Patience
  PROVE  IInv'
<1>1. UNCHANGED <<now, issued, _copilot_token, _expires_at, since>>
  BY DEF provider
<1>2. /\ pc \in [Threads -> PCs] /\ token \in [Threads -> 0..Len(issued)]
      /\ \A u \in Threads \ {t} : pc'[u] = pc[u] /\ token'[u] = token[u]
      /\ pc'[t] = to /\ token'[t] = k
  BY DEF IInv, TypeOK
<1>3. TypeOK'
  BY <1>1, <1>2 DEF IInv, TypeOK
<1>4. Timely' /\ NoneBeyondLifetime' /\ DriftBounded'
  BY <1>1, <1>2 DEF IInv, Timely, NoneBeyondLifetime, DriftBounded
<1>5. ExchangedIsNew' /\ OutlastsCall'
  BY <1>1, <1>2 DEF IInv, ExchangedIsNew, OutlastsCall
<1>6. QED
  BY <1>3, <1>4, <1>5 DEF IInv

\* A call that returns or raises holds nothing any more.
LEMMA CallLeaves ==
  ASSUME IInv, NEW t \in Threads, Leave(t), UNCHANGED <<now, issued, provider, factory>>
  PROVE  IInv'
<1>1. /\ UNCHANGED <<now, issued, _copilot_token, _expires_at, _chat, _cached_token>>
      /\ pc' = [pc EXCEPT ![t] = "idle"]
      /\ since' = [since EXCEPT ![t] = 0] /\ token' = [token EXCEPT ![t] = 0]
  BY DEF provider, factory, Leave, Goto
<1>2. /\ pc'[t] = "idle"
      /\ \A u \in Threads \ {t} : pc'[u] = pc[u] /\ token'[u] = token[u] /\ since'[u] = since[u]
  BY <1>1 DEF IInv, TypeOK
<1>3. TypeOK'
  BY <1>1, <1>2, Typing DEF IInv, TypeOK, PCs
<1>4. Timely' /\ NoneBeyondLifetime' /\ DriftBounded' /\ ExchangedIsNew' /\ OutlastsCall'
  BY <1>1, <1>2 DEF IInv, Timely, NoneBeyondLifetime, DriftBounded, ExchangedIsNew, OutlastsCall
<1>5. QED
  BY <1>3, <1>4 DEF IInv

\* A call begins.  If it finds no need for a refresh, the token outlasts it in
\* spite of the drift: this is what the skew is for.
LEMMA CallBegins ==
  ASSUME IInv, NEW t \in Threads, get_token(t)
  PROVE  IInv'
<1> DEFINE to == IF needs_refresh THEN "exchange" ELSE "return"
<1>1. /\ UNCHANGED <<now, issued, _copilot_token, _expires_at, _chat, _cached_token, token>>
      /\ pc[t] = "idle" /\ pc' = [pc EXCEPT ![t] = to]
      /\ since' = [since EXCEPT ![t] = now]
  BY DEF get_token, provider, factory, Goto
<1>2. to \in {"exchange", "return"}
  OBVIOUS
<1>3. to = "return" => _copilot_token # 0 /\ issued[_copilot_token] > now + Patience
  <2>1. SUFFICES ASSUME ~needs_refresh
                 PROVE  _copilot_token # 0 /\ issued[_copilot_token] > now + Patience
    OBVIOUS
  <2>2. _copilot_token # 0 /\ ~(now + _REFRESH_SKEW >= _expires_at)
    BY <2>1 DEF needs_refresh
  <2>3. _expires_at <= issued[_copilot_token] + 2 * Patience
    BY <2>2 DEF IInv, DriftBounded
  <2>4. _copilot_token \in 1..Len(issued) /\ issued[_copilot_token] \in Nat
    BY <2>2, Typing DEF IInv
  <2>5. QED
    BY <2>2, <2>3, <2>4, Numbers, Typing DEF IInv
<1> HIDE DEF to
<1>4. /\ pc'[t] = to /\ since'[t] = now
      /\ \A u \in Threads \ {t} : pc'[u] = pc[u] /\ since'[u] = since[u]
  BY <1>1 DEF IInv, TypeOK
<1>5. TypeOK'
  BY <1>1, <1>2, <1>4 DEF IInv, TypeOK, PCs
<1>6. Timely'
  BY <1>1, <1>4, Numbers, Typing DEF IInv, Timely
<1>7. NoneBeyondLifetime' /\ DriftBounded' /\ ExchangedIsNew'
  BY <1>1, <1>2, <1>4 DEF IInv, NoneBeyondLifetime, DriftBounded, ExchangedIsNew
<1>8. OutlastsCall'
  BY <1>1, <1>2, <1>3, <1>4 DEF IInv, OutlastsCall
<1>9. QED
  BY <1>5, <1>6, <1>7, <1>8 DEF IInv

\* GitHub issues a token.  Those that are held stay what they are.
LEMMA TokenIssued ==
  ASSUME IInv, NEW t \in Threads, _exchange(t)
  PROVE  IInv'
<1> DEFINE k == Len(issued) + 1
<1>1. /\ UNCHANGED <<now, _copilot_token, _expires_at, _chat, _cached_token, since>>
      /\ pc[t] = "exchange" /\ pc' = [pc EXCEPT ![t] = "store_token"]
      /\ token' = [token EXCEPT ![t] = k]
      /\ issued' = Append(issued, now + Lifetime)
  BY DEF _exchange, provider, factory, Goto
<1>2. issued \in Seq(Nat) /\ now + Lifetime \in Nat /\ Len(issued) \in Nat
  BY Numbers, Typing DEF IInv, TypeOK
<1>3. /\ issued' \in Seq(Nat) /\ Len(issued') = k /\ issued'[k] = now + Lifetime
      /\ \A i \in 1..Len(issued) : issued'[i] = issued[i]
  BY <1>1, <1>2
<1>4. /\ pc'[t] = "store_token" /\ token'[t] = k
      /\ \A u \in Threads \ {t} : pc'[u] = pc[u] /\ token'[u] = token[u]
  BY <1>1 DEF IInv, TypeOK
<1>5. TypeOK'
  <2>1. 0..Len(issued) \subseteq 0..k /\ k \in 0..k /\ k # 0
    BY <1>2
  <2>2. token' \in [Threads -> 0..k]
    BY <1>1, <2>1 DEF IInv, TypeOK
  <2>3. {_copilot_token', _chat', _cached_token'} \subseteq 0..k
    BY <1>1, <2>1 DEF IInv, TypeOK
  <2>4. pc' \in [Threads -> PCs]
    BY <1>1 DEF IInv, TypeOK, PCs
  <2>5. \A u \in Threads : pc'[u] \in {"compare", "build", "cache", "use"} => token'[u] # 0
    BY <1>4, <2>1 DEF IInv, TypeOK
  <2> HIDE DEF k
  <2>6. QED
    BY <1>1, <1>3, <2>2, <2>3, <2>4, <2>5 DEF IInv, TypeOK
<1>6. Timely'
  BY <1>1, <1>4 DEF IInv, Timely
<1>7. NoneBeyondLifetime'
  BY <1>1, <1>2, <1>3 DEF IInv, NoneBeyondLifetime
<1>8. \A i \in 0..Len(issued) : i # 0 => issued'[i] = issued[i]
  BY <1>2, <1>3
<1>9. DriftBounded'
  BY <1>1, <1>8, Typing DEF IInv, DriftBounded
<1>10. ExchangedIsNew'
  <2>1. now >= since[t] /\ now \in Nat /\ since[t] \in Nat
    BY <1>1, Typing DEF IInv, Timely
  <2>2. now + Lifetime >= since[t] + Lifetime
    BY <2>1, Numbers
  <2>3. k # 0
    BY <1>2
  <2> HIDE DEF k
  <2>4. QED
    BY <1>1, <1>3, <1>4, <1>8, <2>2, <2>3, Typing DEF IInv, ExchangedIsNew
<1>11. OutlastsCall'
  BY <1>1, <1>4, <1>8, Typing DEF IInv, OutlastsCall
<1>12. QED
  BY <1>5, <1>6, <1>7, <1>9, <1>10, <1>11 DEF IInv

\* The provider gets a new token: everyone may go on with it, and the expiry that
\* is still the old one's is no later than it might be.
LEMMA TokenStored ==
  ASSUME IInv, NEW t \in Threads, store_token(t)
  PROVE  IInv'
<1> DEFINE k == token[t]
<1>1. /\ UNCHANGED <<now, issued, _expires_at, _chat, _cached_token, since, token>>
      /\ pc[t] = "store_token" /\ pc' = [pc EXCEPT ![t] = "store_expiry"]
      /\ _copilot_token' = k
  BY DEF store_token, factory, Goto
<1>2. k \in 1..Len(issued) /\ issued[k] \in Nat /\ issued[k] >= since[t] + Lifetime
  BY <1>1, Typing DEF IInv, ExchangedIsNew
<1>3. /\ pc'[t] = "store_expiry"
      /\ \A u \in Threads \ {t} : pc'[u] = pc[u]
  BY <1>1 DEF IInv, TypeOK
<1>4. now <= since[t] + Patience /\ since[t] \in Nat /\ now \in Nat
  BY <1>1, Typing DEF IInv, Timely
<1>5. issued[k] + Patience >= now + Lifetime
  BY <1>2, <1>4, Numbers
<1>6. \A u \in Threads : pc[u] # "idle" => since[u] \in Nat /\ since[u] <= now
  BY Typing DEF IInv, Timely
<1> HIDE DEF k
<1>7. TypeOK'
  BY <1>1, <1>2, <1>3 DEF IInv, TypeOK, PCs
<1>8. Timely' /\ NoneBeyondLifetime'
  BY <1>1, <1>3 DEF IInv, Timely, NoneBeyondLifetime
<1>9. DriftBounded'
  <2>1. _expires_at <= now + Lifetime /\ _expires_at \in Nat
    BY Typing DEF IInv, NoneBeyondLifetime
  <2>2. _expires_at <= issued[k] + 2 * Patience
    BY <1>2, <1>4, <1>5, <2>1, Numbers
  <2>3. QED
    BY <1>1, <2>2 DEF DriftBounded
<1>10. ExchangedIsNew'
  <2>1. \A u \in Threads : pc[u] # "idle" => issued[k] + Patience >= since[u] + Lifetime
    BY <1>2, <1>4, <1>5, <1>6, Numbers
  <2>2. k # 0
    BY <1>2
  <2>3. QED
    BY <1>1, <1>2, <1>3, <2>1, <2>2 DEF IInv, ExchangedIsNew, k
<1>11. OutlastsCall'
  <2>1. issued[k] > now + Patience
    BY <1>2, <1>4, <1>5, Numbers
  <2>2. \A u \in Threads : pc[u] # "idle" => issued[k] > since[u] + Patience
    BY <1>2, <1>4, <1>6, <2>1, Numbers
  <2>3. k # 0
    BY <1>2
  <2>4. QED
    BY <1>1, <1>3, <2>2, <2>3 DEF IInv, OutlastsCall
<1>12. QED
  BY <1>7, <1>8, <1>9, <1>10, <1>11 DEF IInv

\* ... and an expiry, perhaps that of another token, but a recent one.
LEMMA ExpiryStored ==
  ASSUME IInv, NEW t \in Threads, store_expiry(t)
  PROVE  IInv'
<1> DEFINE a == _copilot_token
<1>1. /\ UNCHANGED <<now, issued, _copilot_token, _chat, _cached_token, since, token>>
      /\ pc[t] = "store_expiry" /\ pc' = [pc EXCEPT ![t] = "return"]
      /\ _expires_at' \in {issued[token[t]], now + Lifetime}
  BY DEF store_expiry, factory, Goto
<1>2. /\ pc'[t] = "return"
      /\ \A u \in Threads \ {t} : pc'[u] = pc[u]
  BY <1>1 DEF IInv, TypeOK
<1>3. token[t] \in 1..Len(issued) /\ now \in Nat
  BY <1>1, Typing DEF IInv, ExchangedIsNew
<1>4. _expires_at' \in Nat /\ _expires_at' <= now + Lifetime
  BY <1>1, <1>3, Numbers, Typing DEF IInv, NoneBeyondLifetime
<1>5. /\ a # 0 /\ a \in 1..Len(issued) /\ issued[a] \in Nat
      /\ issued[a] + Patience >= since[t] + Lifetime
  BY <1>1, Typing DEF IInv, ExchangedIsNew
<1>6. now <= since[t] + Patience /\ since[t] \in Nat
  BY <1>1, Typing DEF IInv, Timely
<1>7. _expires_at' <= issued[a] + 2 * Patience /\ issued[a] > since[t] + Patience
  BY <1>3, <1>4, <1>5, <1>6, Numbers
<1> HIDE DEF a
<1>8. TypeOK'
  BY <1>1, <1>2, <1>4 DEF IInv, TypeOK, PCs
<1>9. Timely' /\ NoneBeyondLifetime'
  BY <1>1, <1>2, <1>4 DEF IInv, Timely, NoneBeyondLifetime
<1>10. DriftBounded' /\ ExchangedIsNew'
  BY <1>1, <1>2, <1>7 DEF IInv, DriftBounded, ExchangedIsNew, a
<1>11. OutlastsCall'
  BY <1>1, <1>2, <1>5, <1>7 DEF IInv, OutlastsCall, a
<1>12. QED
  BY <1>8, <1>9, <1>10, <1>11 DEF IInv

\* Time passes while every call still has some.
LEMMA TimePasses ==
  ASSUME IInv, Tick
  PROVE  IInv'
<1>1. /\ UNCHANGED <<issued, _copilot_token, _expires_at, _chat, _cached_token, pc, since, token>>
      /\ now' = now + 1
      /\ \A t \in Threads : pc[t] # "idle" => now < since[t] + Patience
  BY DEF Tick, provider, factory
<1>2. TypeOK'
  BY <1>1, Typing DEF IInv, TypeOK
<1>3. Timely'
  BY <1>1, Numbers, Typing DEF IInv, Timely
<1>4. NoneBeyondLifetime'
  BY <1>1, Numbers, Typing DEF IInv, NoneBeyondLifetime
<1>5. ExchangedIsNew' /\ OutlastsCall' /\ DriftBounded'
  BY <1>1 DEF IInv, ExchangedIsNew, OutlastsCall, DriftBounded
<1>6. QED
  BY <1>2, <1>3, <1>4, <1>5 DEF IInv

-----------------------------------------------------------------------------
\* At first nobody holds anything.
LEMMA InitInv ==
  ASSUME Init PROVE IInv
<1>1. TypeOK
  <2>1. <<>> \in Seq(Nat) /\ Len(<<>>) = 0
    OBVIOUS
  <2>2. QED
    BY <2>1 DEF Init, TypeOK, PCs
<1>2. NoneBeyondLifetime
  BY Numbers DEF Init, NoneBeyondLifetime
<1>3. Timely /\ ExchangedIsNew /\ OutlastsCall /\ DriftBounded
  BY DEF Init, Timely, ExchangedIsNew, OutlastsCall, DriftBounded
<1>4. QED
  BY <1>1, <1>2, <1>3 DEF IInv

\* Every step keeps the invariant.
LEMMA NextInv ==
  ASSUME IInv, [Next]_vars PROVE IInv'
<1>1. CASE Tick
  BY <1>1, TimePasses
<1>2. ASSUME NEW t \in Threads, return_token(t)
      PROVE  IInv'
  <2>1. /\ pc[t] = "return" /\ pc' = [pc EXCEPT ![t] = "compare"]
        /\ token' = [token EXCEPT ![t] = _copilot_token]
        /\ UNCHANGED <<now, issued, provider, factory, since>>
    BY <1>2 DEF return_token, Goto
  <2>2. _copilot_token # 0 /\ issued[_copilot_token] > since[t] + Patience
    BY <2>1 DEF IInv, OutlastsCall
  <2>3. /\ _copilot_token \in 0..Len(issued)
        /\ {_chat', _cached_token'} \subseteq 0..Len(issued)
    BY <2>1 DEF IInv, TypeOK, factory
  <2>4. QED
    BY <2>1, <2>2, <2>3, ThreadMoves DEF PCs
<1>3. ASSUME NEW t \in Threads, compare(t) \/ build(t) \/ cache(t)
      PROVE  IInv'
  <2>1. PICK to \in {"build", "cache", "use"} :
          /\ pc[t] \in {"compare", "build", "cache"} /\ pc' = [pc EXCEPT ![t] = to]
          /\ UNCHANGED <<now, issued, provider, since, token>>
          /\ {_chat', _cached_token'} \subseteq {_chat, _cached_token, token[t]}
    BY <1>3 DEF compare, build, cache, Goto, factory
  <2>2. token[t] # 0 /\ issued[token[t]] > since[t] + Patience
    BY <2>1 DEF IInv, OutlastsCall
  <2>3. /\ token[t] \in 0..Len(issued) /\ token' = [token EXCEPT ![t] = token[t]]
        /\ {_chat', _cached_token'} \subseteq 0..Len(issued)
    BY <2>1 DEF IInv, TypeOK
  <2>4. QED
    BY <2>1, <2>2, <2>3, ThreadMoves DEF PCs
<1>4. ASSUME NEW t \in Threads, use(t) \/ _exchange_raises(t)
      PROVE  IInv'
  BY <1>4, CallLeaves DEF use, _exchange_raises
<1>5. CASE UNCHANGED vars
  BY <1>5 DEF vars, IInv, TypeOK, Timely, NoneBeyondLifetime, ExchangedIsNew, OutlastsCall,
              DriftBounded
<1>6. QED
  BY <1>1, <1>2, <1>3, <1>4, <1>5, CallBegins, TokenIssued, TokenStored, ExpiryStored DEF Next

\* The invariant holds in every reachable state, whatever exchanges overlap
\* (get_token, _exchange, chat; copilot.py).
THEOREM Invariance == Spec => []IInv
<1>1. Init => IInv
  BY InitInv
<1>2. IInv /\ [Next]_vars => IInv'
  BY NextInv
<1>3. QED
  BY <1>1, <1>2, PTL DEF Spec

\* No token that get_token returns has expired (copilot.py:163).
THEOREM ReturnsValid == Spec => []ReturnedIsValid
<1>1. IInv => ReturnedIsValid
  <2> SUFFICES ASSUME IInv, NEW t \in Threads, pc[t] = "compare" PROVE Valid(token[t])
    BY DEF ReturnedIsValid
  <2>1. token[t] # 0 /\ issued[token[t]] > since[t] + Patience /\ now <= since[t] + Patience
    BY DEF IInv, OutlastsCall, Timely
  <2>2. issued[token[t]] \in Nat /\ now \in Nat /\ since[t] \in Nat
    BY <2>1, Typing DEF IInv
  <2>3. QED
    BY <2>1, <2>2, Numbers DEF Valid
<1>2. QED
  BY <1>1, Invariance, PTL

\* The expiry the provider trusts is off by at most two calls (copilot.py:160).
THEOREM DriftIsBounded == Spec => []DriftBounded
<1>1. IInv => DriftBounded
  BY DEF IInv
<1>2. QED
  BY <1>1, Invariance, PTL

\* A chat is never rebuilt around a token that has expired (copilot.py:200).
THEOREM BuildsValid == Spec => BuiltValid
<1>1. IInv /\ [Next]_vars => [_chat' # _chat => Valid(_chat')]_vars
  <2> SUFFICES ASSUME IInv, Next, _chat' # _chat PROVE Valid(_chat')
    OBVIOUS
  <2>1. PICK t \in Threads : build(t)
    BY DEF Next, Tick, get_token, _exchange, _exchange_raises, store_token, store_expiry,
           return_token, compare, cache, use, factory
  <2>2. /\ token[t] # 0 /\ issued[token[t]] > since[t] + Patience
        /\ now <= since[t] + Patience
    BY <2>1 DEF build, IInv, OutlastsCall, Timely
  <2>3. issued[token[t]] \in Nat /\ now \in Nat /\ since[t] \in Nat
    BY <2>2, Typing DEF IInv
  <2>4. QED
    BY <2>1, <2>2, <2>3, Numbers DEF build, Valid
<1>2. QED
  BY <1>1, Invariance, PTL DEF Spec, BuiltValid
=============================================================================
