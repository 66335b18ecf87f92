---------------------------- MODULE DeviceFlow ----------------------------
(***************************************************************************)
(* The OAuth device flow of GitHubCopilotTokenProvider: the user is shown  *)
(* a code, and poll_device_flow asks GitHub again and again whether it was *)
(* entered, until a deadline.  The program itself takes no time: it waits  *)
(* for GitHub, at most RequestTime, or sleeps.                             *)
(***************************************************************************)
EXTENDS Naturals

CONSTANTS
  interval, timeout,   \* the arguments of poll_device_flow
  SlowDown,            \* what a slow_down adds to one sleep
  RequestTime,         \* how long the HTTP client waits for a reply
  MaxFlows             \* bound: how often the flow is started

ASSUME FlowConstants ==
  /\ {interval, timeout, SlowDown, RequestTime, MaxFlows} \subseteq Nat
  /\ SlowDown > 0

VARIABLES
  now,
  _oauth_token,   \* whether the provider has one
  flow,           \* where the flow is
  began,          \* when it was started
  until,          \* the end of the sleep, or of the wait for a reply
  authorized,     \* when the user entered the code, as {} or {time}
  put_off,        \* whether GitHub, asked after that, only said slow_down
  flows

flowVars == <<_oauth_token, flow, began, until, authorized, put_off, flows>>

Polling == {"sleep", "poll"}

\* A token may also come from the environment.
FlowInit ==
  /\ now = 0 /\ _oauth_token \in BOOLEAN
  /\ flow = "none" /\ began = 0 /\ until = 0 /\ authorized = {} /\ flows = 0
  /\ put_off = FALSE

start_device_flow ==
  /\ flow = "none" /\ flows < MaxFlows
  /\ flow' = "sleep" /\ began' = now /\ until' = now /\ flows' = flows + 1
  /\ UNCHANGED <<now, _oauth_token, authorized, put_off>>

\* (slip: <=)
check_late ==
  /\ flow = "sleep" /\ now >= until
  /\ flow' = IF now <= began + timeout THEN "poll" ELSE "timed_out"
  /\ until' = now + RequestTime
  /\ UNCHANGED <<now, _oauth_token, began, authorized, put_off, flows>>

\* while time.time() < deadline: POST ...
check ==
  /\ flow = "sleep" /\ now >= until
  /\ flow' = IF now < began + timeout THEN "poll" ELSE "timed_out"
  /\ until' = now + RequestTime
  /\ UNCHANGED <<now, _oauth_token, began, authorized, put_off, flows>>

\* The code was entered before the request was sent.
Entered == \E t \in authorized : t < until - RequestTime

\* GitHub decides at some moment since the request was sent; the authorization is
\* pending only while the code was not entered, but a poll may always be too fast.
Replies ==
  {"denied", "slow_down"}
    \cup (IF authorized # {} THEN {"access_token"} ELSE {})
    \cup (IF Entered THEN {} ELSE {"authorization_pending"})

\* (slip: a slow_down is waited out to the deadline)
Sleep_long(reply) ==
  IF reply = "slow_down" /\ now < began + timeout THEN began + timeout - now ELSE interval

Sleep(reply) == IF reply = "slow_down" THEN interval + SlowDown ELSE interval

\* A token is kept, an authorization that is pending is slept on, anything else raises.
poll_device_flow ==
  /\ flow = "poll"
  /\ \E reply \in Replies :
       /\ _oauth_token' = (_oauth_token \/ reply = "access_token")
       /\ flow' = CASE reply = "access_token" -> "logged_in"
                    [] reply = "denied"       -> "raised"
                    [] OTHER                  -> "sleep"
       /\ until' = now + Sleep(reply)
       /\ put_off' = (reply = "slow_down" /\ Entered)
  /\ UNCHANGED <<now, began, authorized, flows>>

\* The token is shown, or the error; nothing else of the login is kept.
login_device_flow ==
  /\ flow \in {"logged_in", "timed_out", "raised"}
  /\ flow' = "none" /\ began' = 0 /\ until' = 0 /\ authorized' = {} /\ put_off' = FALSE
  /\ UNCHANGED <<now, _oauth_token, flows>>

user_authorizes ==
  /\ flow \in Polling /\ authorized = {}
  /\ authorized' = {now}
  /\ UNCHANGED <<now, _oauth_token, flow, began, until, put_off, flows>>

FlowNext ==
  start_device_flow \/ check \/ poll_device_flow \/ login_device_flow \/ user_authorizes

FlowLetsTimePass == flow = "none" \/ (flow \in Polling /\ now < until)

-----------------------------------------------------------------------------
(* Properties. *)

FlowTypeOK ==
  /\ {now, began, until, flows} \subseteq Nat
  /\ {_oauth_token, put_off} \subseteq BOOLEAN
  /\ flow \in Polling \cup {"none", "timed_out", "raised", "logged_in"}
  /\ authorized \subseteq began..now

\* The longest time from one look at the clock to the next.
Round == RequestTime + interval + SlowDown

\* The flow outlasts its deadline by less than one round (poll_device_flow).
FlowEnds == flow \in Polling => now < began + timeout + Round

\* A user who entered the code is told that the flow timed out only if it was
\* entered in the last round, or if GitHub, asked since, only said slow_down: the
\* five seconds that this adds are not kept for the polls that follow
\* (poll_device_flow, copilot.py:124).
AuthorizedIsSeen ==
  flow = "timed_out" /\ ~put_off => \A t \in authorized : now <= t + Round

\* Why: a sleep ends within a round of the last look at the clock, and of every
\* authorization that a reply did not have to know of.
FlowInv ==
  /\ FlowTypeOK
  /\ flow = "none" => authorized = {}
  /\ flow \in Polling => began <= now /\ now <= until
  /\ flow = "sleep" =>
       /\ until < began + timeout + Round
       /\ until <= now + interval + SlowDown
       /\ ~put_off => \A t \in authorized : until <= t + Round
  /\ flow = "poll" => until < began + timeout + RequestTime
  /\ AuthorizedIsSeen
=============================================================================
