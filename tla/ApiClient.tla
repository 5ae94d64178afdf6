------------------------------ MODULE ApiClient ------------------------------
(***************************************************************************)
(* How a remote call is made: ApiClient.request and put_file of             *)
(* api/client.py, with the bearer token that the worker threads share       *)
(* (TokenProvider of api/auth.py).                                          *)
(*                                                                          *)
(* Time advances in ticks of half a second, because a token is stamped in   *)
(* whole seconds.  The length of a backoff is left open, and so is that of  *)
(* an attempt: httpx applies timeout_ms to the connection, to each write    *)
(* and to each read by itself, which bounds no attempt as a whole.          *)
(***************************************************************************)
EXTENDS Integers, FiniteSets

CONSTANTS
  Workers,     \* the threads of the pool
  MaxRetries,  \* api.max_retries
  TTL,         \* life of a token
  Margin,      \* _REFRESH_MARGIN_SECONDS
  Slack,       \* how long a thread may be held up between reading the clock and sending
  MaxCalls, MaxTime  \* bounds: calls of a worker, ticks of the clock

Second == 2

WholeSecond(t) == (t \div Second) * Second

ASSUME ClientAssumption ==
  /\ {MaxRetries, TTL, Margin, Slack, MaxCalls, MaxTime} \subseteq Nat
  /\ WholeSecond(TTL) = TTL /\ Margin <= TTL
  /\ "none" \notin Workers

VARIABLES
  now,        \* the clock
  token,      \* _token: when it expires, NoToken if none was signed yet
  expiresAt,  \* _expires_at
  lock,       \* the worker that holds the provider's lock, NoWorker if none does
  call,       \* call[w]: what the worker is doing
  wire,       \* requests the server has not dealt with
  done        \* requests the server has executed

clientVars == <<now, token, expiresAt, lock, call, wire, done>>

NoToken == -1
NoWorker == "none"

Outcome == {"open", "returned", "refused", "gaveUp", "noToken"}

\* A worker between two calls has the outcome of the last one.
NoCall == [pc |-> "idle", kind |-> "json", n |-> 0, attempt |-> 0, clock |-> 0,
           token |-> NoToken, answer |-> "none", outcome |-> "returned"]

ClientInit ==
  /\ now = 0
  /\ token = NoToken
  /\ expiresAt = 0
  /\ lock = NoWorker
  /\ call = [w \in Workers |-> NoCall]
  /\ wire = {}
  /\ done = {}

Goto(w, pc) == call' = [call EXCEPT ![w].pc = pc]

\* The call ends; what it knew of clock, token and answer dies with it.
Close(w, outcome) ==
  call' = [call EXCEPT ![w].pc = "idle", ![w].outcome = outcome,
                       ![w].clock = 0, ![w].token = NoToken, ![w].answer = "none"]

\* The request of w's current attempt.
Request(w) == [worker |-> w, n |-> call[w].n, attempt |-> call[w].attempt]

-----------------------------------------------------------------------------
(* The client *)

\* request() for the JSON endpoints, put_file() for a presigned URL, which bears no token.
Begin(w) ==
  /\ call[w].pc = "idle"
  /\ call[w].n < MaxCalls
  /\ \E kind \in {"json", "put"} :
       call' = [call EXCEPT ![w] =
         [NoCall EXCEPT !.kind = kind, !.n = call[w].n + 1, !.outcome = "open",
                        !.pc = IF kind = "json" THEN "token" ELSE "send",
                        !.clock = now]]
  /\ UNCHANGED <<now, token, expiresAt, lock, wire, done>>

\* token() without its lock (used as a mutant).
EnterUnlocked(w) ==
  /\ call[w].pc = "token"
  /\ call' = [call EXCEPT ![w].pc = "check", ![w].clock = now]
  /\ UNCHANGED <<now, token, expiresAt, lock, wire, done>>

\* token() enters the lock and reads the clock.
Enter(w) ==
  /\ call[w].pc = "token"
  /\ lock = NoWorker
  /\ lock' = w
  /\ call' = [call EXCEPT ![w].pc = "check", ![w].clock = now]
  /\ UNCHANGED <<now, token, expiresAt, wire, done>>

NeedsToken(clock) == token = NoToken \/ clock >= expiresAt - Margin

\* The cached token will do.
Reuse(w) ==
  /\ call[w].pc = "check"
  /\ ~NeedsToken(call[w].clock)
  /\ lock' = NoWorker
  /\ call' = [call EXCEPT ![w].pc = "send", ![w].token = token]
  /\ UNCHANGED <<now, token, expiresAt, wire, done>>

\* Otherwise two assignments: _token, stamped in whole seconds,
Sign(w) ==
  /\ call[w].pc = "check"
  /\ NeedsToken(call[w].clock)
  /\ token' = WholeSecond(call[w].clock) + TTL
  /\ Goto(w, "stamp")
  /\ UNCHANGED <<now, expiresAt, lock, wire, done>>

\* and _expires_at.
Stamp(w) ==
  /\ call[w].pc = "stamp"
  /\ expiresAt' = call[w].clock + TTL
  /\ lock' = NoWorker
  /\ call' = [call EXCEPT ![w].pc = "send", ![w].token = token]
  /\ UNCHANGED <<now, token, wire, done>>

\* AuthError: not an ApiError, so request() does not try again.
SignFails(w) ==
  /\ call[w].pc = "check"
  /\ NeedsToken(call[w].clock)
  /\ lock' = NoWorker
  /\ Close(w, "noToken")
  /\ UNCHANGED <<now, token, expiresAt, wire, done>>

\* The request is httpx's: from here on w waits, first for a connection.
Send(w) ==
  /\ call[w].pc = "send"
  /\ wire' = wire \cup {Request(w)}
  /\ call' = [call EXCEPT ![w].pc = "waiting", ![w].clock = now, ![w].answer = "none"]
  /\ UNCHANGED <<now, token, expiresAt, lock, done>>

\* One attempt too few or too many, a retry of the single-use PUT, a retry that is
\* not counted (used as mutants).
MayRetryOnceMore(w) == call[w].kind = "json" /\ call[w].attempt <= MaxRetries
MayRetryOnceLess(w) == call[w].kind = "json" /\ call[w].attempt + 1 < MaxRetries
MayRetryAnything(w) == call[w].attempt < MaxRetries

SleepUncounted(w) == Goto(w, "backoff")

MayRetry(w) == call[w].kind = "json" /\ call[w].attempt < MaxRetries

Sleep(w) ==
  call' = [call EXCEPT ![w].pc = "backoff", ![w].attempt = @ + 1,
                       ![w].clock = 0, ![w].answer = "none"]

RetryOrRaise(w) == IF MayRetry(w) THEN Sleep(w) ELSE Close(w, "gaveUp")

Receive(w) ==
  /\ call[w].pc = "waiting"
  /\ \/ call[w].answer = "ok" /\ Close(w, "returned")
     \/ call[w].answer = "refused" /\ Close(w, "refused")
     \/ call[w].answer = "transient" /\ RetryOrRaise(w)
  /\ UNCHANGED <<now, token, expiresAt, lock, wire, done>>

\* A broken connection, or one on which nothing has moved for timeout_ms: no answer,
\* whatever the server did or will do, and however long the attempt has taken.
NoAnswer(w) ==
  /\ call[w].pc = "waiting"
  /\ RetryOrRaise(w)
  /\ UNCHANGED <<now, token, expiresAt, lock, wire, done>>

\* Headers built once for all attempts (used as a mutant).
WakeWithOldHeaders(w) ==
  /\ call[w].pc = "backoff"
  /\ call' = [call EXCEPT ![w].pc = "send", ![w].clock = now]
  /\ UNCHANGED <<now, token, expiresAt, lock, wire, done>>

\* The headers are built anew for each attempt.
Wake(w) ==
  /\ call[w].pc = "backoff"
  /\ Goto(w, "token")
  /\ UNCHANGED <<now, token, expiresAt, lock, wire, done>>

-----------------------------------------------------------------------------
(* The server *)

\* The answer reaches w only if it is still waiting for this very request.
Answered(r, answer) ==
  call' = IF call[r.worker].pc = "waiting" /\ r = Request(r.worker)
          THEN [call EXCEPT ![r.worker].answer = answer]
          ELSE call

\* Executed; a gateway may still turn the answer into a 502.
Execute(r) ==
  /\ wire' = wire \ {r}
  /\ done' = done \cup {r}
  /\ Answered(r, "ok") \/ Answered(r, "transient")
  /\ UNCHANGED <<now, token, expiresAt, lock>>

\* Not executed: a status worth another attempt, or one that is not.
Reject(r) ==
  /\ wire' = wire \ {r}
  /\ Answered(r, "refused") \/ Answered(r, "transient")
  /\ UNCHANGED <<now, token, expiresAt, lock, done>>

\* Time passes, for threads that sleep or wait without limit; a running one is held
\* up at most Slack.
Tick ==
  /\ now < MaxTime
  /\ now' = now + 1
  /\ \A w \in Workers :
       call[w].pc \in {"check", "stamp", "send"} => now < call[w].clock + Slack
  /\ UNCHANGED <<token, expiresAt, lock, call, wire, done>>

-----------------------------------------------------------------------------

Client(w) ==
  \/ Enter(w) \/ Reuse(w) \/ Sign(w) \/ Stamp(w) \/ SignFails(w)
  \/ Send(w) \/ Receive(w) \/ NoAnswer(w) \/ Wake(w)

ClientNext ==
  \/ \E w \in Workers : Begin(w) \/ Client(w)
  \/ \E r \in wire : Execute(r) \/ Reject(r)
  \/ Tick

ClientSpec == ClientInit /\ [][ClientNext]_clientVars

\* A thread that can run does: an answer comes or an attempt is given up, a sleeper
\* wakes, and a lock that stays free is taken.  A server that keeps one attempt alive
\* for ever, a few bytes within every timeout_ms, is left out.
FairClientSpec == ClientSpec /\ \A w \in Workers : WF_clientVars(Client(w))

-----------------------------------------------------------------------------
(* Promises *)

Call == [pc: {"idle", "token", "check", "stamp", "send", "waiting", "backoff"},
         kind: {"json", "put"}, n: 0..MaxCalls, attempt: 0..MaxRetries, clock: Nat, token: Int,
         answer: {"none", "ok", "refused", "transient"}, outcome: Outcome]

ClientTypeOK ==
  /\ now \in 0..MaxTime
  /\ token \in Int /\ expiresAt \in Nat
  /\ lock \in Workers \cup {NoWorker}
  /\ call \in [Workers -> Call]
  /\ wire \cup done \subseteq
       [worker: Workers, n: 1..MaxCalls, attempt: 0..MaxRetries]

\* "Two of them could interleave and pair a fresh token with a stale expiry": the
\* lock keeps the cached expiry within the rounding of the token it belongs to.
TokenMatchesExpiry ==
  lock = NoWorker /\ token # NoToken => token <= expiresAt /\ expiresAt - token < Second

\* How long after it was sent a request is still good, if the margin is kept.
Reach == Margin - Slack - Second

\* A request bears a token that lives long enough for it to arrive: it does not expire
\* within Reach of the attempt's start, not even for the last of a series of attempts with
\* long backoffs in between.
RequestsBearLiveTokens ==
  \A w \in Workers :
    /\ call[w].pc = "waiting" /\ call[w].kind = "json"
    /\ now <= call[w].clock + Reach
    => now < call[w].token

\* The requests of w's current call that the server has executed.
Executions(w) == {r \in done : r.worker = w /\ r.n = call[w].n}

\* What the engine may conclude from the end of a call: after a normal return the
\* request was executed, and a PUT, whose URL is single use, never was twice.
OutcomeIsTrue ==
  \A w \in Workers :
    /\ call[w].outcome = "returned" /\ call[w].n > 0 => Request(w) \in done
    /\ call[w].kind = "put" => Cardinality(Executions(w)) <= 1

\* The call of w, which may be repeated, is given up in this step.
Surrenders(w) ==
  call[w].kind = "json" /\ call[w].outcome = "open" /\ call'[w].outcome = "gaveUp"

\* A call is given up only when every permitted attempt has been made.
NoEarlySurrender ==
  [][\A w \in Workers : Surrenders(w) => call[w].attempt = MaxRetries]_clientVars

\* Every call comes to an end, whatever the server answers or leaves unanswered.
CallsEnd == \A w \in Workers : call[w].outcome = "open" ~> call[w].outcome # "open"

-----------------------------------------------------------------------------
(* Why they are kept: the inductive invariant *)

\* The cached expiry fits the cached token.
Paired == token # NoToken => token <= expiresAt /\ expiresAt - token < Second

\* The lock is held exactly between the look at the cache and the last assignment; in
\* between, _token may be ahead of _expires_at.
LockInv ==
  /\ \A w \in Workers : call[w].pc \in {"check", "stamp"} <=> lock = w
  /\ \A w \in Workers : call[w].pc = "stamp" => token = WholeSecond(call[w].clock) + TTL
  /\ (\A w \in Workers : call[w].pc # "stamp") => Paired

\* How late it can be, and how long the token that goes with the request still lives.
Deadline(w) ==
  LET c == call[w] IN
  /\ c.pc \in {"token", "check", "stamp", "backoff"} => c.kind = "json"
  /\ c.pc \in {"check", "stamp", "send"} => now <= c.clock + Slack
  /\ c.kind = "json" /\ c.pc = "send" => c.clock + Margin < c.token + Second
  /\ c.kind = "json" /\ c.pc = "waiting" => c.clock + Reach < c.token

\* What w has been told is so, and what it has sent is no more than it counted.
Told(w) ==
  LET c == call[w] IN
  /\ c.pc # "idle" => c.n > 0 /\ c.outcome = "open"
  /\ c.answer = "ok" => Request(w) \in done
  /\ c.outcome = "returned" /\ c.n > 0 => Request(w) \in done
  /\ c.kind = "put" => c.attempt = 0
  /\ \A r \in wire \cup done :
       r.worker = w => r.n <= c.n /\ (r.n = c.n => r.attempt <= c.attempt)

\* Behind the promises about tokens and outcomes: lock, clock, wire and what each thread
\* knows fit together at every step.
ClientInv ==
  /\ ClientTypeOK
  /\ LockInv
  /\ \A w \in Workers : Deadline(w) /\ Told(w)
=============================================================================
