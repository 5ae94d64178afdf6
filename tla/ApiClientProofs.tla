--------------------------- MODULE ApiClientProofs ---------------------------
(***************************************************************************)
(* The invariant of ApiClient is inductive, for any number of threads, any  *)
(* number of retries, any margin and attempts of any length; from it, what  *)
(* a call may promise and how long its token is alive.                      *)
(***************************************************************************)
EXTENDS ApiClient, FiniteSetTheorems, TLAPS

Requests == [worker: Workers, n: 1..MaxCalls, attempt: 0..MaxRetries]

\* The constants, one by one.
LEMMA Sizes ==
  /\ MaxRetries \in Nat /\ TTL \in Nat /\ Margin \in Nat
  /\ Slack \in Nat /\ MaxCalls \in Nat /\ MaxTime \in Nat
  /\ Margin <= TTL
  /\ NoWorker \notin Workers /\ NoToken \in Int
BY ClientAssumption DEF Second, NoWorker, NoToken

\* A stamp in whole seconds lags by less than one.
LEMMA Rounding == ASSUME NEW t \in Nat PROVE WholeSecond(t) \in Nat /\ WholeSecond(t) <= t /\ t <= WholeSecond(t) + 1
BY DEF WholeSecond, Second

\* What the type invariant says of one thread.
LEMMA CallType ==
  ASSUME ClientTypeOK, NEW w \in Workers
  PROVE  /\ call[w] \in Call
         /\ call[w].pc \in {"idle", "token", "check", "stamp", "send", "waiting", "backoff"}
         /\ call[w].kind \in {"json", "put"}
         /\ call[w].n \in 0..MaxCalls /\ call[w].attempt \in 0..MaxRetries
         /\ call[w].clock \in Nat /\ call[w].token \in Int
         /\ call[w].answer \in {"none", "ok", "refused", "transient"}
         /\ call[w].outcome \in Outcome
         /\ now \in Nat /\ token \in Int
BY Sizes DEF ClientTypeOK, Call

\* A step of one thread, and its type.
LEMMA Updated ==
  ASSUME ClientTypeOK, NEW w \in Workers, NEW c \in Call, call' = [call EXCEPT ![w] = c]
  PROVE  /\ call'[w] = c
         /\ \A v \in Workers \ {w} : call'[v] = call[v]
         /\ call' \in [Workers -> Call]
BY DEF ClientTypeOK

\* A step of w that leaves clock, wire and executions alone is nothing to the others.
LEMMA Others ==
  ASSUME ClientInv, NEW w \in Workers, UNCHANGED <<now, wire, done>>,
         \A v \in Workers \ {w} : call'[v] = call[v],
         Deadline(w)', Told(w)'
  PROVE  \A v \in Workers : (Deadline(v) /\ Told(v))'
BY DEF ClientInv, Deadline, Told, Request

\* A step outside the lock, which leaves the cache alone.
LEMMA LockKept ==
  ASSUME ClientInv, NEW w \in Workers,
         call[w].pc \notin {"check", "stamp"}, call'[w].pc \notin {"check", "stamp"},
         \A v \in Workers \ {w} : call'[v] = call[v],
         token' = token, expiresAt' = expiresAt, lock' = lock
  PROVE  LockInv'
<1>1. \A v \in Workers : /\ call'[v].pc \in {"check", "stamp"} <=> call[v].pc \in {"check", "stamp"}
                         /\ call'[v].pc = "stamp" => call[v].pc = "stamp" /\ call'[v] = call[v]
                         /\ call[v].pc = "stamp" => call'[v].pc = "stamp"
  OBVIOUS
<1> QED
  BY <1>1 DEF ClientInv, LockInv, Paired

-----------------------------------------------------------------------------
(* One lemma per action *)

LEMMA BeginKeeps == ASSUME ClientInv, NEW w \in Workers, Begin(w) PROVE ClientInv'
<1>1. PICK kind \in {"json", "put"} :
        call' = [call EXCEPT ![w] =
         [NoCall EXCEPT !.kind = kind, !.n = call[w].n + 1, !.outcome = "open",
                        !.pc = IF kind = "json" THEN "token" ELSE "send",
                        !.clock = now]]
  BY DEF Begin
<1>2. /\ call[w].pc = "idle" /\ call[w].n < MaxCalls
      /\ UNCHANGED <<now, token, expiresAt, lock, wire, done>>
  BY DEF Begin
<1> DEFINE c == [NoCall EXCEPT !.kind = kind, !.n = call[w].n + 1, !.outcome = "open",
                               !.pc = IF kind = "json" THEN "token" ELSE "send", !.clock = now]
<1>a. /\ c \in Call
      /\ c.pc = IF kind = "json" THEN "token" ELSE "send"
      /\ c.kind = kind /\ c.n = call[w].n + 1 /\ c.attempt = 0 /\ c.clock = now
      /\ c.answer = "none" /\ c.outcome = "open"
  <2>1. call[w].n + 1 \in 0..MaxCalls /\ 0 \in 0..MaxRetries
    BY <1>2, CallType, Sizes DEF ClientInv
  <2> QED
    BY <2>1, CallType, Sizes DEF ClientInv, Call, NoCall, Outcome
<1>b. call' = [call EXCEPT ![w] = c]
  BY <1>1
<1>3. /\ call'[w] = c
      /\ \A v \in Workers \ {w} : call'[v] = call[v]
      /\ call' \in [Workers -> Call]
  BY <1>a, <1>b, Updated DEF ClientInv
<1>c. /\ call'[w].pc = IF kind = "json" THEN "token" ELSE "send"
      /\ call'[w].kind = kind /\ call'[w].n = call[w].n + 1 /\ call'[w].attempt = 0
      /\ call'[w].clock = now /\ call'[w].answer = "none" /\ call'[w].outcome = "open"
  BY <1>3, <1>a
<1>d. \A v \in Workers \ {w} : call'[v] = call[v]
  BY <1>3
<1>4. ClientTypeOK'
  BY <1>2, <1>3 DEF ClientInv, ClientTypeOK
<1>5. LockInv'
  BY <1>2, <1>c, <1>d, LockKept
<1>6. Deadline(w)'
  BY <1>2, <1>3, Sizes DEF ClientInv, ClientTypeOK, Deadline
<1>7. Told(w)'
  <2>1. \A r \in wire \cup done : r.worker = w => r.n < call[w].n + 1
    BY CallType, Sizes DEF ClientInv, ClientTypeOK, Told
  <2> QED
    BY <1>2, <1>c, <2>1, CallType, Sizes DEF ClientInv, ClientTypeOK, Told, Request
<1> QED
  BY <1>2, <1>3, <1>4, <1>5, <1>6, <1>7, Others DEF ClientInv

LEMMA EnterKeeps == ASSUME ClientInv, NEW w \in Workers, Enter(w) PROVE ClientInv'
<1>1. /\ call[w].pc = "token" /\ lock = NoWorker /\ lock' = w
      /\ call' = [call EXCEPT ![w].pc = "check", ![w].clock = now]
      /\ UNCHANGED <<now, token, expiresAt, wire, done>>
  BY DEF Enter
<1> DEFINE c == [call[w] EXCEPT !.pc = "check", !.clock = now]
<1>a. c \in Call
  BY <1>1, CallType, Sizes DEF ClientInv, Call, Outcome
<1>b. call' = [call EXCEPT ![w] = c]
  BY <1>1, CallType DEF ClientInv, ClientTypeOK
<1>2. /\ call'[w] = c
      /\ \A v \in Workers \ {w} : call'[v] = call[v]
      /\ call' \in [Workers -> Call]
  BY <1>a, <1>b, Updated DEF ClientInv
<1>3. ClientTypeOK'
  BY <1>1, <1>2, CallType, Sizes DEF ClientInv, ClientTypeOK
<1>4. LockInv'
  BY <1>1, <1>2, CallType, Sizes DEF ClientInv, LockInv, Paired
<1>5. Deadline(w)' /\ Told(w)'
  BY <1>1, <1>2, CallType, Sizes DEF ClientInv, ClientTypeOK, Deadline, Told, Request
<1> QED
  BY <1>1, <1>2, <1>3, <1>4, <1>5, Others DEF ClientInv

\* The cached token outlives the margin, but for its rounding.
LEMMA ReuseKeeps == ASSUME ClientInv, NEW w \in Workers, Reuse(w) PROVE ClientInv'
<1>1. /\ call[w].pc = "check" /\ ~NeedsToken(call[w].clock) /\ lock' = NoWorker
      /\ call' = [call EXCEPT ![w].pc = "send", ![w].token = token]
      /\ UNCHANGED <<now, token, expiresAt, wire, done>>
  BY DEF Reuse
<1> DEFINE c == [call[w] EXCEPT !.pc = "send", !.token = token]
<1>a. c \in Call
  BY <1>1, CallType, Sizes DEF ClientInv, Call, Outcome
<1>b. call' = [call EXCEPT ![w] = c]
  BY <1>1, CallType DEF ClientInv, ClientTypeOK
<1>2. /\ call'[w] = c
      /\ \A v \in Workers \ {w} : call'[v] = call[v]
      /\ call' \in [Workers -> Call]
  BY <1>a, <1>b, Updated DEF ClientInv
<1>3. ClientTypeOK'
  BY <1>1, <1>2, CallType, Sizes DEF ClientInv, ClientTypeOK
<1>4. lock = w /\ \A v \in Workers : call[v].pc # "stamp"
  BY <1>1 DEF ClientInv, LockInv
<1>5. Paired
  BY <1>4 DEF ClientInv, LockInv
<1>6. LockInv'
  BY <1>1, <1>2, <1>4, <1>5, Sizes DEF ClientInv, LockInv, Paired
<1>7. call[w].clock + Margin < token + Second
  BY <1>1, <1>5, CallType, Sizes DEF ClientInv, ClientTypeOK, Paired, NeedsToken, Second
<1>8. Deadline(w)' /\ Told(w)'
  BY <1>1, <1>2, <1>7, CallType, Sizes DEF ClientInv, ClientTypeOK, Deadline, Told, Request
<1> QED
  BY <1>1, <1>2, <1>3, <1>6, <1>8, Others DEF ClientInv

LEMMA SignKeeps == ASSUME ClientInv, NEW w \in Workers, Sign(w) PROVE ClientInv'
<1>1. /\ call[w].pc = "check"
      /\ token' = WholeSecond(call[w].clock) + TTL
      /\ call' = [call EXCEPT ![w].pc = "stamp"]
      /\ UNCHANGED <<now, expiresAt, lock, wire, done>>
  BY DEF Sign, Goto
<1> DEFINE c == [call[w] EXCEPT !.pc = "stamp"]
<1>a. c \in Call
  BY <1>1, CallType, Sizes DEF ClientInv, Call, Outcome
<1>b. call' = [call EXCEPT ![w] = c]
  BY <1>1, CallType DEF ClientInv, ClientTypeOK
<1>2. /\ call'[w] = c
      /\ \A v \in Workers \ {w} : call'[v] = call[v]
      /\ call' \in [Workers -> Call]
  BY <1>a, <1>b, Updated DEF ClientInv
<1>3. WholeSecond(call[w].clock) \in Nat
  BY CallType, Rounding DEF ClientInv
<1>4. ClientTypeOK'
  BY <1>1, <1>2, <1>3, CallType, Sizes DEF ClientInv, ClientTypeOK, Requests
<1>5. lock = w /\ \A v \in Workers \ {w} : call[v].pc # "stamp"
  BY <1>1 DEF ClientInv, LockInv
<1>6. LockInv'
  BY <1>1, <1>2, <1>5, CallType DEF ClientInv, LockInv
<1>7. Deadline(w)' /\ Told(w)'
  BY <1>1, <1>2, CallType, Sizes DEF ClientInv, ClientTypeOK, Deadline, Told, Request
<1> QED
  BY <1>1, <1>2, <1>4, <1>6, <1>7, Others DEF ClientInv

\* A fresh token does so too, although it was stamped in whole seconds.
LEMMA StampKeeps == ASSUME ClientInv, NEW w \in Workers, Stamp(w) PROVE ClientInv'
<1>1. /\ call[w].pc = "stamp" /\ expiresAt' = call[w].clock + TTL /\ lock' = NoWorker
      /\ call' = [call EXCEPT ![w].pc = "send", ![w].token = token]
      /\ UNCHANGED <<now, token, wire, done>>
  BY DEF Stamp
<1> DEFINE c == [call[w] EXCEPT !.pc = "send", !.token = token]
<1>a. c \in Call
  BY <1>1, CallType, Sizes DEF ClientInv, Call, Outcome
<1>b. call' = [call EXCEPT ![w] = c]
  BY <1>1, CallType DEF ClientInv, ClientTypeOK
<1>2. /\ call'[w] = c
      /\ \A v \in Workers \ {w} : call'[v] = call[v]
      /\ call' \in [Workers -> Call]
  BY <1>a, <1>b, Updated DEF ClientInv
<1>3. ClientTypeOK'
  BY <1>1, <1>2, CallType, Sizes DEF ClientInv, ClientTypeOK
<1>4. /\ lock = w /\ \A v \in Workers \ {w} : call[v].pc \notin {"check", "stamp"}
      /\ token = WholeSecond(call[w].clock) + TTL
  BY <1>1 DEF ClientInv, LockInv
<1>5. LET at == call[w].clock s == WholeSecond(at) IN s \in Nat /\ s <= at /\ at <= s + 1
  BY CallType, Rounding DEF ClientInv
<1>6. Paired' /\ call[w].clock + Margin < token + Second
  BY <1>1, <1>4, <1>5, CallType, Sizes DEF ClientInv, Paired, Second
<1>7. LockInv'
  BY <1>1, <1>2, <1>4, <1>6, Sizes DEF LockInv
<1>8. Deadline(w)' /\ Told(w)'
  BY <1>1, <1>2, <1>6, CallType, Sizes DEF ClientInv, ClientTypeOK, Deadline, Told, Request
<1> QED
  BY <1>1, <1>2, <1>3, <1>7, <1>8, Others DEF ClientInv

LEMMA SignFailsKeeps == ASSUME ClientInv, NEW w \in Workers, SignFails(w) PROVE ClientInv'
<1>1. /\ call[w].pc = "check" /\ lock' = NoWorker
      /\ call' = [call EXCEPT ![w].pc = "idle", ![w].outcome = "noToken",
                            ![w].clock = 0, ![w].token = NoToken, ![w].answer = "none"]
      /\ UNCHANGED <<now, token, expiresAt, wire, done>>
  BY DEF SignFails, Close
<1> DEFINE c == [call[w] EXCEPT !.pc = "idle", !.outcome = "noToken", !.clock = 0, !.token = NoToken, !.answer = "none"]
<1>a. c \in Call
  BY <1>1, CallType, Sizes DEF ClientInv, Call, Outcome
<1>b. call' = [call EXCEPT ![w] = c]
  BY <1>1, CallType DEF ClientInv, ClientTypeOK
<1>2. /\ call'[w] = c
      /\ \A v \in Workers \ {w} : call'[v] = call[v]
      /\ call' \in [Workers -> Call]
  BY <1>a, <1>b, Updated DEF ClientInv
<1>f. /\ call'[w].pc = "idle" /\ call'[w].kind = call[w].kind /\ call'[w].n = call[w].n
      /\ call'[w].attempt = call[w].attempt /\ call'[w].answer = "none"
      /\ call'[w].outcome = "noToken"
  BY <1>2, CallType DEF ClientInv, Call
<1>g. \A v \in Workers \ {w} : call'[v] = call[v]
  BY <1>2
<1>3. ClientTypeOK'
  BY <1>1, <1>2, CallType, Sizes DEF ClientInv, ClientTypeOK
<1>4. lock = w /\ \A v \in Workers : call[v].pc # "stamp"
  BY <1>1 DEF ClientInv, LockInv
<1>5. LockInv'
  BY <1>1, <1>2, <1>4, Sizes DEF ClientInv, LockInv, Paired
<1>6. Deadline(w)'
  BY <1>1, <1>2 DEF Deadline
<1>7. Told(w)'
  BY <1>1, <1>f DEF ClientInv, Told, Request
<1> QED
  BY <1>1, <1>2, <1>3, <1>5, <1>6, <1>7, Others DEF ClientInv

LEMMA SendKeeps == ASSUME ClientInv, NEW w \in Workers, Send(w) PROVE ClientInv'
<1>1. /\ call[w].pc = "send" /\ wire' = wire \cup {Request(w)}
      /\ call' = [call EXCEPT ![w].pc = "waiting", ![w].clock = now, ![w].answer = "none"]
      /\ UNCHANGED <<now, token, expiresAt, lock, done>>
  BY DEF Send
<1> DEFINE c == [call[w] EXCEPT !.pc = "waiting", !.clock = now, !.answer = "none"]
<1>a. c \in Call
  BY <1>1, CallType, Sizes DEF ClientInv, Call, Outcome
<1>b. call' = [call EXCEPT ![w] = c]
  BY <1>1, CallType DEF ClientInv, ClientTypeOK
<1>2. /\ call'[w] = c
      /\ \A v \in Workers \ {w} : call'[v] = call[v]
      /\ call' \in [Workers -> Call]
  BY <1>a, <1>b, Updated DEF ClientInv
<1>c. call[w].n \in 1..MaxCalls
  BY <1>1, CallType, Sizes DEF ClientInv, Told
<1>3. Request(w) \in Requests /\ Request(w).worker = w
  BY <1>c, CallType DEF ClientInv, Request, Requests
<1>4. ClientTypeOK'
  BY <1>1, <1>2, <1>3, CallType, Sizes DEF ClientInv, ClientTypeOK, Requests
<1>5. LockInv'
  BY <1>1, <1>2, LockKept
<1>6. Deadline(w)'
  BY <1>1, <1>2, CallType, Sizes DEF ClientInv, ClientTypeOK, Deadline, Reach, Second
<1>7. Told(w)'
  BY <1>1, <1>2, CallType, Sizes DEF ClientInv, ClientTypeOK, Told, Request
<1>8. ASSUME NEW v \in Workers \ {w} PROVE (Deadline(v) /\ Told(v))'
  BY <1>1, <1>2, <1>3 DEF ClientInv, Deadline, Told, Request
<1> QED
  BY <1>4, <1>5, <1>6, <1>7, <1>8 DEF ClientInv

LEMMA WakeKeeps == ASSUME ClientInv, NEW w \in Workers, Wake(w) PROVE ClientInv'
<1>1. /\ call[w].pc = "backoff"
      /\ call' = [call EXCEPT ![w].pc = "token"]
      /\ UNCHANGED <<now, token, expiresAt, lock, wire, done>>
  BY DEF Wake, Goto
<1> DEFINE c == [call[w] EXCEPT !.pc = "token"]
<1>a. c \in Call
  BY <1>1, CallType, Sizes DEF ClientInv, Call, Outcome
<1>b. call' = [call EXCEPT ![w] = c]
  BY <1>1, CallType DEF ClientInv, ClientTypeOK
<1>2. /\ call'[w] = c
      /\ \A v \in Workers \ {w} : call'[v] = call[v]
      /\ call' \in [Workers -> Call]
  BY <1>a, <1>b, Updated DEF ClientInv
<1>3. ClientTypeOK'
  BY <1>1, <1>2, CallType, Sizes DEF ClientInv, ClientTypeOK
<1>4. LockInv'
  BY <1>1, <1>2, LockKept
<1>5. Deadline(w)' /\ Told(w)'
  BY <1>1, <1>2, CallType, Sizes DEF ClientInv, ClientTypeOK, Deadline, Told, Request
<1> QED
  BY <1>1, <1>2, <1>3, <1>4, <1>5, Others DEF ClientInv

\* The end of a call: a normal return only upon an answer that says so.
LEMMA CloseKeeps ==
  ASSUME ClientInv, NEW w \in Workers, call[w].pc = "waiting", NEW o \in Outcome,
         o = "returned" => call[w].answer = "ok", Close(w, o),
         UNCHANGED <<now, token, expiresAt, lock, wire, done>>
  PROVE  ClientInv'
<1>1. call' = [call EXCEPT ![w].pc = "idle", ![w].outcome = o,
                            ![w].clock = 0, ![w].token = NoToken, ![w].answer = "none"]
  BY DEF Close
<1> DEFINE c == [call[w] EXCEPT !.pc = "idle", !.outcome = o, !.clock = 0, !.token = NoToken, !.answer = "none"]
<1>a. c \in Call
  BY <1>1, CallType, Sizes DEF ClientInv, Call, Outcome
<1>b. call' = [call EXCEPT ![w] = c]
  BY <1>1, CallType DEF ClientInv, ClientTypeOK
<1>2. /\ call'[w] = c
      /\ \A v \in Workers \ {w} : call'[v] = call[v]
      /\ call' \in [Workers -> Call]
  BY <1>a, <1>b, Updated DEF ClientInv
<1>f. /\ call'[w].pc = "idle" /\ call'[w].kind = call[w].kind /\ call'[w].n = call[w].n
      /\ call'[w].attempt = call[w].attempt /\ call'[w].answer = "none"
      /\ call'[w].outcome = o
  BY <1>2, CallType DEF ClientInv, Call
<1>g. \A v \in Workers \ {w} : call'[v] = call[v]
  BY <1>2
<1>3. ClientTypeOK'
  BY <1>1, <1>2, CallType, Sizes DEF ClientInv, ClientTypeOK
<1>c. token' = token /\ expiresAt' = expiresAt /\ lock' = lock
  OBVIOUS
<1>4. LockInv'
  BY <1>f, <1>g, <1>c, LockKept
<1>5. Deadline(w)'
  BY <1>f DEF Deadline
<1>6. Told(w)'
  BY <1>f DEF ClientInv, Told, Request
<1> QED
  BY <1>2, <1>3, <1>4, <1>5, <1>6, Others DEF ClientInv

LEMMA RetryKeeps ==
  ASSUME ClientInv, NEW w \in Workers, call[w].pc = "waiting", RetryOrRaise(w),
         UNCHANGED <<now, token, expiresAt, lock, wire, done>>
  PROVE  ClientInv'
<1>1. CASE ~MayRetry(w)
  BY <1>1, CloseKeeps DEF RetryOrRaise, Outcome
<1>2. CASE MayRetry(w)
  <2>0. Sleep(w)
    BY <1>2 DEF RetryOrRaise
  <2>d. call[w].kind = "json" /\ call[w].attempt < MaxRetries
    BY <1>2 DEF MayRetry
  <2>1. call' = [call EXCEPT ![w] = [call[w] EXCEPT !.pc = "backoff",
                      !.attempt = call[w].attempt + 1, !.clock = 0, !.answer = "none"]]
    BY <2>0, CallType DEF Sleep, ClientInv, ClientTypeOK
  <2> DEFINE c == [call[w] EXCEPT !.pc = "backoff", !.attempt = call[w].attempt + 1,
                                  !.clock = 0, !.answer = "none"]
  <2>a. c \in Call
    <3>1. call[w].attempt + 1 \in 0..MaxRetries
      BY <2>d, CallType, Sizes DEF ClientInv
    <3> QED
      BY <3>1, CallType DEF ClientInv, Call
  <2>2. /\ call'[w] = c
        /\ \A v \in Workers \ {w} : call'[v] = call[v]
        /\ call' \in [Workers -> Call]
    BY <2>1, <2>a, Updated DEF ClientInv
  <2>f. /\ call'[w].pc = "backoff" /\ call'[w].kind = "json" /\ call'[w].n = call[w].n
        /\ call'[w].attempt = call[w].attempt + 1 /\ call'[w].answer = "none"
        /\ call'[w].outcome = call[w].outcome
    BY <2>2, <2>d, CallType DEF ClientInv, Call
  <2>g. \A v \in Workers \ {w} : call'[v] = call[v]
    BY <2>2
  <2>3. ClientTypeOK'
    BY <2>2 DEF ClientInv, ClientTypeOK
  <2>b. token' = token /\ expiresAt' = expiresAt /\ lock' = lock
    OBVIOUS
  <2>4. LockInv'
    BY <2>f, <2>g, <2>b, LockKept
  <2>5. Deadline(w)'
    BY <2>f DEF Deadline
  <2>6. Told(w)'
    <3>1. \A r \in wire \cup done : r \in Requests
      BY DEF ClientInv, ClientTypeOK, Requests
    <3>2. call[w].outcome = "open"
      BY DEF ClientInv, Told
    <3>3. \A r \in wire \cup done : r.worker = w => r.n <= call[w].n /\
             (r.n = call[w].n => r.attempt <= call[w].attempt + 1)
      BY <3>1, CallType, Sizes DEF ClientInv, Told, Requests
    <3> QED
      BY <2>f, <3>2, <3>3 DEF ClientInv, Told
  <2> QED
    BY <2>2, <2>3, <2>4, <2>5, <2>6, Others DEF ClientInv
<1> QED
  BY <1>1, <1>2

\* What the server does reaches only the answer of the thread that waits for it.
LEMMA ServerKeeps ==
  ASSUME ClientInv, NEW r \in wire, Execute(r) \/ Reject(r) PROVE ClientInv'
<1> DEFINE w == r.worker
<1>1. /\ r \in Requests /\ w \in Workers
      /\ wire' = wire \ {r} /\ done' \in {done, done \cup {r}}
      /\ now' = now /\ token' = token /\ expiresAt' = expiresAt /\ lock' = lock
  BY DEF ClientInv, ClientTypeOK, Requests, Execute, Reject
<1>2. \/ call' = call
      \/ /\ call[w].pc = "waiting" /\ r = Request(w)
         /\ \E a \in {"ok", "refused", "transient"} :
              /\ call' = [call EXCEPT ![w].answer = a]
              /\ a = "ok" => r \in done'
  BY DEF Execute, Reject, Answered
<1>3. ASSUME NEW v \in Workers
      PROVE  /\ call'[v].pc = call[v].pc /\ call'[v].kind = call[v].kind /\ call'[v].n = call[v].n
             /\ call'[v].attempt = call[v].attempt /\ call'[v].clock = call[v].clock
             /\ call'[v].token = call[v].token /\ call'[v].outcome = call[v].outcome
             /\ call'[v].answer = call[v].answer \/ (call'[v].answer = "ok" => Request(v) \in done')
             /\ call'[v] \in Call
  BY <1>1, <1>2, CallType DEF ClientInv, ClientTypeOK, Call
<1>4. call' \in [Workers -> Call]
  BY <1>1, <1>2, <1>3 DEF ClientInv, ClientTypeOK
<1>5. ClientTypeOK'
  BY <1>1, <1>4 DEF ClientInv, ClientTypeOK, Requests
<1>6. LockInv'
  BY <1>1, <1>3 DEF ClientInv, LockInv, Paired
<1>7. ASSUME NEW v \in Workers PROVE Deadline(v)'
  BY <1>1, <1>3 DEF ClientInv, Deadline
<1>8. ASSUME NEW v \in Workers PROVE Told(v)'
  <2>1. Request(v)' = Request(v)
    BY <1>3 DEF Request
  <2>2. done \subseteq done' /\ wire' \cup done' \subseteq wire \cup done
    BY <1>1
  <2> QED
    BY <1>3, <2>1, <2>2 DEF ClientInv, Told
<1> QED
  BY <1>5, <1>6, <1>7, <1>8 DEF ClientInv

\* Time passes only as long as nobody is held up too long before sending.
LEMMA TickKeeps == ASSUME ClientInv, Tick PROVE ClientInv'
<1>1. /\ now < MaxTime /\ now' = now + 1
      /\ \A w \in Workers :
           call[w].pc \in {"check", "stamp", "send"} => now < call[w].clock + Slack
      /\ UNCHANGED <<token, expiresAt, lock, call, wire, done>>
  BY DEF Tick
<1>2. ClientTypeOK'
  BY <1>1, Sizes DEF ClientInv, ClientTypeOK
<1>3. LockInv'
  BY <1>1 DEF ClientInv, LockInv, Paired
<1>4. ASSUME NEW w \in Workers PROVE (Deadline(w) /\ Told(w))'
  BY <1>1, CallType, Sizes DEF ClientInv, ClientTypeOK, Deadline, Told, Request
<1> QED
  BY <1>2, <1>3, <1>4 DEF ClientInv

LEMMA StepKeeps == ASSUME ClientInv, ClientNext PROVE ClientInv'
<1>1. CASE \E w \in Workers : Begin(w)
  BY <1>1, BeginKeeps
<1>2. ASSUME NEW w \in Workers, Client(w) PROVE ClientInv'
  <2>1. ASSUME Receive(w) PROVE ClientInv'
    BY <2>1, CloseKeeps, RetryKeeps DEF Receive, Outcome
  <2>2. ASSUME NoAnswer(w) PROVE ClientInv'
    BY <2>2, RetryKeeps DEF NoAnswer
  <2> QED
    BY <1>2, <2>1, <2>2, EnterKeeps, ReuseKeeps, SignKeeps, StampKeeps, SignFailsKeeps,
       SendKeeps, WakeKeeps DEF Client
<1>3. CASE \E r \in wire : Execute(r) \/ Reject(r)
  BY <1>3, ServerKeeps
<1>4. CASE Tick
  BY <1>4, TickKeeps
<1> QED
  BY <1>1, <1>2, <1>3, <1>4 DEF ClientNext

LEMMA InitEstablishes == ASSUME ClientInit PROVE ClientInv
<1>1. NoCall \in Call
  BY Sizes DEF NoCall, Call, Outcome
<1>2. ClientTypeOK
  BY <1>1, Sizes DEF ClientInit, ClientTypeOK
<1>3. \A w \in Workers : call[w] = NoCall
  BY DEF ClientInit
<1>4. LockInv
  BY <1>3, Sizes DEF ClientInit, LockInv, Paired, NoCall
<1>5. \A w \in Workers : Deadline(w) /\ Told(w)
  BY <1>3 DEF ClientInit, Deadline, Told, NoCall
<1> QED
  BY <1>2, <1>4, <1>5 DEF ClientInv

-----------------------------------------------------------------------------
(* Theorems *)

\* The invariant, for any number of threads and retries.
THEOREM ClientInvAlways == ClientSpec => []ClientInv
<1>1. ClientInv /\ UNCHANGED clientVars => ClientInv'
  BY DEF clientVars, ClientInv, ClientTypeOK, LockInv, Paired, Deadline, Told, Request
<1> QED
  BY <1>1, InitEstablishes, StepKeeps, PTL DEF ClientSpec

\* The lock of token() pairs every token with its own expiry (auth.py).
THEOREM TokenMatchesExpiryAlways == ClientSpec => []TokenMatchesExpiry
<1>1. ClientInv => TokenMatchesExpiry
  BY Sizes DEF ClientInv, LockInv, Paired, TokenMatchesExpiry
<1> QED
  BY <1>1, ClientInvAlways, PTL

\* A request's token outlives the margin less the delay before sending and the rounding,
\* counted from the attempt at hand: however many attempts and backoffs came before it,
\* and however long any of them took.
THEOREM RequestsBearLiveTokensAlways == ClientSpec => []RequestsBearLiveTokens
<1>1. ClientInv => RequestsBearLiveTokens
  BY CallType, Sizes DEF ClientInv, Deadline, RequestsBearLiveTokens, Reach, Second
<1> QED
  BY <1>1, ClientInvAlways, PTL

\* A normal return is true, and a PUT is executed at most once.
THEOREM OutcomeIsTrueAlways == ClientSpec => []OutcomeIsTrue
<1>1. ASSUME ClientInv, NEW w \in Workers, call[w].kind = "put"
      PROVE  Cardinality(Executions(w)) <= 1
  <2> DEFINE only == [worker |-> w, n |-> call[w].n, attempt |-> 0]
  <2>1. \A r \in Executions(w) : r = only
    <3>1. ASSUME NEW r \in Executions(w) PROVE r = only
      <4>1. r \in Requests /\ r.worker = w /\ r.n = call[w].n
        BY <1>1, <3>1 DEF Executions, ClientInv, ClientTypeOK, Requests
      <4>2. r.attempt <= 0
        BY <1>1, <3>1, <4>1 DEF Executions, ClientInv, Told
      <4>3. r.attempt = 0
        BY <4>1, <4>2, Sizes DEF Requests
      <4> QED
        BY <4>1, <4>3 DEF Requests
    <3> QED
      BY <3>1
  <2>2. Executions(w) \subseteq {only}
    BY <2>1
  <2>3. IsFiniteSet({only}) /\ Cardinality({only}) = 1
    BY FS_Singleton
  <2> QED
    BY <2>2, <2>3, FS_Subset
<1>2. ASSUME ClientInv, NEW w \in Workers, call[w].outcome = "returned", call[w].n > 0
      PROVE  Request(w) \in done
  BY <1>2 DEF ClientInv, Told
<1>3. ClientInv => OutcomeIsTrue
  BY <1>1, <1>2 DEF OutcomeIsTrue
<1> QED
  BY <1>3, ClientInvAlways, PTL

\* Only the end of a call changes its outcome.
LEMMA OutcomeKept ==
  ASSUME ClientTypeOK, NEW w \in Workers, NEW v \in Workers,
         Enter(v) \/ Reuse(v) \/ Sign(v) \/ Stamp(v) \/ Send(v) \/ Wake(v) \/ Sleep(v)
  PROVE  call'[w].outcome = call[w].outcome
<1>1. call[w] \in Call /\ call[v] \in Call /\ call \in [Workers -> Call]
  BY DEF ClientTypeOK
<1>2. CASE Enter(v)
  BY <1>1, <1>2 DEF Enter, Call
<1>3. CASE Reuse(v)
  BY <1>1, <1>3 DEF Reuse, Call
<1>4. CASE Sign(v)
  BY <1>1, <1>4 DEF Sign, Goto, Call
<1>5. CASE Stamp(v)
  BY <1>1, <1>5 DEF Stamp, Call
<1>6. CASE Send(v)
  BY <1>1, <1>6 DEF Send, Call
<1>7. CASE Wake(v)
  BY <1>1, <1>7 DEF Wake, Goto, Call
<1>8. CASE Sleep(v)
  BY <1>1, <1>8 DEF Sleep, Call
<1> QED
  BY <1>2, <1>3, <1>4, <1>5, <1>6, <1>7, <1>8

LEMMA OutcomeClosed ==
  ASSUME ClientTypeOK, NEW w \in Workers, NEW v \in Workers, NEW o \in Outcome, Close(v, o)
  PROVE  call'[w].outcome = (IF v = w THEN o ELSE call[w].outcome)
BY DEF ClientTypeOK, Close, Call

\* A call that may be repeated is given up only after the last permitted attempt.
THEOREM NoEarlySurrenderAlways == ClientSpec => NoEarlySurrender
<1>1. ASSUME ClientInv, ClientNext, NEW w \in Workers, Surrenders(w)
      PROVE  call[w].attempt = MaxRetries
  <2>1. ASSUME NEW v \in Workers, RetryOrRaise(v) PROVE call[w].attempt = MaxRetries
    <3>1. CASE MayRetry(v)
      BY <1>1, <2>1, <3>1, OutcomeKept DEF RetryOrRaise, Surrenders, ClientInv
    <3>2. CASE ~MayRetry(v)
      <4>1. Close(v, "gaveUp")
        BY <2>1, <3>2 DEF RetryOrRaise
      <4>2. v = w
        BY <1>1, <4>1, OutcomeClosed DEF Surrenders, ClientInv, Outcome
      <4> QED
        BY <1>1, <3>2, <4>2, CallType, Sizes DEF MayRetry, Surrenders, ClientInv
    <3> QED
      BY <3>1, <3>2
  <2>2. ASSUME NEW v \in Workers, Begin(v) PROVE FALSE
    <3>1. PICK kind \in {"json", "put"} :
            call' = [call EXCEPT ![v] =
              [NoCall EXCEPT !.kind = kind, !.n = call[v].n + 1, !.outcome = "open",
                             !.pc = IF kind = "json" THEN "token" ELSE "send",
                             !.clock = now]]
      BY <2>2 DEF Begin
    <3> QED
      BY <1>1, <3>1 DEF Surrenders, NoCall, ClientInv, ClientTypeOK
  <2>3. ASSUME NEW v \in Workers, NEW o \in Outcome \ {"gaveUp"}, Close(v, o) PROVE FALSE
    BY <1>1, <2>3, OutcomeClosed DEF Surrenders, ClientInv
  <2>4. ASSUME NEW r \in wire, Execute(r) \/ Reject(r) PROVE FALSE
    <3>1. r.worker \in Workers
      BY <1>1 DEF ClientInv, ClientTypeOK
    <3>2. \/ call' = call
          \/ \E a \in {"ok", "refused", "transient"} : call' = [call EXCEPT ![r.worker].answer = a]
      BY <2>4 DEF Execute, Reject, Answered
    <3> QED
      BY <1>1, <3>1, <3>2 DEF Surrenders, ClientInv, ClientTypeOK, Call
  <2>5. ~Tick
    BY <1>1 DEF Tick, Surrenders
  <2>6. ASSUME NEW v \in Workers, Client(v) PROVE call[w].attempt = MaxRetries
    <3>1. CASE Receive(v)
      BY <2>1, <2>3, <3>1 DEF Receive, Outcome
    <3>2. CASE NoAnswer(v)
      BY <2>1, <3>2 DEF NoAnswer
    <3>3. CASE SignFails(v)
      BY <2>3, <3>3 DEF SignFails, Outcome
    <3> QED
      BY <1>1, <2>6, <3>1, <3>2, <3>3, OutcomeKept DEF Client, Surrenders, ClientInv
  <2> QED
    BY <1>1, <2>2, <2>4, <2>5, <2>6 DEF ClientNext
<1>2. ASSUME UNCHANGED clientVars, NEW w \in Workers PROVE ~Surrenders(w)
  BY <1>2 DEF clientVars, Surrenders
<1>3. ClientInv /\ [ClientNext]_clientVars =>
        [\A w \in Workers : Surrenders(w) => call[w].attempt = MaxRetries]_clientVars
  BY <1>1, <1>2
<1> QED
  BY <1>3, ClientInvAlways, PTL DEF ClientSpec, NoEarlySurrender
=============================================================================
