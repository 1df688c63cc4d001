---- MODULE RateLimit ----
(***************************************************************************)
(* internal/mesh/http_ratelimit.go: the token bucket per client address    *)
(* in front of the node's HTTP interface, switched on.                     *)
(*                                                                         *)
(* allow reads the clock before it takes rl.mu, so that requests may pass  *)
(* the lock in another order than the one their clocks were read in: a     *)
(* handler reads the clock in Arrive and decides in Allow, at most         *)
(* MaxDelay later.  Time is counted in ticks, with Rate tokens a tick.     *)
(***************************************************************************)
EXTENDS Integers

CONSTANTS
  Ips, Loopback,          \* client addresses, and those of this machine
  Paths,                  \* the paths that are asked for
  Handlers,               \* requests that are served at a time
  RPS, BurstOption,       \* http_rate_limit_rps and http_rate_limit_burst
  TTL,                    \* a bucket that nobody used for that long is dropped
  MaxDelay, MaxTime,      \* bounds: waiting for rl.mu; the clock
  None                    \* no bucket, no call

VARIABLES
  now,                    \* the time
  bucket,                 \* rl.bucket: address -> its bucket, None without one
  handler,                \* the call of allow a handler is in, None without one
  spent                   \* what was granted to an address since each time

vars == <<now, bucket, handler, spent>>

Rate  == IF RPS <= 0 THEN 25 ELSE RPS
Burst == IF BurstOption <= 0 THEN 50 ELSE BurstOption

AllPaths == {"status", "height", "block", "tx", "apply", "propose", "otherChain",
             "debug", "peers", "root"}

rateCost(path) ==
  CASE path \in {"status", "height", "block"} -> 1
    [] path = "tx" -> 5
    [] path = "apply" -> 8
    [] path = "propose" -> 10
    [] OTHER -> 1

Costs == {1, 5, 8, 10}

ASSUME OptionsAssumption == /\ RPS \in Int /\ BurstOption \in Int
                            /\ Paths \subseteq AllPaths /\ Loopback \subseteq Ips
ASSUME TimesAssumption == TTL \in Nat /\ MaxDelay \in Nat /\ MaxTime \in Nat

\* A bucket is full again when it is dropped, were it kept.
ASSUME RefillAssumption == Burst <= Rate * (TTL - 2 * MaxDelay)

Times == 0 .. MaxTime

Buckets == [tokens : 0 .. Burst, last : Times, seen : Times]
Calls   == [ip : Ips, cost : Costs, stamp : Times]

ASSUME NoneAssumption == None \notin Buckets \cup Calls

(* The requests that the middleware passes to the limiter.                 *)
Metered(ip, path) ==
  /\ path # "root"
  /\ ~(path = "debug" /\ ip \notin Loopback)
  /\ ~(ip \in Loopback /\ rateCost(path) >= 5)

Init ==
  /\ now = 0
  /\ bucket = [ip \in Ips |-> None]
  /\ handler = [h \in Handlers |-> None]
  /\ spent = [ip \in Ips |-> [s \in Times |-> 0]]

(* The middleware calls allow, which reads the clock.                      *)
Arrive(h, ip, path) ==
  /\ handler[h] = None
  /\ Metered(ip, path)
  /\ handler' = [handler EXCEPT ![h] = [ip |-> ip, cost |-> rateCost(path), stamp |-> now]]
  /\ UNCHANGED <<now, bucket, spent>>

(* A sweep that forgets how long the bucket was idle.                      *)
CollectedAlways(b, t) == None

(* What a call that read the clock at t leaves of a bucket it does not use. *)
Collected(b, t) == IF b # None /\ t - b.seen > TTL THEN None ELSE b

AtMost(n, limit) == IF n > limit THEN limit ELSE n

(* A refill without the cap.                                               *)
RefilledUncapped(b, t) ==
  IF b = None THEN [tokens |-> Burst, last |-> t, seen |-> t]
  ELSE IF t > b.last
    THEN [tokens |-> b.tokens + Rate * (t - b.last), last |-> t, seen |-> t]
    ELSE [b EXCEPT !.seen = t]

(* The bucket of a call that read the clock at t, before it is charged.    *)
Refilled(b, t) ==
  IF b = None THEN [tokens |-> Burst, last |-> t, seen |-> t]
  ELSE IF t > b.last
    THEN [tokens |-> AtMost(b.tokens + Rate * (t - b.last), Burst), last |-> t, seen |-> t]
    ELSE [b EXCEPT !.seen = t]

(* A charge before the test, which refused requests pay too.               *)
ChargedAnyway(b, cost) ==
  [b EXCEPT !.tokens = IF @ < cost THEN 0 ELSE @ - cost]

Charged(b, cost) == IF b.tokens < cost THEN b ELSE [b EXCEPT !.tokens = @ - cost]

(* allow, under rl.mu: collect, refill, charge.                            *)
Allow(h) ==
  LET c == handler[h]
      b == Refilled(Collected(bucket[c.ip], c.stamp), c.stamp)
  IN /\ c # None
     /\ bucket' = [ip \in Ips |-> IF ip = c.ip THEN Charged(b, c.cost)
                                  ELSE Collected(bucket[ip], c.stamp)]
     /\ handler' = [handler EXCEPT ![h] = None]
     /\ spent' = IF b.tokens < c.cost THEN spent
                 ELSE [spent EXCEPT ![c.ip] =
                         [s \in Times |-> IF s <= now THEN @[s] + c.cost ELSE @[s]]]
     /\ UNCHANGED now

Tick ==
  /\ now < MaxTime
  /\ \A h \in Handlers : handler[h] # None => now - handler[h].stamp < MaxDelay
  /\ now' = now + 1
  /\ UNCHANGED <<bucket, handler, spent>>

Next ==
  \/ \E h \in Handlers, ip \in Ips, path \in Paths : Arrive(h, ip, path)
  \/ \E h \in Handlers : Allow(h)
  \/ Tick

Spec == Init /\ [][Next]_vars

(* Every bucket holds between nothing and the burst, and every call was    *)
(* stamped at most MaxDelay ago (ipBucket, allow).                         *)
TypeOK ==
  /\ now \in Times
  /\ bucket \in [Ips -> Buckets \cup {None}]
  /\ handler \in [Handlers -> Calls \cup {None}]
  /\ spent \in [Ips -> [Times -> Nat]]

(* No client is ever granted more than one burst and the rate in a stretch *)
(* of time, whatever it asks for, however its calls overtake each other on *)
(* their way to rl.mu, and whoever has its idle bucket dropped (allow).    *)
WindowBound ==
  \A ip \in Ips : \A s \in 0 .. now :
    spent[ip][s] <= Burst + Rate * (now - s + MaxDelay)

(* A client is refused for what it was granted itself: there is a stretch  *)
(* of time up to now in which this request would take it over a burst and  *)
(* the rate.  Refused requests, requests of other clients and the sweep of *)
(* idle buckets never cost it anything (allow).                            *)
RefusedForAReason ==
  [][\A h \in Handlers :
       handler[h] # None /\ handler'[h] = None /\ spent' = spent =>
         \E s \in 0 .. now :
           spent[handler[h].ip][s] + handler[h].cost > Burst + Rate * (now - s - MaxDelay)]_vars

====
