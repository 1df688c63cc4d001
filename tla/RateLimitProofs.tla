---- MODULE RateLimitProofs ----
(***************************************************************************)
(* Proofs about RateLimit.  A bucket and what was granted since each time  *)
(* determine each other: the tokens are the least that any stretch of time *)
(* leaves of a burst and the rate.  Fair says so of one address, up to the *)
(* delay between reading the clock and taking the lock.                    *)
(***************************************************************************)
EXTENDS RateLimit, TLAPS

(* What holds of the bucket b of an address that was granted sp[s] since   *)
(* each time s, at time n.                                                 *)
Fair(b, sp, n) ==
  IF b = None THEN \A s \in 0 .. n : sp[s] <= Rate * (n - s)
  ELSE /\ b \in Buckets
       /\ b.last <= n
       /\ b.seen <= b.last /\ b.last <= b.seen + MaxDelay
       /\ \A s \in 0 .. n :
            sp[s] > 0 => b.tokens + sp[s] <= Burst + Rate * (b.last - s + MaxDelay)
       /\ \E s \in 0 .. n : sp[s] + b.tokens >= Burst + Rate * (b.last - s)

InFlight(c, n) == c # None => c \in Calls /\ c.stamp <= n /\ n <= c.stamp + MaxDelay

IInv ==
  /\ now \in Times
  /\ bucket \in [Ips -> Buckets \cup {None}]
  /\ handler \in [Handlers -> Calls \cup {None}]
  /\ spent \in [Ips -> [Times -> Nat]]
  /\ \A h \in Handlers : InFlight(handler[h], now)
  /\ \A ip \in Ips : \A s \in Times : s > now => spent[ip][s] = 0
  /\ \A ip \in Ips : Fair(bucket[ip], spent[ip], now)

LEMMA RateNat == Rate \in Nat /\ Rate > 0 /\ Burst \in Nat /\ Burst > 0
  BY OptionsAssumption DEF Rate, Burst

(* Products by the rate are monotonic.                                     *)
LEMMA RateMono == \A x, y \in Int : x <= y => Rate * x <= Rate * y
<1>1. \A r \in Nat, x, y \in Int : x <= y => r * (y - x) >= 0
  OBVIOUS
<1>2. \A r \in Nat, x, y \in Int : r * (y - x) = r * y - r * x
  OBVIOUS
<1>3. \A r \in Nat, x, y \in Int : x <= y => r * x <= r * y
  <2> SUFFICES ASSUME NEW r \in Nat, NEW x \in Int, NEW y \in Int, x <= y
               PROVE  r * x <= r * y
    OBVIOUS
  <2>1. r * y - r * x >= 0
    BY <1>1, <1>2
  <2>2. r * x \in Int /\ r * y \in Int
    OBVIOUS
  <2>3. QED
    BY <2>1, <2>2
<1>4. QED
  BY <1>3, RateNat

(* Dropping an idle bucket changes nothing: it would be full.              *)
LEMMA CollectedFair ==
  ASSUME NEW b, NEW sp \in [Times -> Nat], NEW n \in Times, NEW t \in Times,
         t <= n, Fair(b, sp, n)
  PROVE  Fair(Collected(b, t), sp, n)
<1>1. CASE b = None \/ ~(t - b.seen > TTL)
  BY <1>1 DEF Collected
<1>2. CASE b # None /\ t - b.seen > TTL
  <2>1. Collected(b, t) = None
    BY <1>2 DEF Collected
  <2>2. SUFFICES ASSUME NEW s \in 0 .. n PROVE sp[s] <= Rate * (n - s)
    BY <2>1 DEF Fair
  <2>3. /\ b.tokens \in Nat /\ b.last \in Int /\ b.seen \in Int
        /\ b.last <= b.seen + MaxDelay
        /\ sp[s] > 0 => b.tokens + sp[s] <= Burst + Rate * (b.last - s + MaxDelay)
    BY <1>2, RateNat DEF Fair, Buckets, Times
  <2>4. /\ s \in Nat /\ n \in Nat /\ t \in Nat /\ s <= n /\ sp[s] \in Nat
        /\ TTL \in Nat /\ MaxDelay \in Nat /\ Rate \in Nat /\ Burst \in Nat
    BY TimesAssumption, RateNat DEF Times
  <2>5. (TTL - 2 * MaxDelay) + (b.last - s + MaxDelay) <= n - s
    BY <1>2, <2>3, <2>4
  <2>6. Rate * ((TTL - 2 * MaxDelay) + (b.last - s + MaxDelay)) <= Rate * (n - s)
    BY <2>3, <2>4, <2>5, RateMono
  <2>7. Rate * (TTL - 2 * MaxDelay) + Rate * (b.last - s + MaxDelay) <= Rate * (n - s)
    BY <2>3, <2>4, <2>6
  <2>8. Rate * (n - s) >= 0
    BY <2>4, RateMono
  <2>9. QED
    BY <2>3, <2>4, <2>7, <2>8, RefillAssumption
<1>3. QED
  BY <1>1, <1>2

(* A refill adds no more than the rate, and no less unless it is capped.   *)
LEMMA RefilledFair ==
  ASSUME NEW b, NEW sp \in [Times -> Nat], NEW n \in Times, NEW t \in Times,
         t <= n, n <= t + MaxDelay, Fair(b, sp, n)
  PROVE  /\ Fair(Refilled(b, t), sp, n)
         /\ Refilled(b, t) \in Buckets
         /\ t <= Refilled(b, t).last
         /\ Refilled(b, t).seen = t
<1> DEFINE r == Refilled(b, t)
<1>0. /\ n \in Nat /\ t \in Nat /\ 0 .. n \subseteq Times
      /\ MaxDelay \in Nat /\ Rate \in Nat /\ Burst \in Nat
      /\ \A s \in 0 .. n : s \in Nat /\ s <= n /\ sp[s] \in Nat
  BY TimesAssumption, RateNat DEF Times
<1>1. CASE b = None
  <2>1. r = [tokens |-> Burst, last |-> t, seen |-> t]
    BY <1>1 DEF Refilled
  <2>2. r \in Buckets /\ r # None
    BY <2>1, <1>0, NoneAssumption DEF Buckets
  <2>3. ASSUME NEW s \in 0 .. n
        PROVE  r.tokens + sp[s] <= Burst + Rate * (r.last - s + MaxDelay)
    <3>1. sp[s] <= Rate * (n - s)
      BY <1>1 DEF Fair
    <3>2. Rate * (n - s) <= Rate * (t - s + MaxDelay)
      BY <1>0, RateMono
    <3>3. Rate * (n - s) \in Int /\ Rate * (t - s + MaxDelay) \in Int
      BY <1>0
    <3>4. QED
      BY <1>0, <2>1, <3>1, <3>2, <3>3
  <2>4. t \in 0 .. n /\ sp[t] + r.tokens >= Burst + Rate * (r.last - t)
    BY <1>0, <2>1
  <2>5. QED
    BY <1>0, <2>1, <2>2, <2>3, <2>4 DEF Fair
<1>2. CASE b # None
  <2>1. /\ b \in Buckets /\ b.last <= n
        /\ b.tokens \in 0 .. Burst /\ b.last \in Nat /\ b.seen \in Nat
        /\ b.last <= b.seen + MaxDelay /\ b.seen <= b.last
    BY <1>2 DEF Fair, Buckets, Times
  <2>2. CASE ~(t > b.last)
    <3>1. r = [b EXCEPT !.seen = t]
      BY <1>2, <2>2 DEF Refilled
    <3>2. r \in Buckets /\ r.tokens = b.tokens /\ r.last = b.last /\ r.seen = t
      BY <2>1, <3>1 DEF Buckets
    <3>3. r # None
      BY <3>2, NoneAssumption
    <3>4. t <= b.last /\ b.last <= t + MaxDelay
      BY <1>0, <2>1, <2>2
    <3>5. QED
      BY <1>2, <2>1, <3>2, <3>3, <3>4 DEF Fair
  <2>3. CASE t > b.last
    <3>1. r = [tokens |-> AtMost(b.tokens + Rate * (t - b.last), Burst),
               last |-> t, seen |-> t]
      BY <1>2, <2>3 DEF Refilled
    <3>2. Rate * (t - b.last) \in Nat
      <4>1. Rate * 0 <= Rate * (t - b.last)
        BY <1>0, <2>1, <2>3, RateMono
      <4>2. QED
        BY <1>0, <2>1, <4>1
    <3>3. /\ r.tokens \in 0 .. Burst
          /\ r.tokens <= b.tokens + Rate * (t - b.last)
          /\ r.tokens = b.tokens + Rate * (t - b.last) \/ r.tokens = Burst
      BY <1>0, <2>1, <3>1, <3>2 DEF AtMost
    <3>4. r \in Buckets /\ r.last = t /\ r.seen = t /\ r.tokens \in Nat
      BY <1>0, <3>1, <3>3 DEF Buckets
    <3>5. r # None
      BY <3>4, NoneAssumption
    <3>6. ASSUME NEW s \in 0 .. n, sp[s] > 0
          PROVE  r.tokens + sp[s] <= Burst + Rate * (r.last - s + MaxDelay)
      <4>1. b.tokens + sp[s] <= Burst + Rate * (b.last - s + MaxDelay)
        BY <1>2, <3>6 DEF Fair
      <4>2. Rate * (b.last - s + MaxDelay) + Rate * (t - b.last)
              = Rate * (t - s + MaxDelay)
        BY <1>0, <2>1
      <4>3. Rate * (b.last - s + MaxDelay) \in Int /\ Rate * (t - s + MaxDelay) \in Int
        BY <1>0, <2>1
      <4>4. QED
        BY <1>0, <2>1, <3>2, <3>3, <3>4, <4>1, <4>2, <4>3
    <3>7. \E s \in 0 .. n : sp[s] + r.tokens >= Burst + Rate * (r.last - s)
      <4>1. CASE r.tokens = Burst
        <5>1. t \in 0 .. n /\ sp[t] + r.tokens >= Burst + Rate * (r.last - t)
          BY <1>0, <3>4, <4>1
        <5>2. QED
          BY <5>1
      <4>2. CASE r.tokens = b.tokens + Rate * (t - b.last)
        <5>1. PICK s \in 0 .. n : sp[s] + b.tokens >= Burst + Rate * (b.last - s)
          BY <1>2 DEF Fair
        <5>2. Rate * (b.last - s) + Rate * (t - b.last) = Rate * (t - s)
          BY <1>0, <2>1
        <5>3. Rate * (b.last - s) \in Int /\ Rate * (t - s) \in Int
          BY <1>0, <2>1
        <5>4. sp[s] + r.tokens >= Burst + Rate * (t - s)
          BY <1>0, <2>1, <3>2, <4>2, <5>1, <5>2, <5>3
        <5>5. QED
          BY <3>4, <5>4
      <4>3. QED
        BY <3>3, <4>1, <4>2
    <3>8. QED
      BY <1>0, <3>4, <3>5, <3>6, <3>7 DEF Fair
  <2>4. QED
    BY <2>2, <2>3
<1>3. QED
  BY <1>1, <1>2

(* What is granted is taken from the tokens.                               *)
LEMMA ChargedFair ==
  ASSUME NEW b \in Buckets, NEW sp \in [Times -> Nat], NEW n \in Times,
         NEW cost \in Costs, Fair(b, sp, n), b.tokens >= cost, n <= b.last + MaxDelay
  PROVE  /\ Charged(b, cost) \in Buckets
         /\ Fair(Charged(b, cost),
                 [s \in Times |-> IF s <= n THEN sp[s] + cost ELSE sp[s]], n)
<1> DEFINE r == Charged(b, cost)
           q == [s \in Times |-> IF s <= n THEN sp[s] + cost ELSE sp[s]]
<1>0. /\ n \in Nat /\ cost \in Nat /\ cost > 0 /\ 0 .. n \subseteq Times
      /\ MaxDelay \in Nat /\ Rate \in Nat /\ Burst \in Nat
      /\ \A s \in 0 .. n : s \in Nat /\ s <= n /\ sp[s] \in Nat
  BY TimesAssumption, RateNat DEF Times, Costs
<1>1. b.tokens \in 0 .. Burst /\ b.last \in Nat /\ b.seen \in Nat
  BY DEF Buckets, Times
<1>2. r = [b EXCEPT !.tokens = @ - cost]
  BY <1>0, <1>1 DEF Charged
<1>3. /\ r \in Buckets /\ r.tokens = b.tokens - cost
      /\ r.last = b.last /\ r.seen = b.seen
  BY <1>0, <1>1, <1>2 DEF Buckets
<1>4. \A s \in 0 .. n : q[s] = sp[s] + cost
  BY <1>0
<1>5. b # None /\ r # None
  BY <1>3, NoneAssumption
<1>6. ASSUME NEW s \in 0 .. n
      PROVE  r.tokens + q[s] <= Burst + Rate * (r.last - s + MaxDelay)
  <2>1. Rate * (b.last - s + MaxDelay) \in Int
    BY <1>0, <1>1
  <2>2. CASE sp[s] > 0
    <3>1. b.tokens + sp[s] <= Burst + Rate * (b.last - s + MaxDelay)
      BY <1>5, <2>2 DEF Fair
    <3>2. QED
      BY <1>0, <1>1, <1>3, <1>4, <2>1, <3>1
  <2>3. CASE sp[s] = 0
    <3>1. Rate * 0 <= Rate * (b.last - s + MaxDelay)
      BY <1>0, <1>1, RateMono
    <3>2. QED
      BY <1>0, <1>1, <1>3, <1>4, <2>1, <2>3, <3>1
  <2>4. QED
    BY <1>0, <2>2, <2>3
<1>7. \E s \in 0 .. n : q[s] + r.tokens >= Burst + Rate * (r.last - s)
  <2>1. PICK s \in 0 .. n : sp[s] + b.tokens >= Burst + Rate * (b.last - s)
    BY <1>5 DEF Fair
  <2>2. Rate * (b.last - s) \in Int
    BY <1>0, <1>1
  <2>3. QED
    BY <1>0, <1>1, <1>3, <1>4, <2>1, <2>2
<1>8. r.last <= n /\ r.seen <= r.last /\ r.last <= r.seen + MaxDelay
  BY <1>3, <1>5 DEF Fair
<1>9. Fair(r, q, n)
  BY <1>3, <1>5, <1>6, <1>7, <1>8 DEF Fair
<1>10. QED
  BY <1>3, <1>9

(* The clock may go on.                                                    *)
LEMMA TickFair ==
  ASSUME NEW b, NEW sp \in [Times -> Nat], NEW n \in Times, NEW m \in Times,
         m = n + 1, sp[m] = 0, Fair(b, sp, n)
  PROVE  Fair(b, sp, m)
<1>a. n \in Nat /\ 0 .. n \subseteq Times
  BY TimesAssumption DEF Times
<1>b. \A s \in 0 .. m : s \in 0 .. n \/ s = m
  BY <1>a
<1>c. \A s \in 0 .. n : s \in Nat /\ s <= n /\ sp[s] \in Nat
  BY <1>a
<1>0. /\ n \in Nat /\ m = n + 1 /\ Rate \in Nat
      /\ \A s \in 0 .. m : s \in 0 .. n \/ s = m
      /\ \A s \in 0 .. n : s \in Nat /\ s <= n /\ sp[s] \in Nat
  BY <1>a, <1>b, <1>c, RateNat
<1>1. CASE b = None
  <2>1. ASSUME NEW s \in 0 .. m PROVE sp[s] <= Rate * (m - s)
    <3>1. CASE s = m
      BY <1>0, <3>1
    <3>2. CASE s \in 0 .. n
      <4>1. sp[s] <= Rate * (n - s)
        BY <1>1, <3>2 DEF Fair
      <4>2. Rate * (n - s) <= Rate * (m - s)
        BY <1>0, <3>2, RateMono
      <4>3. Rate * (n - s) \in Int /\ Rate * (m - s) \in Int
        BY <1>0, <3>2
      <4>4. QED
        BY <1>0, <3>2, <4>1, <4>2, <4>3
    <3>3. QED
      BY <1>0, <3>1, <3>2
  <2>2. QED
    BY <1>1, <2>1 DEF Fair
<1>2. CASE b # None
  <2>1. b.last \in Nat /\ b.last <= n
    BY <1>2 DEF Fair, Buckets, Times
  <2>2. \A s \in 0 .. m :
          sp[s] > 0 => b.tokens + sp[s] <= Burst + Rate * (b.last - s + MaxDelay)
    BY <1>0, <1>2 DEF Fair
  <2>3. \E s \in 0 .. m : sp[s] + b.tokens >= Burst + Rate * (b.last - s)
    <3>1. 0 .. n \subseteq 0 .. m
      BY <1>0
    <3>2. QED
      BY <1>2, <3>1 DEF Fair
  <2>4. QED
    BY <1>0, <1>2, <2>1, <2>2, <2>3 DEF Fair
<1>3. QED
  BY <1>1, <1>2

LEMMA RateCost == \A path : rateCost(path) \in Costs
  BY DEF rateCost, Costs

LEMMA InitInv == Init => IInv
<1> SUFFICES ASSUME Init PROVE IInv
  OBVIOUS
<1>1. 0 \in Times /\ Rate \in Nat
  BY TimesAssumption, RateNat DEF Times
<1>2. \A ip \in Ips : Fair(bucket[ip], spent[ip], now)
  <2> SUFFICES ASSUME NEW ip \in Ips PROVE Fair(None, [s \in Times |-> 0], 0)
    BY DEF Init
  <2>1. \A s \in 0 .. 0 : s = 0 /\ s \in Times
    BY <1>1
  <2>2. \A s \in 0 .. 0 : [x \in Times |-> 0][s] <= Rate * (0 - s)
    BY <1>1, <2>1
  <2>3. QED
    BY <2>2 DEF Fair
<1>3. QED
  BY <1>1, <1>2 DEF Init, IInv, InFlight

LEMMA ArriveInv ==
  ASSUME IInv, NEW h \in Handlers, NEW ip \in Ips, NEW path \in Paths, Arrive(h, ip, path)
  PROVE  IInv'
<1> DEFINE c == [ip |-> ip, cost |-> rateCost(path), stamp |-> now]
<1>1. c \in Calls /\ InFlight(c, now)
  <2>1. now \in Nat /\ now <= now + MaxDelay
    BY TimesAssumption DEF IInv, Times
  <2>2. c \in Calls
    BY RateCost DEF Calls, IInv
  <2>3. QED
    BY <2>1, <2>2 DEF InFlight
<1>2. handler' = [handler EXCEPT ![h] = c]
  BY DEF Arrive
<1>3. \A g \in Handlers : InFlight(handler'[g], now)
  BY <1>1, <1>2 DEF IInv
<1>4. handler' \in [Handlers -> Calls \cup {None}]
  BY <1>1, <1>2 DEF IInv
<1>5. QED
  BY <1>3, <1>4 DEF Arrive, IInv

(* What a call of allow knows when it has collected and refilled.          *)
LEMMA AllowFair ==
  ASSUME IInv, NEW h \in Handlers, handler[h] # None
  PROVE  LET c == handler[h]
             b == Refilled(Collected(bucket[c.ip], c.stamp), c.stamp)
         IN /\ c \in Calls /\ c.stamp <= now /\ now <= c.stamp + MaxDelay
            /\ b \in Buckets
            /\ c.stamp <= b.last
            /\ Fair(b, spent[c.ip], now)
<1> DEFINE c == handler[h]
<1>1. c \in Calls /\ c.stamp <= now /\ now <= c.stamp + MaxDelay
  BY DEF IInv, InFlight
<1>2. c.ip \in Ips /\ c.stamp \in Times /\ now \in Times
  BY <1>1 DEF IInv, Calls
<1>3. spent[c.ip] \in [Times -> Nat] /\ Fair(bucket[c.ip], spent[c.ip], now)
  BY <1>2 DEF IInv
<1>4. Fair(Collected(bucket[c.ip], c.stamp), spent[c.ip], now)
  BY <1>1, <1>2, <1>3, CollectedFair
<1>5. QED
  BY <1>1, <1>2, <1>3, <1>4, RefilledFair

LEMMA AllowInv ==
  ASSUME IInv, NEW h \in Handlers, Allow(h)
  PROVE  IInv'
<1> DEFINE c == handler[h]
           b == Refilled(Collected(bucket[c.ip], c.stamp), c.stamp)
           q == [s \in Times |-> IF s <= now THEN spent[c.ip][s] + c.cost
                                 ELSE spent[c.ip][s]]
<1>0. /\ now \in Times /\ now' = now
      /\ handler \in [Handlers -> Calls \cup {None}]
      /\ handler' = [handler EXCEPT ![h] = None]
      /\ bucket' = [ip \in Ips |-> IF ip = c.ip THEN Charged(b, c.cost)
                                   ELSE Collected(bucket[ip], c.stamp)]
      /\ spent' = IF b.tokens < c.cost THEN spent ELSE [spent EXCEPT ![c.ip] = q]
      /\ spent \in [Ips -> [Times -> Nat]]
      /\ \A g \in Handlers : InFlight(handler[g], now)
      /\ \A ip \in Ips : Fair(bucket[ip], spent[ip], now)
      /\ bucket \in [Ips -> Buckets \cup {None}]
      /\ \A ip \in Ips : \A s \in Times : s > now => spent[ip][s] = 0
  BY DEF Allow, IInv
<1>a. now' = now /\ now \in Times
  BY <1>0
<1>b. \A ip \in Ips : \A s \in Times : s > now => spent[ip][s] = 0
  BY <1>0
<1>c. spent \in [Ips -> [Times -> Nat]]
  BY <1>0
<1>1. /\ c \in Calls /\ c.stamp <= now /\ now <= c.stamp + MaxDelay
      /\ b \in Buckets /\ c.stamp <= b.last
      /\ Fair(b, spent[c.ip], now)
  BY AllowFair DEF Allow
<1>2. /\ c.ip \in Ips /\ c.stamp \in Times /\ c.cost \in Costs /\ c.cost \in Nat
      /\ c.stamp \in Nat /\ now \in Nat /\ MaxDelay \in Nat
      /\ b.tokens \in Nat /\ b.last \in Nat
  <2>1. c.ip \in Ips /\ c.stamp \in Times /\ c.cost \in Costs
    BY <1>1 DEF Calls
  <2>2. c.cost \in Nat /\ c.stamp \in Nat /\ now \in Nat
    BY <1>0, <2>1 DEF Costs, Times
  <2>3. b.tokens \in Nat /\ b.last \in Nat
    BY <1>1, RateNat DEF Buckets, Times
  <2>4. QED
    BY <2>1, <2>2, <2>3, TimesAssumption
<1>3. \A g \in Handlers : InFlight(handler'[g], now)
  BY <1>0 DEF InFlight
<1>4. handler' \in [Handlers -> Calls \cup {None}]
  BY <1>0
<1>5. \A ip \in Ips : ip # c.ip =>
        bucket'[ip] \in Buckets \cup {None} /\ Fair(bucket'[ip], spent[ip], now)
  <2> SUFFICES ASSUME NEW ip \in Ips, ip # c.ip
               PROVE  bucket'[ip] \in Buckets \cup {None} /\ Fair(bucket'[ip], spent[ip], now)
    OBVIOUS
  <2>1. bucket'[ip] = Collected(bucket[ip], c.stamp)
    BY <1>0
  <2>2. spent[ip] \in [Times -> Nat] /\ Fair(bucket[ip], spent[ip], now)
    BY <1>0
  <2>3. bucket'[ip] \in Buckets \cup {None}
    BY <1>0, <2>1 DEF Collected
  <2>4. QED
    BY <1>0, <1>1, <1>2, <2>1, <2>2, <2>3, CollectedFair
<1>6. CASE b.tokens < c.cost
  <2>1. Charged(b, c.cost) = b
    BY <1>6 DEF Charged
  <2>2. spent' = spent /\ bucket'[c.ip] = b
    BY <1>0, <1>2, <1>6, <2>1
  <2>3. \A ip \in Ips : bucket'[ip] \in Buckets \cup {None} /\ Fair(bucket'[ip], spent'[ip], now)
    BY <1>1, <1>5, <2>2
  <2>4. bucket' \in [Ips -> Buckets \cup {None}]
    BY <1>0, <2>3
  <2>5. /\ now' \in Times
        /\ spent' \in [Ips -> [Times -> Nat]]
        /\ \A g \in Handlers : InFlight(handler'[g], now')
        /\ \A ip \in Ips : \A s \in Times : s > now' => spent'[ip][s] = 0
        /\ \A ip \in Ips : Fair(bucket'[ip], spent'[ip], now')
    BY <1>a, <1>b, <1>c, <1>3, <2>2, <2>3
  <2>6. QED
    BY <1>4, <2>4, <2>5 DEF IInv
<1>7. CASE ~(b.tokens < c.cost)
  <2>1. spent' = [spent EXCEPT ![c.ip] = q]
    BY <1>0, <1>7
  <2>2. spent[c.ip] \in [Times -> Nat]
    BY <1>0, <1>2
  <2>3. q \in [Times -> Nat]
    BY <1>2, <2>2
  <2>4. b.tokens >= c.cost /\ now <= b.last + MaxDelay
    BY <1>1, <1>2, <1>7
  <2>5. Charged(b, c.cost) \in Buckets /\ Fair(Charged(b, c.cost), q, now)
    BY <1>0, <1>1, <1>2, <2>2, <2>4, ChargedFair
  <2>6. /\ spent'[c.ip] = q /\ bucket'[c.ip] = Charged(b, c.cost)
        /\ \A ip \in Ips : ip # c.ip => spent'[ip] = spent[ip]
        /\ spent' \in [Ips -> [Times -> Nat]]
    BY <1>0, <1>2, <2>1, <2>3
  <2>7. \A ip \in Ips : bucket'[ip] \in Buckets \cup {None} /\ Fair(bucket'[ip], spent'[ip], now)
    BY <1>5, <2>5, <2>6
  <2>8. bucket' \in [Ips -> Buckets \cup {None}]
    BY <1>0, <2>7
  <2>9. \A ip \in Ips : \A s \in Times : s > now => spent'[ip][s] = 0
    <3>1. \A s \in Times : s > now => q[s] = 0
      <4>1. \A s \in Times : s > now => ~(s <= now)
        BY <1>2 DEF Times
      <4>2. QED
        BY <1>0, <1>2, <4>1
    <3>2. QED
      BY <1>0, <2>6, <3>1
  <2>10. /\ now' \in Times
         /\ \A g \in Handlers : InFlight(handler'[g], now')
         /\ \A ip \in Ips : \A s \in Times : s > now' => spent'[ip][s] = 0
         /\ \A ip \in Ips : Fair(bucket'[ip], spent'[ip], now')
    BY <1>a, <1>3, <2>7, <2>9
  <2>11. QED
    BY <1>4, <2>6, <2>8, <2>10 DEF IInv
<1>8. QED
  BY <1>6, <1>7

LEMMA TickInv == IInv /\ Tick => IInv'
<1> SUFFICES ASSUME IInv, Tick PROVE IInv'
  OBVIOUS
<1>1. /\ now \in Nat /\ now' = now + 1 /\ now' \in Times /\ MaxDelay \in Nat
      /\ now \in Times
  BY TimesAssumption DEF IInv, Tick, Times
<1>2. ASSUME NEW h \in Handlers PROVE InFlight(handler[h], now')
  <2> SUFFICES ASSUME handler[h] # None PROVE InFlight(handler[h], now')
    BY DEF InFlight
  <2>1. handler[h] \in Calls /\ handler[h].stamp <= now /\ now - handler[h].stamp < MaxDelay
    BY DEF IInv, InFlight, Tick
  <2>2. handler[h].stamp \in Nat
    BY <2>1 DEF Calls, Times
  <2>3. QED
    BY <1>1, <2>1, <2>2 DEF InFlight
<1>3. ASSUME NEW ip \in Ips PROVE Fair(bucket[ip], spent[ip], now')
  <2>1. spent[ip] \in [Times -> Nat] /\ Fair(bucket[ip], spent[ip], now)
    BY DEF IInv
  <2>2. spent[ip][now'] = 0
    BY <1>1 DEF IInv
  <2>3. QED
    BY <1>1, <2>1, <2>2, TickFair
<1>4. \A ip \in Ips : \A s \in Times : s > now' => spent[ip][s] = 0
  <2>1. \A s \in Times : s > now' => s > now
    BY <1>1 DEF Times
  <2>2. QED
    BY <2>1 DEF IInv
<1>5. UNCHANGED <<bucket, handler, spent>>
  BY DEF Tick
<1>6. QED
  BY <1>1, <1>2, <1>3, <1>4, <1>5 DEF IInv

(* IInv is inductive.                                                      *)
THEOREM Invariance == Spec => []IInv
<1>1. IInv /\ [Next]_vars => IInv'
  <2> SUFFICES ASSUME IInv, [Next]_vars PROVE IInv'
    OBVIOUS
  <2>1. CASE Next
    BY <2>1, ArriveInv, AllowInv, TickInv DEF Next
  <2>2. CASE UNCHANGED vars
    BY <2>2 DEF vars, IInv
  <2>3. QED
    BY <2>1, <2>2
<1>2. QED
  BY <1>1, InitInv, PTL DEF Spec

(* Buckets and calls are what allow takes them for, at every time.         *)
THEOREM Typing == Spec => []TypeOK
<1>1. IInv => TypeOK
  BY DEF IInv, TypeOK
<1>2. QED
  BY <1>1, Invariance, PTL

(* In no stretch of time is an address granted more than a burst and the   *)
(* rate, whatever the options and the number of clients (allow).           *)
THEOREM Limit == Spec => []WindowBound
<1>1. IInv => WindowBound
  <2> SUFFICES ASSUME IInv, NEW ip \in Ips, NEW s \in 0 .. now
               PROVE  spent[ip][s] <= Burst + Rate * (now - s + MaxDelay)
    BY DEF WindowBound
  <2> DEFINE b == bucket[ip]
  <2>1. /\ now \in Nat /\ s \in Nat /\ s <= now /\ spent[ip][s] \in Nat
        /\ MaxDelay \in Nat /\ Burst \in Nat /\ Rate \in Nat
        /\ Fair(b, spent[ip], now)
    <3>1. now \in Nat /\ s \in Times
      BY TimesAssumption DEF IInv, Times
    <3>2. QED
      BY <3>1, TimesAssumption, RateNat DEF IInv
  <2>2. Rate * 0 <= Rate * (now - s + MaxDelay)
    BY <2>1, RateMono
  <2>3. Rate * (now - s + MaxDelay) \in Int
    BY <2>1
  <2>4. CASE b = None
    <3>1. spent[ip][s] <= Rate * (now - s)
      BY <2>1, <2>4 DEF Fair
    <3>2. Rate * (now - s) <= Rate * (now - s + MaxDelay) /\ Rate * (now - s) \in Int
      BY <2>1, RateMono
    <3>3. QED
      BY <2>1, <2>3, <3>1, <3>2
  <2>5. CASE b # None
    <3>1. b.tokens \in Nat /\ b.last \in Nat /\ b.last <= now
      BY <2>1, <2>5 DEF Fair, Buckets, Times
    <3>2. spent[ip][s] > 0 =>
            b.tokens + spent[ip][s] <= Burst + Rate * (b.last - s + MaxDelay)
      BY <2>1, <2>5 DEF Fair
    <3>3. /\ Rate * (b.last - s + MaxDelay) <= Rate * (now - s + MaxDelay)
          /\ Rate * (b.last - s + MaxDelay) \in Int
      BY <2>1, <3>1, RateMono
    <3>4. QED
      BY <2>1, <2>2, <2>3, <3>1, <3>2, <3>3
  <2>6. QED
    BY <2>4, <2>5
<1>2. QED
  BY <1>1, Invariance, PTL

(* A client that stays within a burst and the rate is not refused, whoever *)
(* else calls, however often it was refused before (allow).                *)
THEOREM NoUnfairRefusal == Spec => RefusedForAReason
<1> DEFINE Reason ==
      \A h \in Handlers :
        handler[h] # None /\ handler'[h] = None /\ spent' = spent =>
          \E s \in 0 .. now :
            spent[handler[h].ip][s] + handler[h].cost > Burst + Rate * (now - s - MaxDelay)
<1>1. IInv /\ [Next]_vars => [Reason]_vars
  <2> SUFFICES ASSUME IInv, Next, NEW h \in Handlers,
                      handler[h] # None, handler'[h] = None, spent' = spent
               PROVE  \E s \in 0 .. now : spent[handler[h].ip][s] + handler[h].cost
                                            > Burst + Rate * (now - s - MaxDelay)
    OBVIOUS
  <2> DEFINE c == handler[h]
             b == Refilled(Collected(bucket[c.ip], c.stamp), c.stamp)
             q == [s \in Times |-> IF s <= now THEN spent[c.ip][s] + c.cost
                                   ELSE spent[c.ip][s]]
  <2>1. Allow(h)
    <3>1. handler \in [Handlers -> Calls \cup {None}]
      BY DEF IInv
    <3>2. ASSUME NEW g \in Handlers, NEW ip \in Ips, NEW path \in Paths, Arrive(g, ip, path)
          PROVE  FALSE
      BY <3>1, <3>2 DEF Arrive
    <3>3. ASSUME NEW g \in Handlers, Allow(g), g # h
          PROVE  FALSE
      BY <3>1, <3>3 DEF Allow
    <3>4. ~Tick
      BY DEF Tick
    <3>5. QED
      BY <3>2, <3>3, <3>4 DEF Next
  <2>2. /\ c \in Calls /\ c.stamp <= now /\ now <= c.stamp + MaxDelay
        /\ b \in Buckets /\ c.stamp <= b.last
        /\ Fair(b, spent[c.ip], now)
    BY AllowFair
  <2>3. /\ c.ip \in Ips /\ c.cost \in Nat /\ c.cost > 0 /\ c.stamp \in Nat
        /\ now \in Nat /\ now \in Times /\ b.tokens \in Nat /\ b.last \in Nat
        /\ MaxDelay \in Nat /\ Rate \in Nat /\ Burst \in Nat
        /\ spent \in [Ips -> [Times -> Nat]]
        /\ \A s \in 0 .. now : s \in Nat /\ s <= now /\ spent[c.ip][s] \in Nat
    <3>1. c.ip \in Ips /\ c.cost \in Nat /\ c.cost > 0 /\ c.stamp \in Nat
      BY <2>2 DEF Calls, Costs, Times
    <3>2. b.tokens \in Nat /\ b.last \in Nat
      BY <2>2, RateNat DEF Buckets, Times
    <3>3. now \in Nat /\ now \in Times /\ 0 .. now \subseteq Times
      BY TimesAssumption DEF IInv, Times
    <3>4. spent \in [Ips -> [Times -> Nat]]
      BY DEF IInv
    <3>5. \A s \in 0 .. now : s \in Nat /\ s <= now /\ spent[c.ip][s] \in Nat
      BY <3>1, <3>3, <3>4
    <3>6. QED
      BY <3>1, <3>2, <3>3, <3>4, <3>5, RateNat, TimesAssumption
  <2>4. b.tokens < c.cost
    <3> SUFFICES ASSUME ~(b.tokens < c.cost) PROVE FALSE
      OBVIOUS
    <3>1. spent' = [spent EXCEPT ![c.ip] = q]
      BY <2>1 DEF Allow
    <3>2. spent'[c.ip][now] = spent[c.ip][now] + c.cost
      BY <2>3, <3>1
    <3>3. now \in 0 .. now
      BY <2>3
    <3>4. QED
      BY <2>3, <3>2, <3>3
  <2>5. PICK s \in 0 .. now : spent[c.ip][s] + b.tokens >= Burst + Rate * (b.last - s)
    BY <2>2, NoneAssumption DEF Fair
  <2>6. Rate * (now - s - MaxDelay) <= Rate * (b.last - s)
    BY <2>2, <2>3, RateMono
  <2>7. Rate * (now - s - MaxDelay) \in Int /\ Rate * (b.last - s) \in Int
    BY <2>3
  <2>8. spent[c.ip][s] + c.cost > Burst + Rate * (now - s - MaxDelay)
    BY <2>3, <2>4, <2>5, <2>6, <2>7
  <2>9. QED
    BY <2>8
<1>2. Spec => [][Reason]_vars
  BY <1>1, Invariance, PTL DEF Spec
<1>3. QED
  BY <1>2 DEF RefusedForAReason
====
