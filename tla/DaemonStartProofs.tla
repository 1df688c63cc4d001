-------------------------- MODULE DaemonStartProofs --------------------------
(***************************************************************************)
(* Proofs about the two things a start of the daemon takes from its disk:  *)
(* keys and certificates (KeyFiles), for any number of nodes, and blocks   *)
(* and snapshot (Startup), for any bounds.                                 *)
(*                                                                         *)
(* Keys.  What a node writes alone (certificate and key, wallet, identity) *)
(* is described by Own, node by node.  Of the CA the argument is that a    *)
(* key file with a key is the end of its making: from then on, without a   *)
(* race, no node finds a reason to make another, and every certificate is  *)
(* signed by it.                                                           *)
(*                                                                         *)
(* Blocks.  Whole says what a start that refuses damage still has to read, *)
(* and keeps a trace of every damage it found until it halts on it;        *)
(* FilesKept says that every gap below a whole file has one of the causes  *)
(* that GoodFilesKept names.                                               *)
(***************************************************************************)
EXTENDS KeyFiles, Startup, TLAPS

Content == Key \cup {Absent, Torn}
Stage == {"off", "failed", "running", "readCert", "readKey", "makeCA", "caCert",
          "openCaKey", "caKey", "issue", "cert", "openKey", "key", "wallet", "ident", "ready"}

Typing ==
  /\ caCert \in Content /\ caKey \in Content
  /\ cert \in [Node -> [key : Content, by : Key \cup {Absent}]]
  /\ key \in [Node -> Content]
  /\ wallet \in [Node -> Key \cup {Absent}] /\ ident \in [Node -> Key \cup {Absent}]
  /\ at \in [Node -> Stage] /\ up \in SUBSET Node /\ cut \in SUBSET Node
  /\ raced \in BOOLEAN
  /\ ca \in [Node -> [cert : Content, key : Content]]
  /\ made \in [Node -> Nat]
  /\ first \in [Node -> [wallet : Key \cup {Absent}, ident : Key \cup {Absent}]]

UsesCA(n) == at[n] = "readCert" \/ Reading(n) \/ Writing(n)
NoPair(n) == cert[n].key = Absent /\ key[n] = Absent
Pair(n) == cert[n].key \in Key /\ key[n] = cert[n].key /\ cert[n].by # Absent

\* Certificate and key: complete, absent, or cut for good.
PairInv(n) ==
  /\ n \in cut => at[n] \in {"off", "failed"} /\ n \notin up /\ cert[n].key # key[n]
  /\ at[n] = "cert" => cert[n] = Unsigned(Torn) /\ key[n] = Absent
  /\ at[n] = "openKey" =>
       cert[n].key = <<n, made[n]>> /\ cert[n].by # Absent /\ key[n] = Absent
  /\ at[n] = "key" =>
       cert[n].key = <<n, made[n]>> /\ cert[n].by # Absent /\ key[n] = Torn
  /\ at[n] \notin {"cert", "openKey", "key"} /\ n \notin cut => NoPair(n) \/ Pair(n)
  /\ at[n] \in {"wallet", "ident", "ready"} \/ n \in up => Pair(n)
  /\ UsesCA(n) /\ n \notin up => NoPair(n)
  /\ at[n] = "issue" => NoPair(n)
  /\ n \in up <=> at[n] = "running" \/ (UsesCA(n) /\ Pair(n))
  /\ at[n] \in {"issue", "cert"} \/ Writing(n) => ca[n].cert \in Key /\ ca[n].key \in Key
  /\ Writing(n) => ca[n].cert = ca[n].key

\* Wallet and identity: once they have been used, they are there.
IdInv(n) ==
  /\ at[n] \in {"ident", "ready"} => wallet[n] # Absent
  /\ at[n] = "ready" => ident[n] # Absent
  /\ first[n].ident # Absent =>
       /\ wallet[n] # Absent /\ ident[n] # Absent
       /\ first[n] = [wallet |-> wallet[n], ident |-> ident[n]]
  /\ n \in up => first[n].ident # Absent

Own == \A n \in Node : PairInv(n) /\ IdInv(n)

\* The CA, as long as no two nodes have used its files at once.
CaInv ==
  /\ caKey \in Key => caCert = caKey
  /\ \A m, n \in Node : Writing(m) /\ (Reading(n) \/ Writing(n)) => m = n
  /\ \A n \in Node :
       /\ Writing(n) \/ at[n] = "makeCA" => caKey \notin Key
       /\ at[n] \in {"openCaKey", "caKey"} => caCert = ca[n].cert
       /\ at[n] = "readKey" => ca[n].cert = caCert
       /\ at[n] \in {"issue", "cert"} =>
            caKey \in Key /\ ca[n].cert = caKey /\ ca[n].key = caKey
       /\ cert[n].by # Absent => caKey \in Key /\ cert[n].by = caKey

IInv == Typing /\ Own /\ (raced \/ CaInv) /\ StuckOnlyIfCut

LEMMA Contents ==
  /\ Absent \notin Key /\ Torn \notin Key /\ Absent # Torn
  /\ \A n \in Node, i \in Nat : <<n, i>> \in Key
BY KeyAssumption DEF Key

LEMMA NewIsKey == Typing => \A n \in Node : New(n) \in Key /\ <<n, made[n]>> \in Key
BY Contents DEF Typing, New

\* What a step has to show, and what it may start from.
LEMMA Parts ==
  /\ IInv => Typing /\ (\A n \in Node : PairInv(n) /\ IdInv(n)) /\ (raced \/ CaInv)
  /\ (Typing /\ (\A n \in Node : PairInv(n) /\ IdInv(n)) /\ (raced \/ CaInv) /\ StuckOnlyIfCut)'
     => IInv'
BY DEF IInv, Own

LEMMA IInvInit == KeyInit => IInv
<1> SUFFICES ASSUME KeyInit PROVE IInv
  OBVIOUS
<1>1. Typing
  BY Contents DEF KeyInit, Typing, Content, Stage, Unsigned, Neither
<1>2. Own
  BY Contents DEF KeyInit, Own, PairInv, IdInv, NoPair, Pair, Unsigned, UsesCA, Reading, Writing
<1>3. CaInv
  BY Contents DEF KeyInit, CaInv, Unsigned, UsesCA, Reading, Writing
<1>4. StuckOnlyIfCut
  BY DEF KeyInit, StuckOnlyIfCut
<1>5. QED
  BY <1>1, <1>2, <1>3, <1>4 DEF IInv

LEMMA StepStart ==
  ASSUME IInv, NEW n \in Node, StartTLS(n)
  PROVE  IInv'
<1> USE Contents, Parts
<1> USE DEF StartTLS, Go, shared, own, keyHistory
<1>0. New(n) \in Key /\ <<n, made[n]>> \in Key /\ New(n) # Absent
  BY NewIsKey
<1>1. Typing'
  BY <1>0 DEF Typing, Content, Stage
<1>2. ASSUME NEW m \in Node PROVE PairInv(m)'
  <2>1. CASE m = n
    BY <2>1, <1>0, <1>1 DEF Typing, PairInv, NoPair, Pair, UsesCA, Reading, Writing, Content
  <2>2. CASE m # n
    BY <2>2, <1>1 DEF Typing, PairInv, NoPair, Pair, UsesCA, Reading, Writing
  <2>3. QED
    BY <2>1, <2>2
<1>3. ASSUME NEW m \in Node PROVE IdInv(m)'
  BY <1>0, <1>1 DEF Typing, IdInv, UsesCA, Reading, Writing
<1>4. (raced \/ CaInv)'
  BY <1>0, <1>1 DEF Typing, CaInv, Reading, Writing, Content
<1>5. StuckOnlyIfCut'
  BY <1>0, <1>1 DEF Typing, IInv, StuckOnlyIfCut, PairInv, NoPair, Pair, CaInv
<1>6. QED
  BY <1>1, <1>2, <1>3, <1>4, <1>5

LEMMA StepIssue ==
  ASSUME IInv, NEW n \in Node, Issue(n)
  PROVE  IInv'
<1> USE Contents, Parts
<1> USE DEF Issue, Go, Make, Unsigned, shared, own, keyHistory
<1>0. New(n) \in Key /\ <<n, made[n]>> \in Key /\ New(n) # Absent
  BY NewIsKey
<1>1. Typing'
  <2>1. at' \in [Node -> Stage]
    BY <1>0 DEF Typing, Stage
  <2>2. cert' \in [Node -> [key : Content, by : Key \cup {Absent}]]
    <3>1. Unsigned(Torn) \in [key : Content, by : Key \cup {Absent}]
      BY DEF Unsigned, Content
    <3>2. cert' = cert \/ cert' = [cert EXCEPT ![n] = Unsigned(Torn)]
      BY Zenon DEF Unsigned
    <3>3. QED
      BY <3>1, <3>2 DEF Typing
  <2>3. made' \in [Node -> Nat]
    BY <1>0 DEF Typing, Content
  <2>4. QED
    BY <2>1, <2>2, <2>3 DEF Typing
<1>2. ASSUME NEW m \in Node PROVE PairInv(m)'
  <2>1. CASE m = n
    BY <2>1, <1>0, <1>1 DEF Typing, PairInv, NoPair, Pair, UsesCA, Reading, Writing, Content, Unsigned
  <2>2. CASE m # n
    BY <2>2, <1>1 DEF Typing, PairInv, NoPair, Pair, UsesCA, Reading, Writing
  <2>3. QED
    BY <2>1, <2>2
<1>3. ASSUME NEW m \in Node PROVE IdInv(m)'
  BY <1>0, <1>1 DEF Typing, IdInv, UsesCA, Reading, Writing
<1>4. (raced \/ CaInv)'
  <2> SUFFICES ASSUME ~raced' PROVE CaInv'
    OBVIOUS
  <2>1. CaInv /\ ~raced
    OBVIOUS
  <2>2. (caKey \in Key => caCert = caKey)'
    BY <2>1, <1>0 DEF CaInv, PairInv, Writing, Reading
  <2>3. ASSUME NEW m \in Node, NEW k \in Node, (Writing(m) /\ (Reading(k) \/ Writing(k)))'
        PROVE  m = k
    BY <2>1, <2>3, <1>0 DEF CaInv, Reading, Writing, Typing
  <2>4. ASSUME NEW m \in Node
        PROVE  (/\ Writing(m) \/ at[m] = "makeCA" => caKey \notin Key
                /\ at[m] \in {"openCaKey", "caKey"} => caCert = ca[m].cert
                /\ at[m] = "readKey" => ca[m].cert = caCert
                /\ at[m] \in {"issue", "cert"} =>
                     caKey \in Key /\ ca[m].cert = caKey /\ ca[m].key = caKey
                /\ cert[m].by # Absent => caKey \in Key /\ cert[m].by = caKey)'
    <3>1. CASE m = n
      BY <3>1, <2>1, <1>0 DEF CaInv, PairInv, Reading, Writing, Typing, Content, Unsigned
    <3>2. CASE m # n
      BY <3>2, <2>1, <1>0 DEF CaInv, PairInv, Reading, Writing, Typing, Content, Unsigned
    <3>3. QED
      BY <3>1, <3>2
  <2>5. QED
    BY <2>2, <2>3, <2>4 DEF CaInv
<1>5. StuckOnlyIfCut'
  BY <1>0, <1>1 DEF Typing, IInv, StuckOnlyIfCut, PairInv, NoPair, Pair, CaInv
<1>6. QED
  BY <1>1, <1>2, <1>3, <1>4, <1>5

LEMMA StepWriteCert ==
  ASSUME IInv, NEW n \in Node, WriteCert(n)
  PROVE  IInv'
<1> USE Contents, Parts
<1> USE DEF WriteCert, Go, shared, own, keyHistory
<1>0. New(n) \in Key /\ <<n, made[n]>> \in Key /\ New(n) # Absent
  BY NewIsKey
<1>1. Typing'
  <2>1. at' \in [Node -> Stage]
    BY <1>0 DEF Typing, Stage
  <2>2. cert' \in [Node -> [key : Content, by : Key \cup {Absent}]]
    BY <1>0 DEF Typing, Content, PairInv
  <2>3. QED
    BY <2>1, <2>2 DEF Typing
<1>2. ASSUME NEW m \in Node PROVE PairInv(m)'
  <2>1. CASE m = n
    BY <2>1, <1>0, <1>1 DEF Typing, PairInv, NoPair, Pair, UsesCA, Reading, Writing, Content
  <2>2. CASE m # n
    BY <2>2, <1>1 DEF Typing, PairInv, NoPair, Pair, UsesCA, Reading, Writing
  <2>3. QED
    BY <2>1, <2>2
<1>3. ASSUME NEW m \in Node PROVE IdInv(m)'
  BY <1>0, <1>1 DEF Typing, IdInv, UsesCA, Reading, Writing
<1>4. (raced \/ CaInv)'
  BY <1>0, <1>1 DEF Typing, CaInv, Reading, Writing, Content
<1>5. StuckOnlyIfCut'
  BY <1>0, <1>1 DEF Typing, IInv, StuckOnlyIfCut, PairInv, NoPair, Pair, CaInv
<1>6. QED
  BY <1>1, <1>2, <1>3, <1>4, <1>5

LEMMA StepOpenKey ==
  ASSUME IInv, NEW n \in Node, OpenKey(n)
  PROVE  IInv'
<1> USE Contents, Parts
<1> USE DEF OpenKey, Go, shared, own, keyHistory
<1>0. New(n) \in Key /\ <<n, made[n]>> \in Key /\ New(n) # Absent
  BY NewIsKey
<1>1. Typing'
  BY <1>0 DEF Typing, Content, Stage
<1>2. ASSUME NEW m \in Node PROVE PairInv(m)'
  <2>1. CASE m = n
    BY <2>1, <1>0, <1>1 DEF Typing, PairInv, NoPair, Pair, UsesCA, Reading, Writing, Content
  <2>2. CASE m # n
    BY <2>2, <1>1 DEF Typing, PairInv, NoPair, Pair, UsesCA, Reading, Writing
  <2>3. QED
    BY <2>1, <2>2
<1>3. ASSUME NEW m \in Node PROVE IdInv(m)'
  BY <1>0, <1>1 DEF Typing, IdInv, UsesCA, Reading, Writing
<1>4. (raced \/ CaInv)'
  BY <1>0, <1>1 DEF Typing, CaInv, Reading, Writing, Content
<1>5. StuckOnlyIfCut'
  BY <1>0, <1>1 DEF Typing, IInv, StuckOnlyIfCut, PairInv, NoPair, Pair, CaInv
<1>6. QED
  BY <1>1, <1>2, <1>3, <1>4, <1>5

LEMMA StepWriteKey ==
  ASSUME IInv, NEW n \in Node, WriteKey(n)
  PROVE  IInv'
<1> USE Contents, Parts
<1> USE DEF WriteKey, Go, shared, own, keyHistory
<1>0. New(n) \in Key /\ <<n, made[n]>> \in Key /\ New(n) # Absent
  BY NewIsKey
<1>1. Typing'
  BY <1>0 DEF Typing, Content, Stage
<1>2. ASSUME NEW m \in Node PROVE PairInv(m)'
  <2>1. CASE m = n
    BY <2>1, <1>0, <1>1 DEF Typing, PairInv, NoPair, Pair, UsesCA, Reading, Writing, Content
  <2>2. CASE m # n
    BY <2>2, <1>1 DEF Typing, PairInv, NoPair, Pair, UsesCA, Reading, Writing
  <2>3. QED
    BY <2>1, <2>2
<1>3. ASSUME NEW m \in Node PROVE IdInv(m)'
  BY <1>0, <1>1 DEF Typing, IdInv, UsesCA, Reading, Writing
<1>4. (raced \/ CaInv)'
  BY <1>0, <1>1 DEF Typing, CaInv, Reading, Writing, Content
<1>5. StuckOnlyIfCut'
  BY <1>0, <1>1 DEF Typing, IInv, StuckOnlyIfCut, PairInv, NoPair, Pair, CaInv
<1>6. QED
  BY <1>1, <1>2, <1>3, <1>4, <1>5

LEMMA StepClient ==
  ASSUME IInv, NEW n \in Node, Client(n)
  PROVE  IInv'
<1> USE Contents, Parts
<1> USE DEF Client, Go, shared, own, keyHistory
<1>0. New(n) \in Key /\ <<n, made[n]>> \in Key /\ New(n) # Absent
  BY NewIsKey
<1>1. Typing'
  BY <1>0 DEF Typing, Content, Stage
<1>2. ASSUME NEW m \in Node PROVE PairInv(m)'
  <2>1. CASE m = n
    BY <2>1, <1>0, <1>1 DEF Typing, PairInv, NoPair, Pair, UsesCA, Reading, Writing, Content
  <2>2. CASE m # n
    BY <2>2, <1>1 DEF Typing, PairInv, NoPair, Pair, UsesCA, Reading, Writing
  <2>3. QED
    BY <2>1, <2>2
<1>3. ASSUME NEW m \in Node PROVE IdInv(m)'
  BY <1>0, <1>1 DEF Typing, IdInv, UsesCA, Reading, Writing
<1>4. (raced \/ CaInv)'
  BY <1>0, <1>1 DEF Typing, CaInv, Reading, Writing, Content
<1>5. StuckOnlyIfCut'
  BY <1>0, <1>1 DEF Typing, IInv, StuckOnlyIfCut, PairInv, NoPair, Pair, CaInv
<1>6. QED
  BY <1>1, <1>2, <1>3, <1>4, <1>5

LEMMA StepReadCert ==
  ASSUME IInv, NEW n \in Node, ReadCert(n)
  PROVE  IInv'
<1> USE Contents, Parts
<1> USE DEF ReadCert, Go, shared, own, keyHistory
<1>0. New(n) \in Key /\ <<n, made[n]>> \in Key /\ New(n) # Absent
  BY NewIsKey
<1>1. Typing'
  BY <1>0 DEF Typing, Content, Stage
<1>2. ASSUME NEW m \in Node PROVE PairInv(m)'
  <2>1. CASE m = n
    BY <2>1, <1>0, <1>1 DEF Typing, PairInv, NoPair, Pair, UsesCA, Reading, Writing, Content
  <2>2. CASE m # n
    BY <2>2, <1>1 DEF Typing, PairInv, NoPair, Pair, UsesCA, Reading, Writing
  <2>3. QED
    BY <2>1, <2>2
<1>3. ASSUME NEW m \in Node PROVE IdInv(m)'
  BY <1>0, <1>1 DEF Typing, IdInv, UsesCA, Reading, Writing
<1>4. (raced \/ CaInv)'
  <2> SUFFICES ASSUME ~raced' PROVE CaInv'
    OBVIOUS
  <2>1. CaInv /\ ~raced
    OBVIOUS
  <2>2. (caKey \in Key => caCert = caKey)'
    BY <2>1, <1>0 DEF CaInv, PairInv, Writing, Reading
  <2>3. ASSUME NEW m \in Node, NEW k \in Node, (Writing(m) /\ (Reading(k) \/ Writing(k)))'
        PROVE  m = k
    BY <2>1, <2>3, <1>0 DEF CaInv, Reading, Writing, Typing
  <2>4. ASSUME NEW m \in Node
        PROVE  (/\ Writing(m) \/ at[m] = "makeCA" => caKey \notin Key
                /\ at[m] \in {"openCaKey", "caKey"} => caCert = ca[m].cert
                /\ at[m] = "readKey" => ca[m].cert = caCert
                /\ at[m] \in {"issue", "cert"} =>
                     caKey \in Key /\ ca[m].cert = caKey /\ ca[m].key = caKey
                /\ cert[m].by # Absent => caKey \in Key /\ cert[m].by = caKey)'
    <3>1. CASE m = n
      BY <3>1, <2>1, <1>0 DEF CaInv, PairInv, Reading, Writing, Typing, Content
    <3>2. CASE m # n
      BY <3>2, <2>1, <1>0 DEF CaInv, PairInv, Reading, Writing, Typing, Content
    <3>3. QED
      BY <3>1, <3>2
  <2>5. QED
    BY <2>2, <2>3, <2>4 DEF CaInv
<1>5. StuckOnlyIfCut'
  BY <1>0, <1>1 DEF Typing, IInv, StuckOnlyIfCut, PairInv, NoPair, Pair, CaInv
<1>6. QED
  BY <1>1, <1>2, <1>3, <1>4, <1>5

LEMMA StepReadKey ==
  ASSUME IInv, NEW n \in Node, ReadKey(n)
  PROVE  IInv'
<1> USE Contents, Parts
<1> USE DEF ReadKey, Go, HaveCA, shared, own, keyHistory
<1>0. New(n) \in Key /\ <<n, made[n]>> \in Key /\ New(n) # Absent
  BY NewIsKey
<1>1. Typing'
  <2>1. at' \in [Node -> Stage]
    BY <1>0 DEF Typing, Stage
  <2>2. ca' \in [Node -> [cert : Content, key : Content]]
    BY <1>0 DEF Typing, Content
  <2>3. QED
    BY <2>1, <2>2 DEF Typing
<1>2. ASSUME NEW m \in Node PROVE PairInv(m)'
  <2>1. CASE m = n
    BY <2>1, <1>0, <1>1 DEF Typing, PairInv, NoPair, Pair, UsesCA, Reading, Writing, Content
  <2>2. CASE m # n
    BY <2>2, <1>1 DEF Typing, PairInv, NoPair, Pair, UsesCA, Reading, Writing
  <2>3. QED
    BY <2>1, <2>2
<1>3. ASSUME NEW m \in Node PROVE IdInv(m)'
  BY <1>0, <1>1 DEF Typing, IdInv, UsesCA, Reading, Writing
<1>4. (raced \/ CaInv)'
  BY <1>0, <1>1 DEF Typing, CaInv, Reading, Writing, Content
<1>5. StuckOnlyIfCut'
  BY <1>0, <1>1 DEF Typing, IInv, StuckOnlyIfCut, PairInv, NoPair, Pair, CaInv
<1>6. QED
  BY <1>1, <1>2, <1>3, <1>4, <1>5

LEMMA StepMakeCA ==
  ASSUME IInv, NEW n \in Node, MakeCA(n)
  PROVE  IInv'
<1> USE Contents, Parts
<1> USE DEF MakeCA, Go, Make, shared, own, keyHistory
<1>0. New(n) \in Key /\ <<n, made[n]>> \in Key /\ New(n) # Absent
  BY NewIsKey
<1>1. Typing'
  <2>1. at' \in [Node -> Stage]
    BY <1>0 DEF Typing, Stage
  <2>2. ca' \in [Node -> [cert : Content, key : Content]]
    BY <1>0 DEF Typing, Content
  <2>3. made' \in [Node -> Nat]
    BY <1>0 DEF Typing, Content
  <2>4. caCert' \in Content
    BY <1>0 DEF Typing, Content
  <2>5. raced' \in BOOLEAN
    BY <1>0 DEF Typing, Content
  <2>6. QED
    BY <2>1, <2>2, <2>3, <2>4, <2>5 DEF Typing
<1>2. ASSUME NEW m \in Node PROVE PairInv(m)'
  <2>1. CASE m = n
    BY <2>1, <1>0, <1>1 DEF Typing, PairInv, NoPair, Pair, UsesCA, Reading, Writing, Content
  <2>2. CASE m # n
    BY <2>2, <1>1 DEF Typing, PairInv, NoPair, Pair, UsesCA, Reading, Writing
  <2>3. QED
    BY <2>1, <2>2
<1>3. ASSUME NEW m \in Node PROVE IdInv(m)'
  BY <1>0, <1>1 DEF Typing, IdInv, UsesCA, Reading, Writing
<1>4. (raced \/ CaInv)'
  <2> SUFFICES ASSUME ~raced' PROVE CaInv'
    OBVIOUS
  <2>1. CaInv /\ ~raced
    OBVIOUS
  <2>2. (caKey \in Key => caCert = caKey)'
    BY <2>1, <1>0 DEF CaInv, PairInv, Writing, Reading
  <2>3. ASSUME NEW m \in Node, NEW k \in Node, (Writing(m) /\ (Reading(k) \/ Writing(k)))'
        PROVE  m = k
    BY <2>1, <2>3, <1>0 DEF CaInv, Reading, Writing, Typing
  <2>4. ASSUME NEW m \in Node
        PROVE  (/\ Writing(m) \/ at[m] = "makeCA" => caKey \notin Key
                /\ at[m] \in {"openCaKey", "caKey"} => caCert = ca[m].cert
                /\ at[m] = "readKey" => ca[m].cert = caCert
                /\ at[m] \in {"issue", "cert"} =>
                     caKey \in Key /\ ca[m].cert = caKey /\ ca[m].key = caKey
                /\ cert[m].by # Absent => caKey \in Key /\ cert[m].by = caKey)'
    <3>1. CASE m = n
      BY <3>1, <2>1, <1>0 DEF CaInv, PairInv, Reading, Writing, Typing, Content
    <3>2. CASE m # n
      BY <3>2, <2>1, <1>0 DEF CaInv, PairInv, Reading, Writing, Typing, Content
    <3>3. QED
      BY <3>1, <3>2
  <2>5. QED
    BY <2>2, <2>3, <2>4 DEF CaInv
<1>5. StuckOnlyIfCut'
  BY <1>0, <1>1 DEF Typing, IInv, StuckOnlyIfCut, PairInv, NoPair, Pair, CaInv
<1>6. QED
  BY <1>1, <1>2, <1>3, <1>4, <1>5

LEMMA StepWriteCaCert ==
  ASSUME IInv, NEW n \in Node, WriteCaCert(n)
  PROVE  IInv'
<1> USE Contents, Parts
<1> USE DEF WriteCaCert, Go, shared, own, keyHistory
<1>0. New(n) \in Key /\ <<n, made[n]>> \in Key /\ New(n) # Absent
  BY NewIsKey
<1>1. Typing'
  BY <1>0 DEF Typing, Content, Stage
<1>2. ASSUME NEW m \in Node PROVE PairInv(m)'
  <2>1. CASE m = n
    BY <2>1, <1>0, <1>1 DEF Typing, PairInv, NoPair, Pair, UsesCA, Reading, Writing, Content
  <2>2. CASE m # n
    BY <2>2, <1>1 DEF Typing, PairInv, NoPair, Pair, UsesCA, Reading, Writing
  <2>3. QED
    BY <2>1, <2>2
<1>3. ASSUME NEW m \in Node PROVE IdInv(m)'
  BY <1>0, <1>1 DEF Typing, IdInv, UsesCA, Reading, Writing
<1>4. (raced \/ CaInv)'
  BY <1>0, <1>1 DEF Typing, CaInv, Reading, Writing, Content
<1>5. StuckOnlyIfCut'
  BY <1>0, <1>1 DEF Typing, IInv, StuckOnlyIfCut, PairInv, NoPair, Pair, CaInv
<1>6. QED
  BY <1>1, <1>2, <1>3, <1>4, <1>5

LEMMA StepOpenCaKey ==
  ASSUME IInv, NEW n \in Node, OpenCaKey(n)
  PROVE  IInv'
<1> USE Contents, Parts
<1> USE DEF OpenCaKey, Go, shared, own, keyHistory
<1>0. New(n) \in Key /\ <<n, made[n]>> \in Key /\ New(n) # Absent
  BY NewIsKey
<1>1. Typing'
  BY <1>0 DEF Typing, Content, Stage
<1>2. ASSUME NEW m \in Node PROVE PairInv(m)'
  <2>1. CASE m = n
    BY <2>1, <1>0, <1>1 DEF Typing, PairInv, NoPair, Pair, UsesCA, Reading, Writing, Content
  <2>2. CASE m # n
    BY <2>2, <1>1 DEF Typing, PairInv, NoPair, Pair, UsesCA, Reading, Writing
  <2>3. QED
    BY <2>1, <2>2
<1>3. ASSUME NEW m \in Node PROVE IdInv(m)'
  BY <1>0, <1>1 DEF Typing, IdInv, UsesCA, Reading, Writing
<1>4. (raced \/ CaInv)'
  BY <1>0, <1>1 DEF Typing, CaInv, Reading, Writing, Content
<1>5. StuckOnlyIfCut'
  BY <1>0, <1>1 DEF Typing, IInv, StuckOnlyIfCut, PairInv, NoPair, Pair, CaInv
<1>6. QED
  BY <1>1, <1>2, <1>3, <1>4, <1>5

LEMMA StepWriteCaKey ==
  ASSUME IInv, NEW n \in Node, WriteCaKey(n)
  PROVE  IInv'
<1> USE Contents, Parts
<1> USE DEF WriteCaKey, Go, HaveCA, shared, own, keyHistory
<1>0. New(n) \in Key /\ <<n, made[n]>> \in Key /\ New(n) # Absent
  BY NewIsKey
<1>1. Typing'
  BY <1>0 DEF Typing, Content, Stage
<1>2. ASSUME NEW m \in Node PROVE PairInv(m)'
  <2>1. CASE m = n
    BY <2>1, <1>0, <1>1 DEF Typing, PairInv, NoPair, Pair, UsesCA, Reading, Writing, Content
  <2>2. CASE m # n
    BY <2>2, <1>1 DEF Typing, PairInv, NoPair, Pair, UsesCA, Reading, Writing
  <2>3. QED
    BY <2>1, <2>2
<1>3. ASSUME NEW m \in Node PROVE IdInv(m)'
  BY <1>0, <1>1 DEF Typing, IdInv, UsesCA, Reading, Writing
<1>4. (raced \/ CaInv)'
  <2> SUFFICES ASSUME ~raced' PROVE CaInv'
    OBVIOUS
  <2>1. CaInv /\ ~raced
    OBVIOUS
  <2>2. (caKey \in Key => caCert = caKey)'
    BY <2>1, <1>0 DEF CaInv, PairInv, Writing, Reading
  <2>3. ASSUME NEW m \in Node, NEW k \in Node, (Writing(m) /\ (Reading(k) \/ Writing(k)))'
        PROVE  m = k
    BY <2>1, <2>3, <1>0 DEF CaInv, Reading, Writing, Typing
  <2>4. ASSUME NEW m \in Node
        PROVE  (/\ Writing(m) \/ at[m] = "makeCA" => caKey \notin Key
                /\ at[m] \in {"openCaKey", "caKey"} => caCert = ca[m].cert
                /\ at[m] = "readKey" => ca[m].cert = caCert
                /\ at[m] \in {"issue", "cert"} =>
                     caKey \in Key /\ ca[m].cert = caKey /\ ca[m].key = caKey
                /\ cert[m].by # Absent => caKey \in Key /\ cert[m].by = caKey)'
    <3>1. CASE m = n
      BY <3>1, <2>1, <1>0 DEF CaInv, PairInv, Reading, Writing, Typing, Content
    <3>2. CASE m # n
      BY <3>2, <2>1, <1>0 DEF CaInv, PairInv, Reading, Writing, Typing, Content
    <3>3. QED
      BY <3>1, <3>2
  <2>5. QED
    BY <2>2, <2>3, <2>4 DEF CaInv
<1>5. StuckOnlyIfCut'
  BY <1>0, <1>1 DEF Typing, IInv, StuckOnlyIfCut, PairInv, NoPair, Pair, CaInv
<1>6. QED
  BY <1>1, <1>2, <1>3, <1>4, <1>5

LEMMA StepMakeWallet ==
  ASSUME IInv, NEW n \in Node, MakeWallet(n)
  PROVE  IInv'
<1> USE Contents, Parts
<1> USE DEF MakeWallet, Go, Make, shared, own, keyHistory
<1>0. New(n) \in Key /\ <<n, made[n]>> \in Key /\ New(n) # Absent
  BY NewIsKey
<1>1. Typing'
  <2>1. at' \in [Node -> Stage]
    BY <1>0 DEF Typing, Stage
  <2>2. wallet' \in [Node -> Key \cup {Absent}]
    BY <1>0 DEF Typing, Content
  <2>3. made' \in [Node -> Nat]
    BY <1>0 DEF Typing, Content
  <2>4. QED
    BY <2>1, <2>2, <2>3 DEF Typing
<1>2. ASSUME NEW m \in Node PROVE PairInv(m)'
  <2>1. CASE m = n
    BY <2>1, <1>0, <1>1 DEF Typing, PairInv, NoPair, Pair, UsesCA, Reading, Writing, Content
  <2>2. CASE m # n
    BY <2>2, <1>1 DEF Typing, PairInv, NoPair, Pair, UsesCA, Reading, Writing
  <2>3. QED
    BY <2>1, <2>2
<1>3. ASSUME NEW m \in Node PROVE IdInv(m)'
  BY <1>0, <1>1 DEF Typing, IdInv, UsesCA, Reading, Writing
<1>4. (raced \/ CaInv)'
  BY <1>0, <1>1 DEF Typing, CaInv, Reading, Writing, Content
<1>5. StuckOnlyIfCut'
  BY <1>0, <1>1 DEF Typing, IInv, StuckOnlyIfCut, PairInv, NoPair, Pair, CaInv
<1>6. QED
  BY <1>1, <1>2, <1>3, <1>4, <1>5

LEMMA StepLoadWallet ==
  ASSUME IInv, NEW n \in Node, LoadWallet(n)
  PROVE  IInv'
<1> USE Contents, Parts
<1> USE DEF LoadWallet, Go, shared, own, keyHistory
<1>0. New(n) \in Key /\ <<n, made[n]>> \in Key /\ New(n) # Absent
  BY NewIsKey
<1>1. Typing'
  BY <1>0 DEF Typing, Content, Stage
<1>2. ASSUME NEW m \in Node PROVE PairInv(m)'
  <2>1. CASE m = n
    BY <2>1, <1>0, <1>1 DEF Typing, PairInv, NoPair, Pair, UsesCA, Reading, Writing, Content
  <2>2. CASE m # n
    BY <2>2, <1>1 DEF Typing, PairInv, NoPair, Pair, UsesCA, Reading, Writing
  <2>3. QED
    BY <2>1, <2>2
<1>3. ASSUME NEW m \in Node PROVE IdInv(m)'
  BY <1>0, <1>1 DEF Typing, IdInv, UsesCA, Reading, Writing
<1>4. (raced \/ CaInv)'
  BY <1>0, <1>1 DEF Typing, CaInv, Reading, Writing, Content
<1>5. StuckOnlyIfCut'
  BY <1>0, <1>1 DEF Typing, IInv, StuckOnlyIfCut, PairInv, NoPair, Pair, CaInv
<1>6. QED
  BY <1>1, <1>2, <1>3, <1>4, <1>5

LEMMA StepMakeIdent ==
  ASSUME IInv, NEW n \in Node, MakeIdent(n)
  PROVE  IInv'
<1> USE Contents, Parts
<1> USE DEF MakeIdent, Go, Make, shared, own, keyHistory
<1>0. New(n) \in Key /\ <<n, made[n]>> \in Key /\ New(n) # Absent
  BY NewIsKey
<1>1. Typing'
  <2>1. at' \in [Node -> Stage]
    BY <1>0 DEF Typing, Stage
  <2>2. ident' \in [Node -> Key \cup {Absent}]
    BY <1>0 DEF Typing, Content
  <2>3. made' \in [Node -> Nat]
    BY <1>0 DEF Typing, Content
  <2>4. QED
    BY <2>1, <2>2, <2>3 DEF Typing
<1>2. ASSUME NEW m \in Node PROVE PairInv(m)'
  <2>1. CASE m = n
    BY <2>1, <1>0, <1>1 DEF Typing, PairInv, NoPair, Pair, UsesCA, Reading, Writing, Content
  <2>2. CASE m # n
    BY <2>2, <1>1 DEF Typing, PairInv, NoPair, Pair, UsesCA, Reading, Writing
  <2>3. QED
    BY <2>1, <2>2
<1>3. ASSUME NEW m \in Node PROVE IdInv(m)'
  BY <1>0, <1>1 DEF Typing, IdInv, UsesCA, Reading, Writing
<1>4. (raced \/ CaInv)'
  BY <1>0, <1>1 DEF Typing, CaInv, Reading, Writing, Content
<1>5. StuckOnlyIfCut'
  BY <1>0, <1>1 DEF Typing, IInv, StuckOnlyIfCut, PairInv, NoPair, Pair, CaInv
<1>6. QED
  BY <1>1, <1>2, <1>3, <1>4, <1>5

LEMMA StepLoadIdent ==
  ASSUME IInv, NEW n \in Node, LoadIdent(n)
  PROVE  IInv'
<1> USE Contents, Parts
<1> USE DEF LoadIdent, Go, shared, own, keyHistory
<1>0. New(n) \in Key /\ <<n, made[n]>> \in Key /\ New(n) # Absent
  BY NewIsKey
<1>1. Typing'
  BY <1>0 DEF Typing, Content, Stage
<1>2. ASSUME NEW m \in Node PROVE PairInv(m)'
  <2>1. CASE m = n
    BY <2>1, <1>0, <1>1 DEF Typing, PairInv, NoPair, Pair, UsesCA, Reading, Writing, Content
  <2>2. CASE m # n
    BY <2>2, <1>1 DEF Typing, PairInv, NoPair, Pair, UsesCA, Reading, Writing
  <2>3. QED
    BY <2>1, <2>2
<1>3. ASSUME NEW m \in Node PROVE IdInv(m)'
  BY <1>0, <1>1 DEF Typing, IdInv, UsesCA, Reading, Writing
<1>4. (raced \/ CaInv)'
  BY <1>0, <1>1 DEF Typing, CaInv, Reading, Writing, Content
<1>5. StuckOnlyIfCut'
  BY <1>0, <1>1 DEF Typing, IInv, StuckOnlyIfCut, PairInv, NoPair, Pair, CaInv
<1>6. QED
  BY <1>1, <1>2, <1>3, <1>4, <1>5

LEMMA StepReady ==
  ASSUME IInv, NEW n \in Node, Serve(n)
  PROVE  IInv'
<1> USE Contents, Parts
<1> USE DEF Serve, Go, shared, own, keyHistory
<1>0. New(n) \in Key /\ <<n, made[n]>> \in Key /\ New(n) # Absent
  BY NewIsKey
<1>1. Typing'
  BY <1>0 DEF Typing, Content, Stage
<1>2. ASSUME NEW m \in Node PROVE PairInv(m)'
  <2>1. CASE m = n
    BY <2>1, <1>0, <1>1 DEF Typing, PairInv, NoPair, Pair, UsesCA, Reading, Writing, Content
  <2>2. CASE m # n
    BY <2>2, <1>1 DEF Typing, PairInv, NoPair, Pair, UsesCA, Reading, Writing
  <2>3. QED
    BY <2>1, <2>2
<1>3. ASSUME NEW m \in Node PROVE IdInv(m)'
  BY <1>0, <1>1 DEF Typing, IdInv, UsesCA, Reading, Writing
<1>4. (raced \/ CaInv)'
  BY <1>0, <1>1 DEF Typing, CaInv, Reading, Writing, Content
<1>5. StuckOnlyIfCut'
  BY <1>0, <1>1 DEF Typing, IInv, StuckOnlyIfCut, PairInv, NoPair, Pair, CaInv
<1>6. QED
  BY <1>1, <1>2, <1>3, <1>4, <1>5

LEMMA StepKill ==
  ASSUME IInv, NEW n \in Node, Kill(n)
  PROVE  IInv'
<1> USE Contents, Parts
<1> USE DEF Kill, Go, shared, own, keyHistory
<1>0. New(n) \in Key /\ <<n, made[n]>> \in Key /\ New(n) # Absent
  BY NewIsKey
<1>1. Typing'
  BY <1>0 DEF Typing, Content, Stage
<1>2. ASSUME NEW m \in Node PROVE PairInv(m)'
  <2>1. CASE m = n
    <3>1. n \notin cut /\ at'[n] = "off" /\ n \notin up'
      BY <2>1 DEF Typing, PairInv
    <3>2. CASE at[n] \in {"cert", "openKey", "key"}
      <4>1. cert[n].key # key[n]
        BY <3>2, <1>0 DEF Typing, PairInv, Unsigned
      <4>2. /\ n \in cut' /\ at'[n] = "off"
            /\ UNCHANGED <<cert, key, ca, made>>
            /\ ~UsesCA(n)' /\ ~Writing(n)'
        BY <3>1, <3>2, <1>1 DEF Typing, UsesCA, Reading, Writing
      <4>3. n \notin up'
        BY <3>1
      <4>4. PairInv(n)'
        BY ONLY <4>1, <4>2, <4>3 DEF PairInv
      <4>5. QED
        BY <2>1, <4>4
    <3>3. CASE at[n] \notin {"cert", "openKey", "key"}
      BY <2>1, <3>1, <3>3, <1>1 DEF Typing, PairInv, NoPair, Pair, UsesCA, Reading, Writing
    <3>4. QED
      BY <3>2, <3>3
  <2>2. CASE m # n
    BY <2>2, <1>1 DEF Typing, PairInv, NoPair, Pair, UsesCA, Reading, Writing
  <2>3. QED
    BY <2>1, <2>2
<1>3. ASSUME NEW m \in Node PROVE IdInv(m)'
  BY <1>0, <1>1 DEF Typing, IdInv, UsesCA, Reading, Writing
<1>4. (raced \/ CaInv)'
  BY <1>0, <1>1 DEF Typing, CaInv, Reading, Writing, Content
<1>5. StuckOnlyIfCut'
  BY <1>0, <1>1 DEF Typing, IInv, StuckOnlyIfCut, PairInv, NoPair, Pair, CaInv
<1>6. QED
  BY <1>1, <1>2, <1>3, <1>4, <1>5

LEMMA StepStutter ==
  ASSUME IInv, UNCHANGED keyVars
  PROVE  IInv'
<1> USE DEF keyVars, shared, own, keyHistory
<1>1. Typing'
  BY DEF IInv, Typing
<1>2. Own'
  BY DEF IInv, Own, PairInv, IdInv, NoPair, Pair, UsesCA, Reading, Writing
<1>3. (raced \/ CaInv)'
  BY DEF IInv, CaInv, Reading, Writing
<1>4. StuckOnlyIfCut'
  BY DEF IInv, StuckOnlyIfCut
<1>5. QED
  BY <1>1, <1>2, <1>3, <1>4 DEF IInv

LEMMA IInvNext == IInv /\ [KeyNext]_keyVars => IInv'
<1> SUFFICES ASSUME IInv, [KeyNext]_keyVars PROVE IInv'
  OBVIOUS
<1>1. ASSUME NEW n \in Node, TLS(n) PROVE IInv'
  BY <1>1, StepStart, StepIssue, StepWriteCert, StepOpenKey, StepWriteKey DEF TLS
<1>2. ASSUME NEW n \in Node, CA(n) PROVE IInv'
  BY <1>2, StepClient, StepReadCert, StepReadKey, StepMakeCA, StepWriteCaCert,
     StepOpenCaKey, StepWriteCaKey DEF CA
<1>3. ASSUME NEW n \in Node, Identity(n) PROVE IInv'
  BY <1>3, StepMakeWallet, StepLoadWallet, StepMakeIdent, StepLoadIdent, StepReady
     DEF Identity
<1>4. ASSUME NEW n \in Node, Kill(n) PROVE IInv'
  BY <1>4, StepKill
<1>5. CASE UNCHANGED keyVars
  BY <1>5, StepStutter
<1>6. QED
  BY <1>1, <1>2, <1>3, <1>4, <1>5 DEF KeyNext

\* The three parts of the invariant hold after every sequence of starts, failed starts
\* and kills of any number of daemons that share the parent directory.
THEOREM Invariance == KeySpec => []IInv
BY IInvInit, IInvNext, PTL DEF KeySpec

\* EnsureValidatorIdentityLocked and LoadOrCreateWallet find the files of the first
\* successful start again, whatever was killed since.
THEOREM KeepsKeys == KeySpec => []KeysKept
<1>1. IInv => KeysKept
  BY DEF IInv, Own, IdInv, KeysKept, Typing
<1>2. QED
  BY <1>1, Invariance, PTL

\* ensureHTTPServerTLSFiles fails only after a kill between its certificate and its
\* key, or after a race for the CA: one half-written CA never stops a start.
THEOREM StuckIsCut == KeySpec => []StuckOnlyIfCut
<1>1. IInv => StuckOnlyIfCut
  BY DEF IInv
<1>2. QED
  BY <1>1, Invariance, PTL

\* loadOrCreateSharedHTTPCA gives all running nodes one CA, which has signed the
\* certificates of all of them, unless two nodes used its files at once.
THEOREM OneTrust == KeySpec => []TrustUnlessRaced
<1>1. IInv => TrustUnlessRaced
  BY DEF IInv, Own, PairInv, Pair, CaInv, TrustUnlessRaced, Typing
<1>2. QED
  BY <1>1, Invariance, PTL

-----------------------------------------------------------------------------
(* The other half of a start: the block files (Startup). *)

Height == Nat \ {0}
StartPhase == {"down", "replay_snapshot", "above", "replay_blocks", "ready", "halted"}

StartTyping ==
  /\ phase \in StartPhase
  /\ files \in SUBSET Height /\ bad \in SUBSET Height /\ files \cap bad = {}
  /\ snapshot \in Height \cup {None, Unreadable}
  /\ height \in Nat /\ base \in Nat /\ base <= height
  /\ list \in SUBSET Height
  /\ damaged \in BOOLEAN
  /\ decayed \in SUBSET Height /\ posted \in SUBSET Height /\ lost \in SUBSET Height
  /\ used \in [posts : Nat, crashes : Nat, rots : Nat, restores : Nat]
  /\ phase \in {"down", "replay_snapshot"} => base = 0

-----------------------------------------------------------------------------
(* A node that is ready is whole. *)

Chain == base + 1 .. height

\* A file that the start will halt on: it does not decode, or it is not above the chain.
Stops(h) == h \in bad \/ h <= height

Whole ==
  /\ Starting => Chain \subseteq files
  /\ phase = "above" => \A h \in files \cup bad : h > base => h \in list \cup Chain
  /\ phase = "replay_blocks" => files \cup bad \subseteq list \cup Chain
  /\ phase = "replay_snapshot" /\ damaged => snapshot = Unreadable \/ bad # {} \/ height > 0
  /\ phase = "above" /\ damaged =>
       \/ \E h \in list : Stops(h)
       \/ \E h \in files \cup bad : h <= base
  /\ phase = "replay_blocks" /\ damaged => \E h \in list : Stops(h)

WInv == StartTyping /\ Whole /\ ReadyIsWhole

-----------------------------------------------------------------------------
(* A whole file is given up for one of three reasons. *)

Excused(h) ==
  \/ \E d \in decayed : d < h
  \/ \E p \in posted : p <= h
  \/ used.restores > 0

FilesKept ==
  /\ \A h \in lost : Excused(h)
  /\ bad \subseteq decayed
  /\ \A h \in files, k \in Height : k < h => k \in files \/ Excused(h)
  /\ used.restores = 0 => snapshot = None /\ base = 0 /\ phase # "above"
  /\ Starting \/ phase = "ready" => \A k \in 1 .. height : k \in files \/ Excused(k)
  /\ phase = "replay_snapshot" => height = 0 \/ 1 \in posted
  /\ phase = "replay_blocks" => \A h \in list : h > height \/ Excused(h)
  /\ phase = "replay_blocks" => \A k \in files : k \in list \/ k <= height \/ Excused(k)

KInv == StartTyping /\ FilesKept

-----------------------------------------------------------------------------
(* Typing. *)

LEMMA Apart ==
  None \notin Height /\ Unreadable \notin Height /\ None # Unreadable
BY StartupAssumption DEF StartupAssumption, Height

LEMMA StartTypingInit == Init => StartTyping
<1> SUFFICES ASSUME Init PROVE StartTyping
  OBVIOUS
<1>1. used \in [posts : Nat, crashes : Nat, rots : Nat, restores : Nat]
  BY DEF Init
<1>2. snapshot \in Height \cup {None, Unreadable}
  BY DEF Init
<1>3. phase \in StartPhase /\ height = 0 /\ base = 0 /\ damaged \in BOOLEAN
  BY DEF Init, StartPhase
<1>4. files = {} /\ bad = {} /\ list = {} /\ decayed = {} /\ posted = {} /\ lost = {}
  BY DEF Init
<1>5. QED
  BY <1>1, <1>2, <1>3, <1>4 DEF StartTyping

LEMMA StartTypingNext == StartTyping /\ [Next]_vars => StartTyping'
<1> SUFFICES ASSUME StartTyping, [Next]_vars PROVE StartTyping'
  OBVIOUS
<1> USE Apart, StartupAssumption
    DEF StartupAssumption, StartTyping, StartPhase, Height, disk, chain, history
<1>1. CASE Start
  BY <1>1 DEF Start
<1>2. CASE NoSnapshot
  BY <1>2 DEF NoSnapshot, ListBlocks
<1>3. CASE BadSnapshot
  BY <1>3 DEF BadSnapshot
<1>4. CASE LoadSnapshot
  <2>1. snapshot \in Nat /\ height' = snapshot /\ base' = snapshot /\ phase' = "above"
    BY <1>4 DEF LoadSnapshot
  <2>2. height' \in Nat /\ base' \in Nat /\ base' <= height'
    BY ONLY <2>1
  <2>3. list' \in SUBSET Height
    BY <1>4 DEF LoadSnapshot
  <2>4. UNCHANGED <<files, bad, snapshot, damaged, decayed, posted, lost, used>>
    BY <1>4 DEF LoadSnapshot
  <2> HIDE DEF Height
  <2>5. QED
    BY <2>1, <2>2, <2>3, <2>4
<1>5. CASE ReplayBlocks
  BY <1>5 DEF ReplayBlocks, ListBlocks
<1>6. CASE Ready
  BY <1>6 DEF Ready
<1>7. ASSUME NEW h \in 1 .. MaxHeight, ReplayBlock(h) PROVE StartTyping'
  BY <1>7 DEF ReplayBlock, NextFile, Starting
<1>8. ASSUME NEW h \in 1 .. MaxHeight, RefuseBlock(h) PROVE StartTyping'
  BY <1>8 DEF RefuseBlock, NextFile, LastFile
<1>9. ASSUME NEW h \in 1 .. MaxHeight, BadFile(h) PROVE StartTyping'
  BY <1>9 DEF BadFile, NextFile, LastFile
<1>10. CASE Apply
  BY <1>10 DEF Apply, Extend
<1>11. CASE Post
  BY <1>11 DEF Post, Extend, Use, Starting
<1>12. CASE Stop
  BY <1>12 DEF Stop, Down
<1>13. CASE Crash
  BY <1>13 DEF Crash, Down, Use
<1>14. ASSUME NEW h \in 0 .. MaxHeight, Rot(h) PROVE StartTyping'
  <2>1. used' \in [posts : Nat, crashes : Nat, rots : Nat, restores : Nat]
    BY <1>14 DEF Rot, Use
  <2>2. phase = "down" /\ UNCHANGED <<phase, height, base, list, damaged, posted, lost>>
    BY <1>14 DEF Rot
  <2>3. CASE /\ h \in files
             /\ files' = files \ {h} /\ bad' = bad \cup {h} /\ decayed' = decayed \cup {h}
             /\ UNCHANGED snapshot
    BY <2>1, <2>2, <2>3
  <2>4. CASE snapshot' = Unreadable /\ UNCHANGED <<files, bad, decayed>>
    BY <2>1, <2>2, <2>4
  <2>5. QED
    BY <1>14, <2>3, <2>4 DEF Rot
<1>15. ASSUME NEW h \in 1 .. MaxHeight, Restore(h) PROVE StartTyping'
  BY <1>15 DEF Restore, Use
<1>16. CASE UNCHANGED vars
  BY <1>16 DEF vars
<1>17. QED
  BY <1>1, <1>2, <1>3, <1>4, <1>5, <1>6, <1>7, <1>8, <1>9, <1>10, <1>11, <1>12, <1>13,
       <1>14, <1>15, <1>16 DEF Next, Replay

-----------------------------------------------------------------------------
(* Every action keeps Whole. *)

LEMMA WholeInit == Init => WInv
BY StartTypingInit, Apart DEF Init, WInv, Whole, Chain, Stops, ReadyIsWhole,
     Starting

LEMMA WholeNext ==
  BestEffort = FALSE /\ WInv /\ [Next]_vars => WInv'
<1> SUFFICES ASSUME BestEffort = FALSE, WInv, [Next]_vars PROVE WInv'
  OBVIOUS
<1> DEFINE Goal == Whole' /\ ReadyIsWhole'
<1> USE Apart, StartupAssumption
    DEF StartupAssumption, WInv, StartTyping, StartPhase, Height, disk, chain, history
<1>0. StartTyping'
  BY StartTypingNext
<1>1. ASSUME Start PROVE Goal
  <2>1. phase' = "replay_snapshot" /\ height' = 0 /\ base' = 0 /\ UNCHANGED <<files, bad, snapshot>>
    BY <1>1 DEF Start
  <2>2. Chain' = {}
    BY <2>1 DEF Chain
  <2>3. damaged' => snapshot = Unreadable \/ bad # {}
    BY <1>1 DEF Start
  <2>4. QED
    BY <2>1, <2>2, <2>3 DEF Whole, ReadyIsWhole
<1>2. ASSUME NoSnapshot PROVE Goal
  <2>1. /\ phase = "replay_snapshot" /\ phase' = "replay_blocks" /\ list' = files \cup bad
        /\ snapshot = None /\ base = 0
        /\ UNCHANGED <<files, bad, snapshot, height, base, damaged>>
    BY <1>2 DEF NoSnapshot, ListBlocks
  <2>2. Chain \subseteq files /\ Chain' = Chain
    BY <2>1 DEF Whole, Starting, Chain
  <2>3. ASSUME damaged PROVE \E h \in list' : h \in bad \/ h <= height
    <3>1. bad # {} \/ height > 0
      BY <2>1, <2>3 DEF Whole
    <3>2. CASE bad # {}
      BY <2>1, <3>2
    <3>3. CASE height > 0
      <4>1. 1 \in Chain
        BY <2>1, <3>3 DEF Chain
      <4>2. 1 \in list' /\ 1 <= height
        BY <4>1, <2>1, <2>2, <3>3
      <4>3. QED
        BY <4>2
    <3>4. QED
      BY <3>1, <3>2, <3>3
  <2>4. damaged => (\E h \in list : Stops(h))'
    BY <2>1, <2>3 DEF Stops
  <2>5. QED
    BY <2>1, <2>2, <2>4 DEF Whole, ReadyIsWhole
<1>3. ASSUME BadSnapshot PROVE Goal
  BY <1>3, <1>0 DEF BadSnapshot, Whole, Chain, Stops, ReadyIsWhole, Starting
<1>4. ASSUME LoadSnapshot PROVE Goal
  <2>1. /\ phase = "replay_snapshot" /\ phase' = "above"
        /\ list' = {h \in files \cup bad : h > snapshot}
        /\ snapshot \in Height /\ snapshot # Unreadable /\ height' = snapshot /\ base' = snapshot
        /\ base = 0
        /\ UNCHANGED <<files, bad, snapshot, damaged>>
    BY <1>4 DEF LoadSnapshot
  <2>2. Chain' = {}
    BY <2>1 DEF Chain
  <2>3. \A h \in files \cup bad : h > base' => h \in list'
    BY <2>1
  <2>4. ASSUME damaged
        PROVE  \/ \E h \in list' : h \in bad
               \/ \E h \in files \cup bad : h <= base'
    <3>1. bad # {} \/ height > 0
      BY <2>1, <2>4 DEF Whole
    <3>2. CASE bad # {}
      <4>1. PICK h \in bad : TRUE
        BY <3>2
      <4>2. h > base' \/ h <= base'
        BY <2>1
      <4>3. QED
        BY <2>1, <2>3, <4>1, <4>2
    <3>3. CASE height > 0
      <4>1. 1 \in Chain
        BY <2>1, <3>3 DEF Chain
      <4>2. 1 \in files /\ 1 <= base'
        BY <2>1, <4>1 DEF Whole, Starting
      <4>3. QED
        BY <4>2
    <3>4. QED
      BY <3>1, <3>2, <3>3
  <2>5. damaged => (\/ \E h \in list : Stops(h)
                    \/ \E h \in files \cup bad : h <= base)'
    BY <2>1, <2>4 DEF Stops
  <2>6. QED
    BY <2>1, <2>2, <2>3, <2>5 DEF Whole, ReadyIsWhole
<1>5. ASSUME ReplayBlocks PROVE Goal
  BY <1>5, <1>0 DEF ReplayBlocks, ListBlocks, Whole, Chain, Stops, ReadyIsWhole,
       Starting
<1>6. ASSUME Ready PROVE Goal
  BY <1>6, <1>0 DEF Ready, Whole, Chain, Stops, ReadyIsWhole, Starting
<1>7. ASSUME NEW h \in 1 .. MaxHeight, ReplayBlock(h) PROVE Goal
  BY <1>7, <1>0 DEF ReplayBlock, NextFile, Starting, Whole, Chain, Stops,
       ReadyIsWhole
<1>8. ASSUME NEW h \in 1 .. MaxHeight, RefuseBlock(h) PROVE Goal
  BY <1>8, <1>0 DEF RefuseBlock, NextFile, LastFile, Whole, Chain, Stops,
       ReadyIsWhole, Starting
<1>9. ASSUME NEW h \in 1 .. MaxHeight, BadFile(h) PROVE Goal
  BY <1>9, <1>0 DEF BadFile, NextFile, LastFile, Whole, Chain, Stops,
       ReadyIsWhole, Starting
<1>10. ASSUME Apply PROVE Goal
  BY <1>10, <1>0 DEF Apply, Extend, Whole, Chain, Stops, ReadyIsWhole, Starting
<1>11. ASSUME Post PROVE Goal
  BY <1>11, <1>0 DEF Post, Extend, Use, Starting, Whole, Chain, Stops,
       ReadyIsWhole
<1>12. ASSUME Stop PROVE Goal
  BY <1>12, <1>0 DEF Stop, Down, Whole, Chain, Stops, ReadyIsWhole, Starting
<1>13. ASSUME Crash PROVE Goal
  BY <1>13, <1>0 DEF Crash, Down, Use, Whole, Chain, Stops, ReadyIsWhole,
       Starting
<1>14. ASSUME NEW h \in 0 .. MaxHeight, Rot(h) PROVE Goal
  BY <1>14, <1>0 DEF Rot, Use, Whole, Chain, Stops, ReadyIsWhole, Starting
<1>15. ASSUME NEW h \in 1 .. MaxHeight, Restore(h) PROVE Goal
  BY <1>15, <1>0 DEF Restore, Use, Whole, Chain, Stops, ReadyIsWhole, Starting
<1>16. ASSUME UNCHANGED vars PROVE Goal
  BY <1>16, <1>0 DEF vars, Whole, Chain, Stops, ReadyIsWhole, Starting
<1> HIDE DEF Goal
<1>17. Goal
  BY <1>1, <1>2, <1>3, <1>4, <1>5, <1>6, <1>7, <1>8, <1>9, <1>10, <1>11, <1>12, <1>13,
       <1>14, <1>15, <1>16 DEF Next, Replay
<1>18. QED
  BY <1>0, <1>17 DEF Goal

-----------------------------------------------------------------------------
(* Every action keeps Kept. *)

LEMMA FilesKeptInit == Init => KInv
BY StartTypingInit, Apart DEF Init, KInv, FilesKept, Excused, Starting

LEMMA FilesKeptNext == KInv /\ [Next]_vars => KInv'
<1> SUFFICES ASSUME KInv, [Next]_vars PROVE KInv'
  OBVIOUS
<1> DEFINE Goal == FilesKept'
<1> USE Apart, StartupAssumption
    DEF StartupAssumption, KInv, StartTyping, StartPhase, Height, disk, chain, history
<1>0. StartTyping'
  BY StartTypingNext
<1>1. ASSUME Start PROVE Goal
  BY <1>1, <1>0 DEF Start, FilesKept, Excused, Starting
<1>2. ASSUME NoSnapshot PROVE Goal
  BY <1>2, <1>0 DEF NoSnapshot, ListBlocks, FilesKept, Excused, Starting
<1>3. ASSUME BadSnapshot PROVE Goal
  BY <1>3, <1>0 DEF BadSnapshot, FilesKept, Excused, Starting
<1>4. ASSUME LoadSnapshot PROVE Goal
  <2>1. snapshot \in Nat /\ phase' = "above"
        /\ UNCHANGED <<files, bad, decayed, posted, lost, used>>
    BY <1>4 DEF LoadSnapshot
  <2>2. used.restores > 0
    BY <2>1 DEF FilesKept
  <2>3. used'.restores > 0
    BY <2>1, <2>2
  <2>4. \A h : Excused(h)'
    BY <2>3 DEF Excused
  <2>5. bad' \subseteq decayed' /\ used'.restores # 0
    BY <2>1, <2>3 DEF FilesKept
  <2>6. QED
    BY <2>1, <2>4, <2>5 DEF FilesKept
<1>5. ASSUME ReplayBlocks PROVE Goal
  BY <1>5, <1>0 DEF ReplayBlocks, ListBlocks, FilesKept, Excused, Starting
<1>6. ASSUME Ready PROVE Goal
  BY <1>6, <1>0 DEF Ready, FilesKept, Excused, Starting
<1>7. ASSUME NEW h \in 1 .. MaxHeight, ReplayBlock(h) PROVE Goal
  BY <1>7, <1>0 DEF ReplayBlock, NextFile, Starting, FilesKept, Excused
<1>8. ASSUME NEW h \in 1 .. MaxHeight, RefuseBlock(h) PROVE Goal
  BY <1>8, <1>0 DEF RefuseBlock, NextFile, LastFile, FilesKept, Excused, Starting
<1>9. ASSUME NEW h \in 1 .. MaxHeight, BadFile(h) PROVE Goal
  BY <1>9, <1>0 DEF BadFile, NextFile, LastFile, FilesKept, Excused, Starting
<1>10. ASSUME Apply PROVE Goal
  BY <1>10, <1>0 DEF Apply, Extend, FilesKept, Excused, Starting
<1>11. ASSUME Post PROVE Goal
  BY <1>11, <1>0 DEF Post, Extend, Use, Starting, FilesKept, Excused
<1>12. ASSUME Stop PROVE Goal
  BY <1>12, <1>0 DEF Stop, Down, FilesKept, Excused, Starting
<1>13. ASSUME Crash PROVE Goal
  BY <1>13, <1>0 DEF Crash, Down, Use, FilesKept, Excused, Starting
<1>14. ASSUME NEW h \in 0 .. MaxHeight, Rot(h) PROVE Goal
  BY <1>14, <1>0 DEF Rot, Use, FilesKept, Excused, Starting
<1>15. ASSUME NEW h \in 1 .. MaxHeight, Restore(h) PROVE Goal
  BY <1>15, <1>0 DEF Restore, Use, FilesKept, Excused, Starting
<1>16. ASSUME UNCHANGED vars PROVE Goal
  BY <1>16, <1>0 DEF vars, FilesKept, Excused, Starting
<1> HIDE DEF Goal
<1>17. Goal
  BY <1>1, <1>2, <1>3, <1>4, <1>5, <1>6, <1>7, <1>8, <1>9, <1>10, <1>11, <1>12, <1>13,
       <1>14, <1>15, <1>16 DEF Next, Replay
<1>18. QED
  BY <1>0, <1>17 DEF Goal

-----------------------------------------------------------------------------
(* Theorems. *)

\* Without BLACKCHAIN_ALLOW_CORRUPT_RECOVERY, a node that StartMeshDaemon has brought up
\* serves every block file above its snapshot and found none that did not decode,
\* whatever was posted, killed, restored or has decayed.
THEOREM ServesAll == BestEffort = FALSE /\ Spec => []ReadyIsWhole
<1>1. ASSUME BestEffort = FALSE PROVE Spec => []ReadyIsWhole
  <2>1. WInv /\ [Next]_vars => WInv'
    BY <1>1, WholeNext
  <2>2. WInv => ReadyIsWhole
    BY DEF WInv
  <2>3. Init => WInv
    BY <1>1, WholeInit
  <2>4. QED
    BY <2>1, <2>2, <2>3, PTL DEF Spec
<1>2. QED
  BY <1>1

\* With or without best effort, loadFromDisk and the replay above a snapshot take no
\* whole block file out of the way but for a decayed file below it, a block posted
\* while the node started, or a restored snapshot.
THEOREM KeepsFiles == Spec => []GoodFilesKept
<1>1. Init => KInv
  BY FilesKeptInit
<1>2. KInv /\ [Next]_vars => KInv'
  BY FilesKeptNext
<1>3. KInv => GoodFilesKept
  BY DEF KInv, FilesKept, Excused, GoodFilesKept
<1>4. QED
  BY <1>1, <1>2, <1>3, PTL DEF Spec
=============================================================================
