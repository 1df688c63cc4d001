------------------------------- MODULE KeyFiles -------------------------------
(***************************************************************************)
(* The key material that a daemon makes for itself and finds again: the    *)
(* certificate and key of its HTTPS server and the CA that signs it        *)
(* (http_tls.go), the wallet (crypto/wallet.go) and the validator key      *)
(* (validator_identity.go).  The CA lies in the parent of the data         *)
(* directory, and so belongs to every node with a directory there, as the  *)
(* three of scripts/launch_3node.sh.                                       *)
(*                                                                         *)
(* os.WriteFile truncates the file and then writes it, and a process may   *)
(* be killed between the two; a key file that holds no complete PEM block  *)
(* is Torn.  Keys are named by the node that made them and a number.  The  *)
(* node uses its own TLS files (MeshTLS is off).  Nothing here is synced,  *)
(* so that a power cut can leave less than a kill; only kills are          *)
(* modelled.                                                               *)
(***************************************************************************)
EXTENDS Naturals, FiniteSets

CONSTANTS
  Node,           \* the nodes whose data directories share a parent
  Absent, Torn,   \* what a path may hold besides a key
  MaxCAs          \* bound of the exploration: how often a CA is made

ASSUME KeyAssumption ==
  /\ MaxCAs \in Nat /\ Absent # Torn
  /\ {Absent, Torn} \cap (Node \X Nat) = {}

VARIABLES
  caCert, caKey,  \* http_ca.pem, http_ca.key: which key each of them is of
  cert, key,      \* http_tls_cert.pem, with the key it is signed with, and http_tls_key.pem
  wallet, ident,  \* wallet.json and validator_key.json
  at,             \* how far StartMeshDaemon, or a new HTTPS client, has got
  up,             \* the nodes whose start has succeeded
  ca,             \* locals: the CA a node has read or made
  made,           \* the number of keys each node has made
  first,          \* history: wallet and identity each node first ran with
  cut,            \* history: nodes killed while they wrote certificate and key
  raced,          \* history: a node used the CA files while another wrote them
  cas             \* how much of the bound is used

shared == <<caCert, caKey>>
own == <<cert, key, wallet, ident>>
keyHistory == <<first, cut, raced>>
keyVars == <<shared, own, at, up, ca, made, keyHistory, cas>>

Key == Node \X Nat
New(n) == <<n, made[n] + 1>>
Make(n) == made' = [made EXCEPT ![n] = @ + 1]
Go(n, to) == at' = [at EXCEPT ![n] = to]
Neither == [cert |-> Absent, key |-> Absent]
Unsigned(k) == [key |-> k, by |-> Absent]

KeyInit ==
  /\ caCert = Absent /\ caKey = Absent
  /\ cert = [n \in Node |-> Unsigned(Absent)] /\ key = [n \in Node |-> Absent]
  /\ wallet = [n \in Node |-> Absent] /\ ident = [n \in Node |-> Absent]
  /\ at = [n \in Node |-> "off"] /\ up = {}
  /\ ca = [n \in Node |-> Neither] /\ made = [n \in Node |-> 0]
  /\ first = [n \in Node |-> [wallet |-> Absent, ident |-> Absent]]
  /\ cut = {} /\ raced = FALSE /\ cas = 0

-----------------------------------------------------------------------------
(* ensureHTTPServerTLSFiles. *)

\* The pair is complete, or there is none and the CA is needed, or the start fails.
StartTLS(n) ==
  LET pair == <<cert[n].key, key[n]>>
  IN /\ at[n] \in {"off", "failed"}
     /\ Go(n, IF pair = <<Absent, Absent>> THEN "readCert"
              ELSE IF pair[1] \in Key /\ pair[1] = pair[2] THEN "wallet"
              ELSE "failed")
     /\ UNCHANGED <<shared, own, up, ca, made, keyHistory, cas>>

\* x509.CreateCertificate refuses a CA key that is not the one of the certificate.
Issue(n) ==
  /\ at[n] = "issue"
  /\ IF ca[n].cert = ca[n].key
     THEN /\ cert' = [cert EXCEPT ![n] = Unsigned(Torn)]
          /\ Make(n) /\ Go(n, "cert")
     ELSE Go(n, "failed") /\ UNCHANGED <<cert, made>>
  /\ UNCHANGED <<shared, key, wallet, ident, up, ca, keyHistory, cas>>

WriteCert(n) ==
  /\ at[n] = "cert"
  /\ cert' = [cert EXCEPT ![n] = [key |-> <<n, made[n]>>, by |-> ca[n].cert]]
  /\ Go(n, "openKey")
  /\ UNCHANGED <<shared, key, wallet, ident, up, ca, made, keyHistory, cas>>

OpenKey(n) ==
  /\ at[n] = "openKey"
  /\ key' = [key EXCEPT ![n] = Torn]
  /\ Go(n, "key")
  /\ UNCHANGED <<shared, cert, wallet, ident, up, ca, made, keyHistory, cas>>

WriteKey(n) ==
  /\ at[n] = "key"
  /\ key' = [key EXCEPT ![n] = <<n, made[n]>>]
  /\ Go(n, "wallet")
  /\ UNCHANGED <<shared, cert, wallet, ident, up, ca, made, keyHistory, cas>>

-----------------------------------------------------------------------------
(* loadOrCreateSharedHTTPCA: at the start of a node without certificate,   *)
(* and for every HTTPS client of a running one.                            *)

Writing(n) == at[n] \in {"caCert", "openCaKey", "caKey"}
Reading(n) == at[n] \in {"readKey", "makeCA"}

\* newInternalTLSConfig, at each request to a peer.
Client(n) ==
  /\ at[n] = "running"
  /\ Go(n, "readCert")
  /\ UNCHANGED <<shared, own, up, ca, made, keyHistory, cas>>

HaveCA(n) == Go(n, IF n \in up THEN "running" ELSE "issue")

ReadCert(n) ==
  /\ at[n] = "readCert"
  /\ ca' = [ca EXCEPT ![n] = [cert |-> caCert, key |-> Absent]]
  /\ Go(n, IF caCert = Absent THEN "makeCA" ELSE "readKey")
  /\ raced' = (raced \/ \E m \in Node : Writing(m))
  /\ UNCHANGED <<shared, own, up, made, first, cut, cas>>

\* Slips: the key is not looked at; a certificate that is there is kept.
ReadNothing(n) == at[n] = "readKey" /\ Go(n, "makeCA")
                  /\ UNCHANGED <<shared, own, up, ca, made, keyHistory, cas>>
KeepCert(n) ==
  /\ at[n] = "readKey"
  /\ ca' = [ca EXCEPT ![n].key = caKey]
  /\ IF caKey \in Key THEN HaveCA(n) ELSE Go(n, "openCaKey")
  /\ UNCHANGED <<shared, own, up, made, keyHistory, cas>>

\* Both files decode, whosever they are; otherwise a new CA takes their place.
ReadKey(n) ==
  /\ at[n] = "readKey"
  /\ ca' = [ca EXCEPT ![n].key = caKey]
  /\ IF ca[n].cert \in Key /\ caKey \in Key THEN HaveCA(n) ELSE Go(n, "makeCA")
  /\ UNCHANGED <<shared, own, up, made, keyHistory, cas>>

MakeCA(n) ==
  /\ at[n] = "makeCA" /\ cas < MaxCAs
  /\ cas' = cas + 1
  /\ ca' = [ca EXCEPT ![n] = [cert |-> New(n), key |-> New(n)]]
  /\ Make(n)
  /\ caCert' = Torn
  /\ Go(n, "caCert")
  /\ raced' = (raced \/ \E m \in Node \ {n} : Reading(m) \/ Writing(m))
  /\ UNCHANGED <<caKey, own, up, first, cut>>

WriteCaCert(n) ==
  /\ at[n] = "caCert"
  /\ caCert' = ca[n].cert
  /\ Go(n, "openCaKey")
  /\ UNCHANGED <<caKey, own, up, ca, made, keyHistory, cas>>

OpenCaKey(n) ==
  /\ at[n] = "openCaKey"
  /\ caKey' = Torn
  /\ Go(n, "caKey")
  /\ UNCHANGED <<caCert, own, up, ca, made, keyHistory, cas>>

WriteCaKey(n) ==
  /\ at[n] = "caKey"
  /\ caKey' = ca[n].key
  /\ HaveCA(n)
  /\ UNCHANGED <<caCert, own, up, ca, made, keyHistory, cas>>

-----------------------------------------------------------------------------
(* LoadOrCreateWallet, then replay, then EnsureValidatorIdentityLocked.     *)
(* Both write a .tmp, which no start reads, and rename it.                  *)

\* Slip: the wallet is made although there is one.
MakeAnew(n) ==
  /\ at[n] = "wallet"
  /\ wallet' = [wallet EXCEPT ![n] = New(n)]
  /\ Make(n) /\ Go(n, "ident")
  /\ UNCHANGED <<shared, cert, key, ident, up, ca, keyHistory, cas>>

MakeWallet(n) ==
  /\ at[n] = "wallet" /\ wallet[n] = Absent
  /\ wallet' = [wallet EXCEPT ![n] = New(n)]
  /\ Make(n) /\ Go(n, "ident")
  /\ UNCHANGED <<shared, cert, key, ident, up, ca, keyHistory, cas>>

LoadWallet(n) ==
  /\ at[n] = "wallet" /\ wallet[n] # Absent
  /\ Go(n, "ident")
  /\ UNCHANGED <<shared, own, up, ca, made, keyHistory, cas>>

MakeIdent(n) ==
  /\ at[n] = "ident" /\ ident[n] = Absent
  /\ ident' = [ident EXCEPT ![n] = New(n)]
  /\ Make(n) /\ Go(n, "ready")
  /\ UNCHANGED <<shared, cert, key, wallet, up, ca, keyHistory, cas>>

LoadIdent(n) ==
  /\ at[n] = "ident" /\ ident[n] # Absent
  /\ Go(n, "ready")
  /\ UNCHANGED <<shared, own, up, ca, made, keyHistory, cas>>

\* markStartupReady: from here on blocks carry the two ids.
Serve(n) ==
  /\ at[n] = "ready"
  /\ up' = up \cup {n} /\ Go(n, "running")
  /\ first' = [first EXCEPT ![n] = IF @.ident = Absent
                                   THEN [wallet |-> wallet[n], ident |-> ident[n]] ELSE @]
  /\ UNCHANGED <<shared, own, ca, made, cut, raced, cas>>

\* The process is killed, or stopped.
Kill(n) ==
  /\ at[n] \notin {"off", "failed"}
  /\ Go(n, "off") /\ up' = up \ {n}
  /\ cut' = IF at[n] \in {"cert", "openKey", "key"} THEN cut \cup {n} ELSE cut
  /\ UNCHANGED <<shared, own, ca, made, first, raced, cas>>

TLS(n) == StartTLS(n) \/ Issue(n) \/ WriteCert(n) \/ OpenKey(n) \/ WriteKey(n)
CA(n) ==
  \/ Client(n) \/ ReadCert(n) \/ ReadKey(n)
  \/ MakeCA(n) \/ WriteCaCert(n) \/ OpenCaKey(n) \/ WriteCaKey(n)
Identity(n) == MakeWallet(n) \/ LoadWallet(n) \/ MakeIdent(n) \/ LoadIdent(n) \/ Serve(n)

KeyNext == \E n \in Node : TLS(n) \/ CA(n) \/ Identity(n) \/ Kill(n)

KeySpec == KeyInit /\ [][KeyNext]_keyVars

-----------------------------------------------------------------------------
(* Properties. *)

\* Wherever earlier starts were killed or have failed, a node runs with the wallet and
\* the validator identity it first ran with ("Each node has a persistent ed25519
\* keypair", validator_identity.go:12).
KeysKept ==
  \A n \in up : first[n] = [wallet |-> wallet[n], ident |-> ident[n]]

\* A start fails on its TLS files only if an earlier one was killed between the
\* certificate and the key, or two nodes made the CA at once: a CA that a kill left
\* half written is made anew.
StuckOnlyIfCut ==
  \A n \in Node : at[n] = "failed" => n \in cut \/ raced

\* Whatever was killed, and however often a client that finds a bad CA makes another
\* one, every running node presents a certificate that the HTTPS clients of all of them
\* trust, the CA on the disk having signed it ("use a shared local HTTP CA rooted under
\* the data dir parent", http_tls.go:22); unless two nodes used the CA files at once
\* and one of them was writing.
TrustUnlessRaced ==
  raced \/ \A n \in up : cert[n].by = caCert /\ caCert = caKey
=============================================================================
