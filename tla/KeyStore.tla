-------------------------------- MODULE KeyStore --------------------------------
(***************************************************************************)
(* core/security.py: the RSA keypair, two files that all the worker        *)
(* processes of the gateway share, and the tokens that are signed and      *)
(* verified with them.                                                     *)
(*                                                                         *)
(* A worker runs this code without suspending, but the other workers run   *)
(* it at the same time: an action is one access to one of the files.       *)
(* Path.write_bytes is two of them: it creates or truncates the file, and  *)
(* then fills it.                                                          *)
(***************************************************************************)
EXTENDS Naturals

CONSTANTS
  Workers,     \* worker processes
  Keys,        \* the keypairs that can be generated
  MaxCrashes   \* bound: workers killed

ASSUME KeyAssumption ==
  /\ Keys \cap {"absent", "empty"} = {}
  /\ MaxCrashes \in Nat

VARIABLES
  private_pem, public_pem,  \* the files: "absent", "empty" or a keypair
  pc,        \* the next access of each worker
  job,       \* what it needs the keys for
  pair,      \* the keypair it has generated, while it writes it
  token,     \* the keypair that signed the token it is verifying
  used,      \* auxiliary: the keypairs generated so far
  issued,    \* the keypairs that signed the tokens clients hold
  errors,    \* auxiliary: how requests with a good password or token have failed
  disturbed, \* auxiliary: a bootstrap has overlapped another or was cut short
  crashes

files == <<private_pem, public_pem>>
history == <<issued, errors, disturbed>>
vars == <<files, pc, job, pair, token, used, history, crashes>>

Failures == {"no_private_key", "no_public_key", "bad_signature"}

Writing == {"generate", "write_private", "open_public", "write_public"}
Serving == {"up", "read_private", "read_public"}

Init ==
  /\ private_pem = "absent" /\ public_pem = "absent"
  /\ pc = [w \in Workers |-> "down"]
  /\ job = [w \in Workers |-> "boot"]
  /\ pair = [w \in Workers |-> "absent"]
  /\ token = [w \in Workers |-> "absent"]
  /\ used = {} /\ issued = {} /\ crashes = 0
  /\ errors = {} /\ disturbed = FALSE

Go(w, next) == pc' = [pc EXCEPT ![w] = next]

\* A worker that misses a file goes on to generate a keypair.
SetOut(w) ==
  /\ Go(w, "generate")
  /\ disturbed' = (disturbed \/ \E v \in Workers : pc[v] \in Writing)

\* Where the caller of ensure_keys_exist goes on.
Ensured(w) ==
  CASE job[w] = "boot"   -> "up"
    [] job[w] = "sign"   -> "read_private"
    [] job[w] = "verify" -> "read_public"

\* lifespan(): the keys are ensured before anything is served.
Boot(w) ==
  /\ pc[w] = "down"
  /\ Go(w, "check_private")
  /\ job' = [job EXCEPT ![w] = "boot"]
  /\ UNCHANGED <<files, pair, token, used, history, crashes>>

\* create_access_token, up to ensure_keys_exist
Sign(w) ==
  /\ pc[w] = "up"
  /\ Go(w, "check_private")
  /\ job' = [job EXCEPT ![w] = "sign"]
  /\ UNCHANGED <<files, pair, token, used, history, crashes>>

\* decode_access_token of a token a client holds, up to ensure_keys_exist
Verify(w) ==
  /\ pc[w] = "up"
  /\ \E k \in issued : token' = [token EXCEPT ![w] = k]
  /\ Go(w, "check_private")
  /\ job' = [job EXCEPT ![w] = "verify"]
  /\ UNCHANGED <<files, pair, used, history, crashes>>

\* A variant ends in Slip when it is a bug a run must catch: no specification
\* uses it.
CheckPrivateSlip(w) ==   \* a keypair is generated at every boot
  /\ pc[w] = "check_private"
  /\ IF private_pem = "absent" \/ job[w] = "boot" THEN SetOut(w)
     ELSE Go(w, "check_public") /\ UNCHANGED disturbed
  /\ UNCHANGED <<files, job, pair, token, used, issued, errors, crashes>>

\* ensure_keys_exist: the two exists() calls
CheckPrivate(w) ==
  /\ pc[w] = "check_private"
  /\ IF private_pem = "absent" THEN SetOut(w)
     ELSE Go(w, "check_public") /\ UNCHANGED disturbed
  /\ UNCHANGED <<files, job, pair, token, used, issued, errors, crashes>>

CheckPublicSlip(w) ==   \* only the private key is looked for
  /\ pc[w] = "check_public"
  /\ Go(w, Ensured(w))
  /\ UNCHANGED <<files, job, pair, token, used, history, crashes>>

CheckPublic(w) ==
  /\ pc[w] = "check_public"
  /\ IF public_pem = "absent" THEN SetOut(w)
     ELSE Go(w, Ensured(w)) /\ UNCHANGED disturbed
  /\ UNCHANGED <<files, job, pair, token, used, issued, errors, crashes>>

\* _generate_rsa_keypair, up to the creation of the private key file
OpenPrivate(w) ==
  /\ pc[w] = "generate"
  /\ \E k \in Keys \ used :
       /\ pair' = [pair EXCEPT ![w] = k]
       /\ used' = used \cup {k}
  /\ private_pem' = "empty"
  /\ Go(w, "write_private")
  /\ UNCHANGED <<public_pem, job, token, history, crashes>>

WritePrivate(w) ==
  /\ pc[w] = "write_private"
  /\ private_pem' = pair[w]
  /\ Go(w, "open_public")
  /\ UNCHANGED <<public_pem, job, pair, token, used, history, crashes>>

OpenPublic(w) ==
  /\ pc[w] = "open_public"
  /\ public_pem' = "empty"
  /\ Go(w, "write_public")
  /\ UNCHANGED <<private_pem, job, pair, token, used, history, crashes>>

WritePublic(w) ==
  /\ pc[w] = "write_public"
  /\ public_pem' = pair[w]
  /\ Go(w, Ensured(w))
  /\ UNCHANGED <<private_pem, job, pair, token, used, history, crashes>>

ReadPrivateSlip(w) ==   \* an empty file is taken for a key
  /\ pc[w] = "read_private"
  /\ issued' = issued \cup {private_pem}
  /\ Go(w, "up")
  /\ UNCHANGED <<files, job, pair, token, used, errors, disturbed, crashes>>

\* _load_private_key, jwt.encode: an empty file is no key, and the client is
\* answered 500.
ReadPrivate(w) ==
  /\ pc[w] = "read_private"
  /\ IF private_pem \in Keys
     THEN issued' = issued \cup {private_pem} /\ UNCHANGED errors
     ELSE errors' = errors \cup {"no_private_key"} /\ UNCHANGED issued
  /\ Go(w, "up")
  /\ UNCHANGED <<files, job, pair, token, used, disturbed, crashes>>

\* _load_public_key, jwt.decode: 500 for an empty file, 401 if the token was
\* signed with another keypair.
ReadPublic(w) ==
  /\ pc[w] = "read_public"
  /\ errors' = CASE public_pem = token[w] -> errors
                 [] public_pem \in Keys \ {token[w]} -> errors \cup {"bad_signature"}
                 [] public_pem \notin Keys -> errors \cup {"no_public_key"}
  /\ Go(w, "up")
  /\ UNCHANGED <<files, job, pair, token, used, issued, disturbed, crashes>>

\* A worker is killed; uvicorn's supervisor will start another in its place.
Crash(w) ==
  /\ pc[w] # "down" /\ crashes < MaxCrashes
  /\ crashes' = crashes + 1
  /\ Go(w, "down")
  /\ disturbed' = (disturbed \/ pc[w] \in Writing \ {"generate"})
  /\ UNCHANGED <<files, job, pair, token, used, issued, errors>>

Ensure(w) ==
  \/ CheckPrivate(w) \/ CheckPublic(w)
  \/ OpenPrivate(w) \/ WritePrivate(w) \/ OpenPublic(w) \/ WritePublic(w)

Next ==
  \E w \in Workers :
    \/ Boot(w) \/ Ensure(w) \/ Crash(w)
    \/ Sign(w) \/ ReadPrivate(w)
    \/ Verify(w) \/ ReadPublic(w)

Spec == Init /\ [][Next]_vars

\* A dead worker is replaced, and a worker that has work to do does it.
Fairness == \A w \in Workers : WF_vars(Boot(w)) /\ WF_vars(Ensure(w))

LiveSpec == Spec /\ Fairness
--------------------------------------------------------------------------------
\* Type invariant of the key files and of the workers.
TypeOK ==
  /\ private_pem \in Keys \cup {"absent", "empty"}
  /\ public_pem \in Keys \cup {"absent", "empty"}
  /\ pc \in [Workers -> {"down", "check_private", "check_public"} \cup Writing \cup Serving]
  /\ job \in [Workers -> {"boot", "sign", "verify"}]
  /\ pair \in [Workers -> Keys \cup {"absent"}]
  /\ token \in [Workers -> Keys \cup {"absent"}]
  /\ used \subseteq Keys /\ issued \subseteq used
  /\ errors \subseteq Failures /\ disturbed \in BOOLEAN
  /\ crashes \in 0 .. MaxCrashes

\* No worker serves before both files are there, whichever workers wrote them
\* and whichever were killed half way.
BootedWithKeys ==
  (\E w \in Workers : pc[w] \in Serving) => private_pem # "absent" /\ public_pem # "absent"

Quiet ==
  /\ private_pem # "absent" /\ public_pem # "absent"
  /\ \A w \in Workers : pc[w] \notin Writing

\* Once both files are there and nobody is writing them, that is how it stays:
\* no worker that boots, serves or is killed ever sets out to replace them, so
\* that a token that can be verified can be verified until it expires.
KeysNeverRotate == [][Quiet => Quiet' /\ UNCHANGED files]_vars

\* Only bootstraps that overlap, or that a kill cuts short while they write, can
\* do lasting harm.  Without, whichever workers boot, serve and are killed
\* otherwise, no login fails for its key, no valid token is refused with 401, and
\* no file is left empty: a worker that serves while another still fills the
\* public key file may fail to verify a token for the moment (500), no more.
BootstrapSound ==
  ~disturbed =>
    /\ errors \subseteq {"no_public_key"}
    /\ "empty" \in {private_pem, public_pem} => \E w \in Workers : pc[w] \in Writing

\* A worker killed between the two files leaves half a keypair; a worker that
\* starts later replaces it by a whole one.
HalfPairRepaired ==
  private_pem # "absent" /\ public_pem = "absent" ~> public_pem # "absent"

\* The bootstrap as the documentation words it (security.py:70-71, "Called only
\* once, at first boot"; 105, "Idempotently ensure an RSA keypair is present"):
\* once every worker is up, the files hold the two halves of one keypair.
PairMatches ==
  (\A w \in Workers : pc[w] \in Serving) => private_pem = public_pem
================================================================================
