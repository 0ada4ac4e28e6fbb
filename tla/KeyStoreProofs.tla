---------------------------- MODULE KeyStoreProofs ----------------------------
(***************************************************************************)
(* What the keypair bootstrap guarantees for every number of workers,      *)
(* keypairs and crashes: who serves, serves with both files there; files   *)
(* that are there are not replaced; and only bootstraps that overlap or    *)
(* are cut short do lasting harm.                                          *)
(*                                                                         *)
(* The invariant says what each worker's place in the code tells of the    *)
(* files (Reached), and where every key that is about comes from (Known):  *)
(* whatever is in a file, in a token or in a worker's memory was           *)
(* generated.  As long as no bootstrap was disturbed there is one          *)
(* generator at the most, and its place tells all there is to know of the  *)
(* files (Orderly): it is the public one that is there last, when the      *)
(* private one is whole already.                                           *)
(***************************************************************************)
EXTENDS KeyStore, TLAPS

USE KeyAssumption

\* A worker that is past a check, or past a write, knows that the file exists.
Reached ==
  \A w \in Workers :
    /\ pc[w] \in {"check_public", "write_private", "open_public", "write_public"} \cup Serving
         => private_pem # "absent"
    /\ pc[w] \in {"write_public"} \cup Serving => public_pem # "absent"

\* Every key in sight has been generated.
Known ==
  /\ private_pem \in used \cup {"absent", "empty"}
  /\ public_pem \in used \cup {"absent", "empty"}
  /\ \A w \in Workers :
       /\ pc[w] \in {"write_private", "open_public", "write_public"} => pair[w] \in used
       /\ job[w] = "verify" => token[w] \in issued
       /\ pc[w] = "read_public" => job[w] = "verify"

Alone == \A v, w \in Workers : pc[v] \in Writing /\ pc[w] \in Writing => v = w

\* Nothing has been written.
Blank ==
  /\ used = {} /\ private_pem = "absent" /\ public_pem = "absent"
  /\ \A w \in Workers : pc[w] \in Writing => pc[w] = "generate"

\* The files as the worker that writes keypair k finds them.
StageOf(w, k) ==
  /\ pair[w] = k
  /\ CASE pc[w] = "write_private" -> private_pem = "empty" /\ public_pem = "absent"
       [] pc[w] = "open_public"   -> private_pem = k /\ public_pem = "absent"
       [] pc[w] = "write_public"  -> private_pem = k /\ public_pem = "empty"
       [] OTHER -> FALSE

\* Keypair k, the only one, is being written, or is there.
Single(k) ==
  /\ used = {k}
  /\ \A w \in Workers : pc[w] \in Writing => StageOf(w, k)
  /\ (\A w \in Workers : pc[w] \notin Writing) => private_pem = k /\ public_pem = k

Orderly ==
  ~disturbed =>
    /\ Alone
    /\ errors \subseteq {"no_public_key"}
    /\ Blank \/ \E k \in Keys : Single(k)

Inductive == TypeOK /\ Reached /\ Known /\ Orderly
-------------------------------------------------------------------------------
\* The initial state satisfies the inductive invariant.
LEMMA InitInductive == Init => Inductive
<1> SUFFICES ASSUME Init PROVE Inductive
  OBVIOUS
<1>1. TypeOK
  <2>1. disturbed \in BOOLEAN
    BY DEF Init
  <2>2. QED
    BY <2>1 DEF Init, TypeOK
<1>2. Reached /\ Known
  BY DEF Init, Reached, Known, Serving
<1>3. Orderly
  BY DEF Init, Orderly, Alone, Blank, Writing
<1>4. QED
  BY <1>1, <1>2, <1>3 DEF Inductive

\* Every step preserves the types,
LEMMA TypeStep == Inductive /\ Next => TypeOK'
<1> SUFFICES ASSUME Inductive, Next PROVE TypeOK'
  OBVIOUS
<1> USE DEF Inductive, TypeOK, Known, Go, SetOut, files, history, Writing, Serving
<1>1. PICK w \in Workers :
        Ensure(w) \/ Boot(w) \/ Sign(w) \/ Verify(w) \/ ReadPrivate(w) \/ ReadPublic(w) \/ Crash(w)
  BY DEF Next
<1>2. CASE Boot(w)
  BY <1>2 DEF Boot
<1>3. CASE Sign(w) \/ Verify(w)
  BY <1>3 DEF Sign, Verify
<1>4. CASE CheckPrivate(w)
  BY <1>4 DEF CheckPrivate
<1>5. CASE CheckPublic(w)
  BY <1>5 DEF CheckPublic, Ensured
<1>6. CASE OpenPrivate(w)
  BY <1>6 DEF OpenPrivate
<1>7. CASE WritePrivate(w) \/ OpenPublic(w)
  BY <1>7 DEF WritePrivate, OpenPublic
<1>8. CASE WritePublic(w)
  BY <1>8 DEF WritePublic, Ensured
<1>9. CASE ReadPrivate(w)
  BY <1>9 DEF ReadPrivate, Failures
<1>10. CASE ReadPublic(w)
  BY <1>10 DEF ReadPublic, Failures
<1>11. CASE Crash(w)
  BY <1>11 DEF Crash
<1>12. QED
  BY <1>1, <1>2, <1>3, <1>4, <1>5, <1>6, <1>7, <1>8, <1>9, <1>10, <1>11 DEF Ensure

\* No file that exists ever disappears again.
LEMMA FilesStay ==
  Inductive /\ Next =>
    /\ private_pem # "absent" => private_pem' # "absent"
    /\ public_pem # "absent" => public_pem' # "absent"
<1> SUFFICES ASSUME Inductive, Next
             PROVE  /\ private_pem # "absent" => private_pem' # "absent"
                    /\ public_pem # "absent" => public_pem' # "absent"
  OBVIOUS
<1> USE DEF Inductive, Known, TypeOK, files
<1>1. ASSUME NEW w \in Workers, Ensure(w)
      PROVE  /\ private_pem # "absent" => private_pem' # "absent"
             /\ public_pem # "absent" => public_pem' # "absent"
  BY <1>1 DEF Ensure, CheckPrivate, CheckPublic, OpenPrivate, WritePrivate, OpenPublic, WritePublic
<1>2. ASSUME NEW w \in Workers,
             Boot(w) \/ Sign(w) \/ Verify(w) \/ ReadPrivate(w) \/ ReadPublic(w) \/ Crash(w)
      PROVE  UNCHANGED files
  BY <1>2 DEF Boot, Sign, Verify, ReadPrivate, ReadPublic, Crash
<1>3. QED
  BY <1>1, <1>2 DEF Next

\* what the place of a worker tells of the files,
LEMMA ReachedStep == Inductive /\ Next => Reached'
<1> SUFFICES ASSUME Inductive, Next PROVE Reached'
  OBVIOUS
<1>0. /\ private_pem # "absent" => private_pem' # "absent"
      /\ public_pem # "absent" => public_pem' # "absent"
  BY FilesStay
<1> USE <1>0 DEF Inductive, TypeOK, Known, Reached, Go, SetOut, files, history, Writing, Serving
<1>1. PICK w \in Workers :
        Ensure(w) \/ Boot(w) \/ Sign(w) \/ Verify(w) \/ ReadPrivate(w) \/ ReadPublic(w) \/ Crash(w)
  BY DEF Next
<1>2. CASE Boot(w) \/ Sign(w) \/ Verify(w)
  BY <1>2 DEF Boot, Sign, Verify
<1>3. CASE CheckPrivate(w)
  BY <1>3 DEF CheckPrivate
<1>4. CASE CheckPublic(w)
  BY <1>4 DEF CheckPublic, Ensured
<1>5. CASE OpenPrivate(w)
  BY <1>5 DEF OpenPrivate
<1>6. CASE WritePrivate(w)
  BY <1>6 DEF WritePrivate
<1>7. CASE OpenPublic(w)
  BY <1>7 DEF OpenPublic
<1>8. CASE WritePublic(w)
  BY <1>8 DEF WritePublic, Ensured
<1>9. CASE ReadPrivate(w) \/ ReadPublic(w)
  BY <1>9 DEF ReadPrivate, ReadPublic
<1>10. CASE Crash(w)
  BY <1>10 DEF Crash
<1>11. QED
  BY <1>1, <1>2, <1>3, <1>4, <1>5, <1>6, <1>7, <1>8, <1>9, <1>10 DEF Ensure

\* that every key in sight has been generated,
LEMMA KnownStep == Inductive /\ Next => Known'
<1> SUFFICES ASSUME Inductive, Next PROVE Known'
  OBVIOUS
<1> USE DEF Inductive, TypeOK, Known, Go, SetOut, files, history
<1>1. PICK w \in Workers :
        Ensure(w) \/ Boot(w) \/ Sign(w) \/ Verify(w) \/ ReadPrivate(w) \/ ReadPublic(w) \/ Crash(w)
  BY DEF Next
<1>2. CASE Boot(w) \/ Sign(w) \/ Verify(w)
  BY <1>2 DEF Boot, Sign, Verify
<1>3. CASE CheckPrivate(w)
  BY <1>3 DEF CheckPrivate
<1>4. CASE CheckPublic(w)
  BY <1>4 DEF CheckPublic, Ensured
<1>5. CASE OpenPrivate(w)
  BY <1>5 DEF OpenPrivate
<1>6. CASE WritePrivate(w) \/ OpenPublic(w)
  BY <1>6 DEF WritePrivate, OpenPublic
<1>7. CASE WritePublic(w)
  BY <1>7 DEF WritePublic, Ensured
<1>8. CASE ReadPrivate(w) \/ ReadPublic(w)
  BY <1>8 DEF ReadPrivate, ReadPublic
<1>9. CASE Crash(w)
  BY <1>9 DEF Crash
<1>10. QED
  BY <1>1, <1>2, <1>3, <1>4, <1>5, <1>6, <1>7, <1>8, <1>9 DEF Ensure

\* and that undisturbed bootstraps are orderly.
LEMMA OrderlyStep == Inductive /\ Next => Orderly'
<1> SUFFICES ASSUME Inductive, Next, ~disturbed' PROVE Orderly'
  BY DEF Orderly
<1>1. PICK w \in Workers :
        Ensure(w) \/ Boot(w) \/ Sign(w) \/ Verify(w) \/ ReadPrivate(w) \/ ReadPublic(w) \/ Crash(w)
  BY DEF Next
<1> USE DEF Inductive, TypeOK, Go, SetOut, files, history
<1>2. /\ ~disturbed /\ Alone /\ errors \subseteq {"no_public_key"}
      /\ Blank \/ \E k \in Keys : Single(k)
  BY <1>1 DEF Orderly, Ensure, Boot, Sign, Verify, CheckPrivate, CheckPublic, OpenPrivate,
              WritePrivate, OpenPublic, WritePublic, ReadPrivate, ReadPublic, Crash
\* a worker that moves about outside the writing disturbs nothing
<1>3. ASSUME UNCHANGED <<files, pair, used>>, errors' \subseteq {"no_public_key"},
             pc[w] \notin Writing,
             NEW there \in {"down", "check_private", "check_public"} \cup Serving, Go(w, there)
      PROVE  Orderly'
  <2>1. \A v \in Workers : pc'[v] \in Writing <=> pc[v] \in Writing
    BY <1>3 DEF Writing, Serving
  <2>2. \A v \in Workers : pc[v] \in Writing => pc'[v] = pc[v]
    BY <1>3
  <2>3. Alone'
    BY <1>2, <2>1 DEF Alone
  <2>4. Blank => Blank'
    BY <1>3, <2>1, <2>2 DEF Blank
  <2>5. ASSUME NEW k \in Keys, Single(k) PROVE Single(k)'
    BY <1>3, <2>1, <2>2, <2>5 DEF Single, StageOf
  <2>6. QED
    BY <1>2, <1>3, <2>3, <2>4, <2>5 DEF Orderly
<1>4. CASE Boot(w) \/ Sign(w) \/ Verify(w)
  BY <1>2, <1>3, <1>4 DEF Boot, Sign, Verify, Writing
\* whoever sets out is alone, and has found nothing
<1>5. ASSUME SetOut(w), UNCHANGED <<files, pair, used, errors>>,
             private_pem = "absent" \/ public_pem = "absent"
      PROVE  Orderly'
  <2>1. \A v \in Workers : pc[v] \notin Writing
    BY <1>5
  <2>2. Blank
    BY <1>2, <1>5, <2>1 DEF Single
  <2>3. Blank' /\ Alone'
    BY <1>5, <2>1, <2>2 DEF Blank, Alone
  <2>4. QED
    BY <1>2, <1>5, <2>3 DEF Orderly
<1>6. CASE CheckPrivate(w)
  BY <1>2, <1>3, <1>5, <1>6 DEF CheckPrivate, Writing
<1>7. CASE CheckPublic(w)
  BY <1>2, <1>3, <1>5, <1>7 DEF CheckPublic, Ensured, Writing, Serving
<1>8. CASE OpenPrivate(w)
  <2>1. PICK k \in Keys : pair' = [pair EXCEPT ![w] = k] /\ used' = used \cup {k}
    BY <1>8 DEF OpenPrivate
  <2>2. Blank /\ \A v \in Workers : pc[v] \in Writing => v = w
    BY <1>2, <1>8 DEF OpenPrivate, Alone, Single, StageOf, Writing
  <2>3. Single(k)'
    BY <1>8, <2>1, <2>2 DEF OpenPrivate, Blank, Single, StageOf, Writing
  <2>4. Alone'
    BY <1>8, <2>2 DEF OpenPrivate, Alone
  <2>5. QED
    BY <1>2, <1>8, <2>3, <2>4 DEF OpenPrivate, Orderly
<1>9. CASE WritePrivate(w) \/ OpenPublic(w) \/ WritePublic(w)
  <2>1. pc[w] \in {"write_private", "open_public", "write_public"}
    BY <1>9 DEF WritePrivate, OpenPublic, WritePublic
  <2>2. PICK k \in Keys : Single(k)
    BY <1>2, <2>1 DEF Blank, Writing
  <2>3. StageOf(w, k) /\ \A v \in Workers \ {w} : pc[v] \notin Writing
    BY <1>2, <2>1, <2>2 DEF Alone, Single, Writing
  <2>4. \A v \in Workers \ {w} : pc'[v] \notin Writing
    BY <1>9, <2>3 DEF WritePrivate, OpenPublic, WritePublic
  <2>5. Alone'
    BY <2>4 DEF Alone
  <2>6. WritePrivate(w) => Single(k)'
    BY <2>2, <2>3, <2>4 DEF WritePrivate, Single, StageOf, Writing
  <2>7. OpenPublic(w) => Single(k)'
    BY <2>2, <2>3, <2>4 DEF OpenPublic, Single, StageOf, Writing
  <2>8. WritePublic(w) => Single(k)'
    BY <2>2, <2>3, <2>4 DEF WritePublic, Single, StageOf, Ensured, Writing
  <2>9. QED
    BY <1>2, <1>9, <2>5, <2>6, <2>7, <2>8 DEF Orderly, WritePrivate, OpenPublic, WritePublic
<1>10. ASSUME pc[w] \in Serving
       PROVE  \E k \in Keys : used = {k} /\ private_pem = k /\ public_pem \in {k, "empty"}
  <2>1. private_pem # "absent" /\ public_pem # "absent"
    BY <1>10 DEF Reached
  <2>2. PICK k \in Keys : Single(k)
    BY <1>2, <2>1 DEF Blank
  <2>3. ASSUME NEW v \in Workers, pc[v] \in Writing
        PROVE  private_pem = k /\ public_pem = "empty"
    BY <2>1, <2>2, <2>3 DEF Single, StageOf
  <2>4. QED
    BY <2>2, <2>3 DEF Single
<1>11. CASE ReadPrivate(w)
  BY <1>2, <1>3, <1>10, <1>11 DEF ReadPrivate, Writing, Serving
<1>12. CASE ReadPublic(w)
  <2>1. PICK k \in Keys : used = {k} /\ public_pem \in {k, "empty"}
    BY <1>10, <1>12 DEF ReadPublic, Serving
  <2>2. token[w] = k
    BY <1>12, <2>1 DEF ReadPublic, Known
  <2>3. errors' \subseteq {"no_public_key"}
    BY <1>2, <1>12, <2>1, <2>2 DEF ReadPublic
  <2>4. QED
    BY <1>3, <1>12, <2>3 DEF ReadPublic, Writing, Serving
<1>13. CASE Crash(w)
  <2>1. CASE pc[w] \notin Writing
    BY <1>2, <1>3, <1>13, <2>1 DEF Crash
  <2>2. CASE pc[w] = "generate"
    <3>1. Blank
      BY <1>2, <2>2 DEF Single, StageOf, Writing
    <3>2. Blank' /\ Alone'
      BY <1>2, <1>13, <3>1 DEF Crash, Blank, Alone, Writing
    <3>3. QED
      BY <1>2, <1>13, <3>2 DEF Crash, Orderly
  <2>3. QED
    BY <1>13, <2>1, <2>2 DEF Crash
<1>14. QED
  BY <1>1, <1>4, <1>6, <1>7, <1>8, <1>9, <1>11, <1>12, <1>13 DEF Ensure

\* The invariant speaks of nothing but the variables.
LEMMA StutterStep == Inductive /\ UNCHANGED vars => Inductive'
  BY DEF Inductive, TypeOK, Reached, Known, Orderly, Alone, Blank, Single, StageOf,
         vars, files, history

\* The invariant behind the theorems below.
THEOREM InductiveHolds == Spec => []Inductive
<1>1. Inductive /\ Next => Inductive'
  BY TypeStep, ReachedStep, KnownStep, OrderlyStep DEF Inductive
<1>2. QED
  BY InitInductive, StutterStep, <1>1, PTL DEF Spec
-------------------------------------------------------------------------------
\* The key files and the workers keep their types.
THEOREM TypeCorrect == Spec => []TypeOK
<1>1. Inductive => TypeOK
  BY DEF Inductive
<1>2. QED
  BY InductiveHolds, <1>1, PTL

\* No worker serves before both key files are there.
THEOREM ServesWithKeys == Spec => []BootedWithKeys
<1>1. Inductive => BootedWithKeys
  BY DEF Inductive, Reached, BootedWithKeys
<1>2. QED
  BY InductiveHolds, <1>1, PTL

\* Without a bootstrap that overlaps another or is cut short, no login fails, no
\* token is refused, and no file stays empty.
THEOREM BootstrapsSound == Spec => []BootstrapSound
<1>1. Inductive => BootstrapSound
  <2> SUFFICES ASSUME Inductive, ~disturbed PROVE BootstrapSound
    BY DEF BootstrapSound
  <2>1. ASSUME NEW k \in Keys, Single(k), "empty" \in {private_pem, public_pem}
        PROVE  \E w \in Workers : pc[w] \in Writing
    BY <2>1 DEF Single
  <2>2. QED
    BY <2>1 DEF Inductive, Orderly, Blank, BootstrapSound
<1>2. QED
  BY InductiveHolds, <1>1, PTL

\* While both files are there and nobody writes them, no worker starts to, since
\* each finds the file that it looks for; all else leaves the files alone.
LEMMA QuietStep ==
  ASSUME Inductive, Quiet, Next
  PROVE  Quiet' /\ UNCHANGED files
<1> USE DEF Inductive, TypeOK, Quiet, Go, SetOut, files, Writing, Serving
<1>1. PICK w \in Workers :
        Ensure(w) \/ Boot(w) \/ Sign(w) \/ Verify(w) \/ ReadPrivate(w) \/ ReadPublic(w) \/ Crash(w)
  BY DEF Next
<1>2. CASE Ensure(w)
  <2>1. CheckPrivate(w) \/ CheckPublic(w)
    BY <1>2 DEF Ensure, OpenPrivate, WritePrivate, OpenPublic, WritePublic
  <2>2. QED
    BY <2>1 DEF CheckPrivate, CheckPublic, Ensured
<1>3. CASE Boot(w) \/ Sign(w) \/ Verify(w)
  BY <1>3 DEF Boot, Sign, Verify
<1>4. CASE ReadPrivate(w) \/ ReadPublic(w) \/ Crash(w)
  BY <1>4 DEF ReadPrivate, ReadPublic, Crash
<1>5. QED
  BY <1>1, <1>2, <1>3, <1>4

\* Once both files are there and nobody is writing them, they are there to stay.
THEOREM KeysStay == Spec => KeysNeverRotate
<1>1. Inductive /\ [Next]_vars => [Quiet => Quiet' /\ UNCHANGED files]_vars
  BY QuietStep
<1>2. QED
  BY InductiveHolds, <1>1, PTL DEF Spec, KeysNeverRotate
===============================================================================
