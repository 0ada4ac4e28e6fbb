----------------------------- MODULE EventLogProofs -----------------------------
(***************************************************************************)
(* Theorems about EventLog, for any number of workers, lines and backups,  *)
(* from LogAssumption.                                                     *)
(*                                                                         *)
(* Disk usage.  A worker that may still add a line to a file without       *)
(* looking at its length has looked before, or is about to open the base   *)
(* in the middle of a rotation; the lines of a file and the workers that   *)
(* may add one are bounded together (Capped).  Of the files without a      *)
(* name, each is open somewhere; whoever opened the base last has it open  *)
(* or has none open (BaseOpened).                                          *)
(***************************************************************************)
EXTENDS EventLog, TotalProofs

--------------------------------------------------------------------------------
(***************************************************************************)
(* The inductive invariant.                                                *)
(***************************************************************************)
Looking == {"should_rollover", "write"}

Typed ==
  /\ named \in [Names -> Files \cup {NoFile}]
  /\ content \in [Files -> Seq(Nat)]
  /\ stream \in [Workers -> Files \cup {NoFile}]
  /\ pc \in [Workers -> {"down", "idle", "open"} \cup Rotating \cup Looking]
  /\ source \in [Workers -> 0 .. BackupCount - 1]
  /\ written \in Nat
  /\ writers \in SUBSET Workers
  /\ cuts \in 0 .. BackupCount

\* A rotation starts with the stream closed and ends with it open.
Streaming ==
  \A w \in Workers :
    /\ pc[w] \in Looking => stream[w] # NoFile
    /\ pc[w] \in {"down", "open"} \cup Rotating => stream[w] = NoFile

BaseOpened ==
  named[0] # NoFile => \E w \in Workers : stream[w] \in {NoFile, named[0]}

Gone == \A f \in Files : f \notin InUse => content[f] = <<>>

\* The workers that may add a line to a file without looking at its length
Pending(f) ==
  {w \in Workers : \/ pc[w] = "write" /\ stream[w] = f
                   \/ pc[w] = "open" /\ named[0] = f}

Capped ==
  \A f \in Files : Len(content[f]) + Cardinality(Pending(f)) <= FileCap

DiskInv == Typed /\ Streaming /\ BaseOpened /\ Gone /\ Capped

\* The numbers that the constants are
LEMMA Sizes ==
  /\ MaxLines \in Nat /\ MaxLines >= 2 /\ BackupCount \in Nat /\ BackupCount >= 1
  /\ IsFiniteSet(Workers) /\ Cardinality(Workers) \in Nat
  /\ NoFile \notin Files
  /\ IsFiniteSet(Files) /\ Cardinality(Files) = BackupCount + 1 + Cardinality(Workers)
<1>1. IsFiniteSet(Workers) /\ Cardinality(Workers) \in Nat
  BY LogAssumption, FS_CardinalityType
<1>2. BackupCount \in Nat /\ BackupCount >= 1 /\ MaxLines \in Nat /\ MaxLines >= 2
  BY LogAssumption
<1>3. IsFiniteSet(Files) /\ Cardinality(Files) = BackupCount + 1 + Cardinality(Workers)
  <2> DEFINE n == BackupCount + 1 + Cardinality(Workers)
  <2>1. n \in Nat
    BY <1>1, <1>2
  <2> HIDE DEF n
  <2>2. IsFiniteSet(1 .. n) /\ Cardinality(1 .. n) = n
    BY <2>1, FS_Interval
  <2>3. QED
    BY <2>2 DEF Files, n
<1>4. QED
  BY <1>1, <1>2, <1>3 DEF Files, NoFile

\* A function's values on a finite set are no more than its arguments.
LEMMA ImageSize ==
  ASSUME NEW S, IsFiniteSet(S), NEW f
  PROVE  /\ IsFiniteSet({f[x] : x \in S})
         /\ Cardinality({f[x] : x \in S}) \in Nat
         /\ Cardinality({f[x] : x \in S}) <= Cardinality(S)
<1> DEFINE g == [x \in S |-> f[x]]
           T == {f[x] : x \in S}
<1>1. g \in Surjection(S, T)
  BY DEF Surjection
<1>2. QED
  BY <1>1, FS_Surjection, FS_CardinalityType

\* Of all names and all workers, there is one that adds no file of its own.
LEMMA FilesInUse ==
  ASSUME Typed, BaseOpened
  PROVE  /\ IsFiniteSet(InUse)
         /\ Cardinality(InUse) <= BackupCount + Cardinality(Workers)
<1> DEFINE Behind(A, V) == {named[k] : k \in A} \cup {stream[w] : w \in V}
<1>1. ASSUME NEW A, IsFiniteSet(A), NEW V, IsFiniteSet(V), InUse \subseteq Behind(A, V),
             Cardinality(A) + Cardinality(V) <= BackupCount + Cardinality(Workers)
      PROVE  /\ IsFiniteSet(InUse)
             /\ Cardinality(InUse) <= BackupCount + Cardinality(Workers)
  <2> DEFINE X == {named[k] : k \in A}
             Y == {stream[w] : w \in V}
  <2>1. IsFiniteSet(X) /\ Cardinality(X) \in Nat /\ Cardinality(X) <= Cardinality(A)
    BY <1>1, ImageSize
  <2>2. IsFiniteSet(Y) /\ Cardinality(Y) \in Nat /\ Cardinality(Y) <= Cardinality(V)
    BY <1>1, ImageSize
  <2>3. InUse \subseteq X \cup Y
    BY <1>1
  <2>4. Cardinality(A) \in Nat /\ Cardinality(V) \in Nat
    BY <1>1, FS_CardinalityType
  <2> HIDE DEF X, Y
  <2>5. IsFiniteSet(X \cup Y) /\ Cardinality(X \cup Y) <= Cardinality(X) + Cardinality(Y)
        /\ Cardinality(X \cup Y) \in Nat
    <3>1. IsFiniteSet(X \cup Y)
          /\ Cardinality(X \cup Y) = Cardinality(X) + Cardinality(Y) - Cardinality(X \cap Y)
      BY <2>1, <2>2, FS_Union
    <3>2. Cardinality(X \cap Y) \in Nat /\ Cardinality(X \cup Y) \in Nat
      BY <2>1, <3>1, FS_Intersection, FS_CardinalityType
    <3>3. QED
      BY <2>1, <2>2, <3>1, <3>2
  <2>6. IsFiniteSet(InUse) /\ Cardinality(InUse) <= Cardinality(X \cup Y)
    BY <2>3, <2>5, FS_Subset
  <2>7. Cardinality(InUse) \in Nat
    BY <2>6, FS_CardinalityType
  <2>8. QED
    BY <1>1, <2>1, <2>2, <2>4, <2>5, <2>6, <2>7, Sizes
<1>2. /\ IsFiniteSet(Names) /\ Cardinality(Names) = BackupCount + 1
      /\ IsFiniteSet(1 .. BackupCount) /\ Cardinality(1 .. BackupCount) = BackupCount
      /\ Names = {0} \cup 1 .. BackupCount
  <2> DEFINE b == BackupCount
  <2>1. b \in Nat /\ b >= 1 /\ 0 \in Int /\ 1 \in Int
    BY Sizes
  <2> HIDE DEF b
  <2>2. IsFiniteSet(0 .. b) /\ Cardinality(0 .. b) = IF 0 > b THEN 0 ELSE b - 0 + 1
    BY <2>1, FS_Interval
  <2>3. IsFiniteSet(1 .. b) /\ Cardinality(1 .. b) = IF 1 > b THEN 0 ELSE b - 1 + 1
    BY <2>1, FS_Interval
  <2>4. 0 .. b = {0} \cup 1 .. b
    BY <2>1
  <2>5. QED
    BY <2>1, <2>2, <2>3, <2>4 DEF Names, b
<1>3. CASE named[0] = NoFile
  <2>1. InUse \subseteq Behind(1 .. BackupCount, Workers)
    BY <1>2, <1>3 DEF InUse, Linked, Opened
  <2>2. QED
    BY <1>1, <1>2, <2>1, Sizes
<1>4. CASE named[0] # NoFile
  <2>1. PICK w \in Workers : stream[w] \in {NoFile, named[0]}
    BY <1>4 DEF BaseOpened
  <2>2. InUse \subseteq Behind(Names, Workers \ {w})
    BY <1>2, <2>1 DEF InUse, Linked, Opened
  <2>3. IsFiniteSet(Workers \ {w}) /\ Cardinality(Workers \ {w}) = Cardinality(Workers) - 1
    BY Sizes, FS_RemoveElement
  <2>4. Cardinality(Names) + Cardinality(Workers \ {w}) <= BackupCount + Cardinality(Workers)
    BY <1>2, <2>3, Sizes
  <2> HIDE DEF Behind
  <2>5. QED
    BY <1>1, <1>2, <2>2, <2>3, <2>4
<1>5. QED
  BY <1>3, <1>4

\* open() finds the base, or makes a file that nothing else uses.
LEMMA BaseFileIs ==
  ASSUME Typed, BaseOpened
  PROVE  /\ BaseFile \in Files
         /\ named[0] # NoFile => BaseFile = named[0]
         /\ named[0] = NoFile => BaseFile \notin InUse
<1>1. \E f \in Files : f \notin InUse
  <2> SUFFICES ASSUME Files \subseteq InUse PROVE FALSE
    OBVIOUS
  <2>1. IsFiniteSet(InUse) /\ Cardinality(InUse) <= BackupCount + Cardinality(Workers)
    BY FilesInUse
  <2>2. Cardinality(Files) <= Cardinality(InUse) /\ Cardinality(InUse) \in Nat
    BY <2>1, FS_Subset, FS_CardinalityType
  <2>3. QED
    BY <2>1, <2>2, Sizes
<1>2. 0 \in Names
  BY Sizes DEF Names
<1>3. QED
  BY <1>1, <1>2 DEF BaseFile, Typed
--------------------------------------------------------------------------------
(***************************************************************************)
(* Its preservation.                                                       *)
(***************************************************************************)
\* The workers that may still add a line to a file are finitely many.
LEMMA PendingSize ==
  ASSUME NEW f
  PROVE  /\ IsFiniteSet(Pending(f)) /\ Cardinality(Pending(f)) \in Nat
         /\ Cardinality(Pending(f)) <= Cardinality(Workers)
  BY Sizes, FS_Subset, FS_CardinalityType DEF Pending

\* A step that adds no line keeps the cap, if whoever may now add one without
\* looking could do so before, or has found the file not full.
LEMMA CapKept ==
  ASSUME Typed, Typed', Capped,
         \A f \in Files : \/ Len(content'[f]) <= Len(content[f]) /\ Pending(f)' \subseteq Pending(f)
                          \/ Len(content'[f]) <= MaxLines - 2
  PROVE  Capped'
<1> SUFFICES ASSUME NEW f \in Files
             PROVE  Len(content'[f]) + Cardinality(Pending(f)') <= FileCap
  BY DEF Capped, FileCap
<1>1. Len(content[f]) \in Nat /\ Len(content'[f]) \in Nat
  BY DEF Typed
<1>2. Cardinality(Pending(f)) \in Nat /\ IsFiniteSet(Pending(f))
      /\ Len(content[f]) + Cardinality(Pending(f)) <= FileCap
  BY PendingSize DEF Capped
<1>3. /\ Pending(f)' \in SUBSET Workers
      /\ IsFiniteSet(Pending(f)') /\ Cardinality(Pending(f)') \in Nat
      /\ Cardinality(Pending(f)') <= Cardinality(Workers)
  <2>1. Pending(f)' \in SUBSET Workers
    BY DEF Pending
  <2>2. QED
    BY <2>1, Sizes, FS_Subset, FS_CardinalityType
<1>4. CASE Len(content'[f]) <= Len(content[f]) /\ Pending(f)' \subseteq Pending(f)
  <2>1. Cardinality(Pending(f)') <= Cardinality(Pending(f))
    BY <1>2, <1>4, FS_Subset
  <2>2. QED
    BY <1>1, <1>2, <1>3, <1>4, <2>1, Sizes DEF FileCap
<1>5. CASE Len(content'[f]) <= MaxLines - 2
  BY <1>1, <1>3, <1>5, Sizes DEF FileCap
<1>6. QED
  BY <1>4, <1>5

\* The file system keeps the files in use and no others.
LEMMA RetainStep ==
  ASSUME Typed, Retain
  PROVE  /\ content' \in [Files -> Seq(Nat)]
         /\ Gone'
         /\ \A f \in Files : /\ f \in InUse' => content'[f] = content[f]
                             /\ Len(content'[f]) <= Len(content[f])
<1>1. \A f \in Files : content[f] \in Seq(Nat) /\ Len(content[f]) \in Nat
  BY DEF Typed
<1>2. <<>> \in Seq(Nat) /\ Len(<<>>) = 0
  OBVIOUS
<1>3. \A f \in Files : content'[f] = IF f \in InUse' THEN content[f] ELSE <<>>
  BY DEF Retain
<1>4. content' \in [Files -> Seq(Nat)]
  BY <1>1, <1>2 DEF Retain
<1>5. QED
  BY <1>1, <1>2, <1>3, <1>4 DEF Gone

\* A worker without a stream opens the base.
LEMMA OpenStep ==
  ASSUME DiskInv, NEW w \in Workers, stream[w] = NoFile, OpenBase(w)
  PROVE  /\ named' \in [Names -> Files \cup {NoFile}]
         /\ stream' \in [Workers -> Files \cup {NoFile}]
         /\ stream'[w] = BaseFile /\ named'[0] = BaseFile /\ BaseFile \in Files
         /\ \A v \in Workers \ {w} : stream'[v] = stream[v]
         /\ BaseOpened'
         /\ InUse \subseteq InUse'
         /\ BaseFile # named[0] => named[0] = NoFile /\ content[BaseFile] = <<>>
<1>1. BaseFile \in Files /\ (named[0] # NoFile => BaseFile = named[0])
      /\ (named[0] = NoFile => BaseFile \notin InUse)
  BY BaseFileIs DEF DiskInv
<1>2. 0 \in Names /\ Typed
  BY Sizes DEF Names, DiskInv
<1>3. /\ named' \in [Names -> Files \cup {NoFile}]
      /\ stream' \in [Workers -> Files \cup {NoFile}]
      /\ stream'[w] = BaseFile /\ named'[0] = BaseFile
      /\ \A v \in Workers \ {w} : stream'[v] = stream[v]
      /\ \A k \in Names \ {0} : named'[k] = named[k]
  BY <1>1, <1>2 DEF OpenBase, Typed
<1>4. BaseOpened'
  BY <1>3 DEF BaseOpened
<1>5. InUse \subseteq InUse'
  <2>1. ASSUME NEW k \in Names, named[k] # NoFile PROVE named[k] \in Linked'
    <3>1. named'[k] = named[k]
      BY <1>1, <1>3, <2>1
    <3>2. QED
      BY <2>1, <3>1 DEF Linked
  <2>2. ASSUME NEW v \in Workers, stream[v] # NoFile PROVE stream[v] \in Opened'
    <3>1. stream'[v] = stream[v]
      BY <1>3, <2>2
    <3>2. QED
      BY <2>2, <3>1 DEF Opened
  <2>3. QED
    BY <2>1, <2>2 DEF InUse, Linked, Opened
<1>6. QED
  BY <1>1, <1>3, <1>4, <1>5 DEF DiskInv, Gone

\* No file is used before a worker has been started.
LEMMA InitDisk == Init => DiskInv
<1> SUFFICES ASSUME Init PROVE DiskInv
  OBVIOUS
<1>1. Typed /\ Streaming
  BY Sizes DEF Init, Typed, Streaming, Rotating, Looking
<1>2. BaseOpened /\ Gone
  BY Sizes DEF Init, BaseOpened, Gone, Names
<1>3. ASSUME NEW f \in Files PROVE Len(content[f]) + Cardinality(Pending(f)) <= FileCap
  <2>1. Pending(f) = {} /\ content[f] = <<>>
    BY <1>3 DEF Init, Pending
  <2>2. QED
    BY <2>1, Sizes, FS_EmptySet DEF FileCap
<1>4. QED
  BY <1>1, <1>2, <1>3 DEF DiskInv, Capped

\* A worker opens the base before it looks at the length of the file.
LEMMA OpenedDisk ==
  ASSUME DiskInv, NEW w \in Workers, stream[w] = NoFile, OpenBase(w),
         NEW next \in {"idle", "should_rollover"}, Go(w, next),
         UNCHANGED <<content, source, written, cuts>>, writers' \in SUBSET Workers
  PROVE  DiskInv'
<1>1. Typed'
  BY OpenStep DEF DiskInv, Typed, Go, Looking
<1>2. Streaming' /\ BaseOpened'
  BY OpenStep DEF DiskInv, Typed, Streaming, Go, Looking, Rotating, NoFile, Files
<1>3. Gone'
  BY OpenStep DEF DiskInv, Gone
<1>4. ASSUME NEW f \in Files
      PROVE  \/ Len(content'[f]) <= Len(content[f]) /\ Pending(f)' \subseteq Pending(f)
             \/ Len(content'[f]) <= MaxLines - 2
  <2>1. Len(content[f]) \in Nat /\ content'[f] = content[f] /\ Len(<<>>) = 0
    BY DEF DiskInv, Typed
  <2>2. CASE f = BaseFile /\ BaseFile # named[0]
    BY <2>1, <2>2, OpenStep, Sizes
  <2>3. CASE f # BaseFile \/ BaseFile = named[0]
    <3>1. ASSUME NEW v \in Pending(f)' PROVE v \in Pending(f)
      <4>1. v \in Workers /\ v # w
        BY <3>1 DEF Pending, Go, DiskInv, Typed
      <4>2. pc'[v] = pc[v] /\ stream'[v] = stream[v]
        BY <4>1, OpenStep DEF Go, DiskInv, Typed
      <4>3. QED
        BY <2>3, <3>1, <4>1, <4>2, OpenStep DEF Pending
    <3>2. QED
      BY <2>1, <3>1
  <2>4. QED
    BY <2>2, <2>3
<1>5. Capped'
  BY <1>1, <1>4, CapKept DEF DiskInv
<1>6. QED
  BY <1>1, <1>2, <1>3, <1>5 DEF DiskInv

\* A step of a rotation that removes names and opens nothing.
LEMMA ClosedDisk ==
  ASSUME DiskInv, NEW w \in Workers,
         named' \in [Names -> Files \cup {NoFile}], named'[0] \in {named[0], NoFile},
         stream' = [stream EXCEPT ![w] = NoFile], Retain,
         NEW next \in {"down", "idle", "open"} \cup Rotating, Go(w, next),
         next = "open" => named'[0] = NoFile,
         source' \in [Workers -> 0 .. BackupCount - 1], cuts' \in 0 .. BackupCount,
         UNCHANGED <<written, writers>>
  PROVE  DiskInv'
<1>1. Typed'
  BY RetainStep DEF DiskInv, Typed, Go
<1>2. Streaming'
  BY DEF DiskInv, Typed, Streaming, Go, Looking, Rotating
<1>3. BaseOpened'
  BY DEF DiskInv, Typed, BaseOpened
<1>4. Gone'
  BY RetainStep DEF DiskInv
<1>5. ASSUME NEW f \in Files, NEW v \in Pending(f)' PROVE v \in Pending(f)
  <2>1. f # NoFile
    BY Sizes
  <2>2. v \in Workers /\ v # w
    BY <1>5, <2>1 DEF Pending, Go, DiskInv, Typed, Rotating
  <2>3. pc'[v] = pc[v] /\ stream'[v] = stream[v]
    BY <2>2 DEF Go, DiskInv, Typed
  <2>4. QED
    BY <1>5, <2>1, <2>2, <2>3 DEF Pending
<1>6. Capped'
  BY <1>1, <1>5, CapKept, RetainStep DEF DiskInv
<1>7. QED
  BY <1>1, <1>2, <1>3, <1>4, <1>6 DEF DiskInv

\* A worker only looks: at the name of a file, or at its length.
LEMMA LookedDisk ==
  ASSUME DiskInv, NEW w \in Workers,
         UNCHANGED <<named, content, stream, written, cuts>>, writers' \in SUBSET Workers,
         source' \in [Workers -> 0 .. BackupCount - 1],
         NEW next, Go(w, next),
         \/ next \in {"idle", "open"} \cup Rotating /\ stream[w] = NoFile
         \/ next = "should_rollover" /\ stream[w] # NoFile
         \/ next = "write" /\ stream[w] # NoFile /\ Len(content[stream[w]]) <= MaxLines - 2,
         next = "open" => named[0] = NoFile
  PROVE  DiskInv'
<1>1. Typed'
  BY DEF DiskInv, Typed, Go, Looking
<1>2. Streaming' /\ BaseOpened' /\ Gone'
  BY DEF DiskInv, Typed, Streaming, BaseOpened, Gone, InUse, Linked, Opened, Go, Looking, Rotating
<1>3. ASSUME NEW f \in Files
      PROVE  \/ Len(content'[f]) <= Len(content[f]) /\ Pending(f)' \subseteq Pending(f)
             \/ Len(content'[f]) <= MaxLines - 2
  <2>1. f # NoFile /\ Len(content[f]) \in Nat /\ content'[f] = content[f]
    BY Sizes DEF DiskInv, Typed
  <2>2. CASE next = "write" /\ stream[w] = f
    BY <2>1, <2>2
  <2>3. CASE ~(next = "write" /\ stream[w] = f)
    <3>1. ASSUME NEW v \in Pending(f)' PROVE v \in Pending(f)
      <4>1. v \in Workers /\ v # w
        BY <2>1, <2>3, <3>1 DEF Pending, Go, DiskInv, Typed, Rotating
      <4>2. pc'[v] = pc[v]
        BY <4>1 DEF Go, DiskInv, Typed
      <4>3. QED
        BY <3>1, <4>1, <4>2 DEF Pending
    <3>2. QED
      BY <2>1, <3>1
  <2>4. QED
    BY <2>2, <2>3
<1>4. Capped'
  BY <1>1, <1>3, CapKept DEF DiskInv
<1>5. QED
  BY <1>1, <1>2, <1>4 DEF DiskInv

\* The stream of a full file is closed.
LEMMA ShouldRolloverDisk ==
  ASSUME DiskInv, NEW w \in Workers, ShouldRollover(w)
  PROVE  DiskInv'
<1>1. stream[w] # NoFile /\ stream[w] \in Files /\ Len(content[stream[w]]) \in Nat
  BY DEF DiskInv, Typed, Streaming, ShouldRollover, Looking
<1>2. CASE Len(content[stream[w]]) + 1 >= MaxLines
  <2>1. stream' = [stream EXCEPT ![w] = NoFile] /\ Retain /\ UNCHANGED <<named, written, writers, cuts>>
    BY <1>2 DEF ShouldRollover
  <2>2. PICK next \in Rotating : Go(w, next)
    BY <1>2 DEF ShouldRollover, From, Rotating
  <2>3. source' \in [Workers -> 0 .. BackupCount - 1] /\ next # "open"
    <3>1. source' = [source EXCEPT ![w] = BackupCount - 1]
      BY <1>2 DEF ShouldRollover, From
    <3>2. BackupCount - 1 \in 0 .. BackupCount - 1
      BY Sizes
    <3>3. QED
      BY <2>2, <3>1, <3>2 DEF DiskInv, Typed, Rotating
  <2>4. named' \in [Names -> Files \cup {NoFile}] /\ cuts' \in 0 .. BackupCount
    BY <2>1 DEF DiskInv, Typed
  <2>5. QED
    BY <2>1, <2>2, <2>3, <2>4, ClosedDisk
<1>3. CASE ~(Len(content[stream[w]]) + 1 >= MaxLines)
  <2>1. Go(w, "write") /\ UNCHANGED <<named, stream, source, written, writers, cuts>> /\ Retain
    BY <1>3 DEF ShouldRollover
  <2>2. UNCHANGED content
    <3>1. InUse' = InUse
      BY <2>1 DEF InUse, Linked, Opened
    <3>2. content' = [f \in Files |-> content[f]]
      BY <2>1, <3>1 DEF Retain, DiskInv, Gone
    <3>3. QED
      BY <3>2 DEF DiskInv, Typed
  <2>3. Len(content[stream[w]]) <= MaxLines - 2
    BY <1>1, <1>3, Sizes
  <2>4. source' \in [Workers -> 0 .. BackupCount - 1] /\ writers' \in SUBSET Workers
    BY <2>1 DEF DiskInv, Typed
  <2>5. QED
    BY <1>1, <2>1, <2>2, <2>3, <2>4, LookedDisk
<1>4. QED
  BY <1>2, <1>3

\* Only the base is left to be opened when the loop over the backups ends.
LEMMA RotateDisk ==
  ASSUME DiskInv, NEW w \in Workers,
         FindSource(w) \/ FindTarget(w) \/ RemoveTarget(w) \/ RenameSource(w)
  PROVE  DiskInv'
<1>1. stream[w] = NoFile /\ pc[w] \in Rotating
  BY DEF DiskInv, Streaming, FindSource, FindTarget, RemoveTarget, RenameSource, Rotating
<1>2. /\ source[w] \in 0 .. BackupCount - 1 /\ source[w] + 1 \in Names /\ source[w] + 1 # 0
      /\ source[w] \in Names
  BY Sizes DEF DiskInv, Typed, Names
<1>3. stream = [stream EXCEPT ![w] = NoFile]
  BY <1>1 DEF DiskInv, Typed
<1>4. source' \in [Workers -> 0 .. BackupCount - 1] /\ writers' = writers
  BY <1>2, Sizes
     DEF DiskInv, Typed, FindSource, FindTarget, RemoveTarget, RenameSource, From
<1>5. CASE FindSource(w) \/ FindTarget(w)
  <2>1. UNCHANGED <<named, content, stream, written, cuts>>
    BY <1>5 DEF FindSource, FindTarget
  <2>2. \E next \in {"open"} \cup Rotating : Go(w, next) /\ (next = "open" => named[0] = NoFile)
    BY <1>5 DEF FindSource, FindTarget, From, TargetCleared, Rotating
  <2>3. writers' \in SUBSET Workers
    BY <1>4 DEF DiskInv, Typed
  <2>4. QED
    BY <1>1, <1>4, <2>1, <2>2, <2>3, LookedDisk
<1>6. CASE RemoveTarget(w) \/ RenameSource(w)
  <2>1. UNCHANGED <<stream, written, writers, cuts>> /\ Retain
    BY <1>6 DEF RemoveTarget, RenameSource
  <2>2. named' \in [Names -> Files \cup {NoFile}] /\ named'[0] \in {named[0], NoFile}
    <3>1. named \in [Names -> Files \cup {NoFile}] /\ 0 \in Names
      BY Sizes DEF DiskInv, Typed, Names
    <3>2. CASE RemoveTarget(w)
      BY <1>2, <3>1, <3>2 DEF RemoveTarget
    <3>3. CASE RenameSource(w)
      BY <1>2, <3>1, <3>3 DEF RenameSource
    <3>4. QED
      BY <1>6, <3>2, <3>3
  <2>3. \E next \in {"idle", "open"} \cup Rotating :
          Go(w, next) /\ (next = "open" => named'[0] = NoFile)
    <3>1. CASE RemoveTarget(w)
      BY <3>1 DEF RemoveTarget, TargetCleared, Rotating
    <3>2. CASE RenameSource(w) /\ source[w] = 0 /\ named[source[w]] # NoFile
      <4>1. named'[0] = NoFile
        BY <1>2, <3>2 DEF RenameSource, DiskInv, Typed
      <4>2. QED
        BY <3>2, <4>1 DEF RenameSource
    <3>3. CASE RenameSource(w) /\ ~(source[w] = 0 /\ named[source[w]] # NoFile)
      BY <3>3 DEF RenameSource, From, Rotating
    <3>4. QED
      BY <1>6, <3>1, <3>2, <3>3
  <2>4. cuts' \in 0 .. BackupCount
    BY <2>1 DEF DiskInv, Typed
  <2>5. QED
    BY <1>3, <1>4, <2>1, <2>2, <2>3, <2>4, ClosedDisk
<1>7. QED
  BY <1>5, <1>6

\* After a rotation the base is opened and written to, full or not.
LEMMA OpenDisk ==
  ASSUME DiskInv, NEW w \in Workers, Open(w)
  PROVE  DiskInv'
<1>1. stream[w] = NoFile /\ OpenBase(w) /\ Go(w, "write") /\ pc[w] = "open"
      /\ UNCHANGED <<content, source, written, writers, cuts>>
  BY DEF DiskInv, Streaming, Open
<1>2. Typed'
  BY <1>1, OpenStep DEF DiskInv, Typed, Go, Looking
<1>3. Streaming' /\ BaseOpened'
  BY <1>1, OpenStep DEF DiskInv, Typed, Streaming, Go, Looking, Rotating, NoFile, Files
<1>4. Gone'
  BY <1>1, OpenStep DEF DiskInv, Gone
<1>5. ASSUME NEW f \in Files
      PROVE  \/ Len(content'[f]) <= Len(content[f]) /\ Pending(f)' \subseteq Pending(f)
             \/ Len(content'[f]) <= MaxLines - 2
  <2>1. Len(content[f]) \in Nat /\ content'[f] = content[f] /\ Len(<<>>) = 0
    BY <1>1 DEF DiskInv, Typed
  <2>2. CASE f = BaseFile /\ BaseFile # named[0]
    BY <1>1, <2>1, <2>2, OpenStep, Sizes
  <2>3. CASE f # BaseFile \/ BaseFile = named[0]
    <3>1. ASSUME NEW v \in Pending(f)' PROVE v \in Pending(f)
      <4>1. CASE v = w
        <5>1. stream'[w] = f
          BY <1>1, <3>1, <4>1 DEF Pending, Go, DiskInv, Typed
        <5>2. f = named[0]
          BY <1>1, <2>3, <5>1, OpenStep
        <5>3. QED
          BY <1>1, <4>1, <5>2 DEF Pending
      <4>2. CASE v # w
        <5>1. v \in Workers /\ pc'[v] = pc[v] /\ stream'[v] = stream[v]
          BY <1>1, <3>1, <4>2, OpenStep DEF Pending, Go, DiskInv, Typed
        <5>2. QED
          BY <1>1, <2>3, <3>1, <5>1, OpenStep DEF Pending
      <4>3. QED
        BY <4>1, <4>2
    <3>2. QED
      BY <2>1, <3>1
  <2>4. QED
    BY <2>2, <2>3
<1>6. Capped'
  BY <1>2, <1>5, CapKept DEF DiskInv
<1>7. QED
  BY <1>2, <1>3, <1>4, <1>6 DEF DiskInv

\* A written line takes the place of a worker that was to write it.
LEMMA WriteDisk ==
  ASSUME DiskInv, NEW w \in Workers, Write(w)
  PROVE  DiskInv'
<1> DEFINE g == stream[w]
<1>1. g \in Files /\ g # NoFile /\ g \in InUse /\ w \in Pending(g) /\ pc[w] = "write"
  BY DEF DiskInv, Typed, Streaming, Write, Looking, InUse, Opened, Pending
<1>2. /\ content'[g] = Append(content[g], written + 1)
      /\ \A f \in Files \ {g} : content'[f] = content[f]
      /\ content' \in [Files -> Seq(Nat)] /\ written' \in Nat
  BY <1>1 DEF DiskInv, Typed, Write
<1>3. Go(w, "idle") /\ UNCHANGED <<named, stream, source, writers, cuts>>
  BY DEF Write
<1> HIDE DEF g
<1>4. Typed'
  BY <1>2, <1>3 DEF DiskInv, Typed, Go
<1>5. Streaming' /\ BaseOpened'
  BY <1>3 DEF DiskInv, Typed, Streaming, BaseOpened, Go, Looking, Rotating
<1>6. Gone'
  <2>1. InUse' = InUse
    BY <1>3 DEF InUse, Linked, Opened
  <2>2. QED
    BY <1>1, <1>2, <2>1 DEF DiskInv, Gone
<1>7. ASSUME NEW f \in Files
      PROVE  /\ Len(content[f]) \in Nat
             /\ Pending(f)' = Pending(f) \ {w}
             /\ Len(content'[f]) = IF f = g THEN Len(content[f]) + 1 ELSE Len(content[f])
             /\ w \in Pending(f) <=> f = g
  <2>1. Len(content[f]) \in Nat /\ content[f] \in Seq(Nat)
    BY DEF DiskInv, Typed
  <2>2. \A v \in Workers : v # w => pc'[v] = pc[v]
    BY <1>3 DEF Go, DiskInv, Typed
  <2>3. pc'[w] = "idle"
    BY <1>3 DEF Go, DiskInv, Typed
  <2>4. Pending(f)' = Pending(f) \ {w}
    BY <1>3, <2>2, <2>3 DEF Pending
  <2>5. w \in Pending(f) <=> f = g
    BY <1>1 DEF Pending, g
  <2>6. QED
    BY <1>2, <2>1, <2>4, <2>5
<1>8. ASSUME NEW f \in Files
      PROVE  Len(content'[f]) + Cardinality(Pending(f)') <= FileCap
  <2>1. IsFiniteSet(Pending(f)) /\ Cardinality(Pending(f)) \in Nat
        /\ Len(content[f]) + Cardinality(Pending(f)) <= FileCap
    BY PendingSize DEF DiskInv, Capped
  <2>2. Cardinality(Pending(f)')
          = IF f = g THEN Cardinality(Pending(f)) - 1 ELSE Cardinality(Pending(f))
    BY <1>7, <2>1, FS_RemoveElement
  <2>3. FileCap \in Int
    BY Sizes DEF FileCap
  <2>4. QED
    BY <1>7, <2>1, <2>2, <2>3
<1>9. Capped'
  BY <1>8 DEF Capped, FileCap
<1>10. QED
  BY <1>4, <1>5, <1>6, <1>9 DEF DiskInv

\* Every step keeps the invariant,
LEMMA NextDisk == DiskInv /\ [Next]_vars => DiskInv'
<1> SUFFICES ASSUME DiskInv, [Next]_vars PROVE DiskInv'
  OBVIOUS
<1>1. ASSUME NEW w \in Workers, BuildLogger(w) PROVE DiskInv'
  <2>1. stream[w] = NoFile /\ writers' \in SUBSET Workers
    BY <1>1 DEF DiskInv, Typed, Streaming, BuildLogger
  <2>2. QED
    BY <1>1, <2>1, OpenedDisk DEF BuildLogger
<1>2. ASSUME NEW w \in Workers, Emit(w) PROVE DiskInv'
  <2>1. writers' \in SUBSET Workers /\ Go(w, "should_rollover")
        /\ UNCHANGED <<content, source, written, cuts>>
    BY <1>2 DEF DiskInv, Typed, Emit
  <2>2. CASE stream[w] = NoFile
    <3>1. OpenBase(w)
      BY <1>2, <2>2 DEF Emit
    <3>2. QED
      BY <2>1, <2>2, <3>1, OpenedDisk
  <2>3. CASE stream[w] # NoFile
    <3>1. UNCHANGED <<named, stream>> /\ source' \in [Workers -> 0 .. BackupCount - 1]
      BY <1>2, <2>1, <2>3 DEF Emit, DiskInv, Typed
    <3>2. QED
      BY <2>1, <2>3, <3>1, LookedDisk
  <2>4. QED
    BY <2>2, <2>3
<1>3. ASSUME NEW w \in Workers, ShouldRollover(w) PROVE DiskInv'
  BY <1>3, ShouldRolloverDisk
<1>4. ASSUME NEW w \in Workers, Rotate(w) PROVE DiskInv'
  BY <1>4, RotateDisk, OpenDisk DEF Rotate
<1>5. ASSUME NEW w \in Workers, Write(w) PROVE DiskInv'
  BY <1>5, WriteDisk
<1>6. ASSUME NEW w \in Workers, Crash(w) PROVE DiskInv'
  <2>1. /\ stream' = [stream EXCEPT ![w] = NoFile] /\ Retain /\ Go(w, "down")
        /\ UNCHANGED <<named, source, written, writers>>
    BY <1>6 DEF Crash
  <2>2. /\ named' \in [Names -> Files \cup {NoFile}] /\ named'[0] = named[0]
        /\ source' \in [Workers -> 0 .. BackupCount - 1]
    BY <2>1 DEF DiskInv, Typed
  <2>3. cuts' \in 0 .. BackupCount
    BY <1>6, Sizes DEF Crash, DiskInv, Typed
  <2>4. QED
    BY <2>1, <2>2, <2>3, ClosedDisk
<1>7. CASE UNCHANGED vars
  BY <1>7 DEF vars, DiskInv, Typed, Streaming, BaseOpened, Gone, Capped, Pending, InUse, Linked, Opened
<1>8. QED
  BY <1>1, <1>2, <1>3, <1>4, <1>5, <1>6, <1>7 DEF Next

\* and so it holds in every reachable state.
THEOREM DiskInvariant == Spec => []DiskInv
  BY InitDisk, NextDisk, PTL DEF Spec

\* DiskCapped: no file outgrows its limit by more than a line for each worker but
\* one, and no more files are in use than backups and workers, whatever
\* rotations and kills cross each other.
THEOREM DiskAlwaysCapped == Spec => []DiskCapped
<1>1. DiskInv => DiskCapped
  <2> SUFFICES ASSUME DiskInv PROVE DiskCapped
    OBVIOUS
  <2>1. ASSUME NEW f \in Files PROVE Len(content[f]) <= FileCap
    <3>1. Len(content[f]) \in Nat /\ Len(content[f]) + Cardinality(Pending(f)) <= FileCap
      BY DEF DiskInv, Typed, Capped
    <3>2. Cardinality(Pending(f)) \in Nat /\ FileCap \in Int
      BY PendingSize, Sizes DEF FileCap
    <3>3. QED
      BY <3>1, <3>2
  <2>2. QED
    BY <2>1, FilesInUse DEF DiskInv, DiskCapped
<1>2. QED
  BY DiskInvariant, <1>1, PTL
--------------------------------------------------------------------------------
(***************************************************************************)
(* A lone writer.                                                          *)
(*                                                                         *)
(* While one worker logs, nobody else rotates, and the files are one       *)
(* sequence of events, cut where one file ends and the next begins         *)
(* (Ends).  What a kill in the middle of a rotation can do is to leave a   *)
(* name without a file below one that has a file: no more such names than  *)
(* rotations that were cut short, and one more during a rotation (Gaps).   *)
(***************************************************************************)
Slots == 1 .. BackupCount + 1

\* The latest event in the files that have the name k or a later one
Ends(last) ==
  /\ last \in [0 .. BackupCount + 1 -> Nat] /\ last[0] = written
  /\ \A k \in Names :
       /\ named[k] = NoFile => last[k + 1] = last[k]
       /\ named[k] # NoFile =>
            /\ last[k] = last[k + 1] + Len(content[named[k]])
            /\ \A i \in 1 .. Len(content[named[k]]) : content[named[k]][i] = last[k + 1] + i

\* Every name has a file of its own; a file is rotated away when it is full.
Shelves ==
  /\ \A j, k \in Names : named[j] = named[k] /\ named[j] # NoFile => j = k
  /\ \A k \in 1 .. BackupCount : named[k] # NoFile => Len(content[named[k]]) = MaxLines - 1
  /\ named[0] # NoFile => Len(content[named[0]]) <= MaxLines - 1

BaseFull == named[0] # NoFile /\ Len(content[named[0]]) = MaxLines - 1

\* The slot after the last name is taken as soon as events have been lost.
Present(t, lost) == IF t <= BackupCount THEN named[t] # NoFile ELSE lost

Missing(t) == {k \in 1 .. t - 1 : named[k] = NoFile}

Gaps(lost, T, n) == \A t \in T : Present(t, lost) => Cardinality(Missing(t)) <= n

\* A step that leaves the named files alone
LEMMA ShelfKept ==
  ASSUME NEW last, Ends(last), Shelves, named' = named, written' = written,
         \A k \in Names : named[k] # NoFile => content'[named[k]] = content[named[k]]
  PROVE  /\ Ends(last)' /\ Shelves' /\ BaseFull' = BaseFull
         /\ \A t \in Slots :
              Missing(t)' = Missing(t) /\ \A lost : Present(t, lost)' = Present(t, lost)
<1>1. 0 \in Names /\ 1 .. BackupCount \subseteq Names
  BY Sizes DEF Names
<1>2. Ends(last)'
  BY DEF Ends
<1>3. Shelves'
  BY <1>1 DEF Shelves
<1>4. BaseFull' = BaseFull
  BY <1>1 DEF BaseFull
<1>5. QED
  BY <1>2, <1>3, <1>4 DEF Missing, Present

\* Opening the base adds an empty file, if any.
LEMMA ShelfOpened ==
  ASSUME NEW last, Ends(last), Shelves, DiskInv, NEW w \in Workers, stream[w] = NoFile,
         OpenBase(w), UNCHANGED <<content, written>>
  PROVE  /\ Ends(last)' /\ Shelves' /\ BaseFull' = BaseFull
         /\ \A t \in Slots :
              Missing(t)' = Missing(t) /\ \A lost : Present(t, lost)' = Present(t, lost)
         /\ stream'[w] = named'[0] /\ named'[0] # NoFile
         /\ named[0] # NoFile => named'[0] = named[0]
         /\ named[0] = NoFile => content'[named'[0]] = <<>>
         /\ \A k \in 1 .. BackupCount : named'[k] = named[k]
         /\ \A v \in Workers \ {w} : stream'[v] = stream[v]
<1>1. /\ 0 \in Names /\ 1 .. BackupCount \subseteq Names
      /\ \A k \in Names : k # 0 => k \in 1 .. BackupCount
      /\ \A k \in 1 .. BackupCount : k # 0
  BY Sizes DEF Names
<1>2. BaseFile \in Files /\ BaseFile # NoFile
      /\ (named[0] # NoFile => BaseFile = named[0])
      /\ (named[0] = NoFile => BaseFile \notin InUse)
  BY BaseFileIs, Sizes DEF DiskInv
<1>3. /\ named'[0] = BaseFile /\ stream'[w] = BaseFile
      /\ \A k \in Names \ {0} : named'[k] = named[k]
      /\ \A v \in Workers \ {w} : stream'[v] = stream[v]
  BY <1>1 DEF OpenBase, DiskInv, Typed
<1>4. named[0] = NoFile =>
        content[BaseFile] = <<>> /\ \A k \in Names : named[k] # BaseFile
  BY <1>2 DEF DiskInv, Gone, InUse, Linked
<1>5. Ends(last)'
  <2>1. ASSUME NEW k \in Names
        PROVE  /\ named'[k] = NoFile => last[k + 1] = last[k]
               /\ named'[k] # NoFile =>
                    /\ last[k] = last[k + 1] + Len(content'[named'[k]])
                    /\ \A i \in 1 .. Len(content'[named'[k]]) : content'[named'[k]][i] = last[k + 1] + i
    <3>1. CASE named'[k] = named[k]
      BY <3>1 DEF Ends
    <3>2. CASE named'[k] # named[k]
      <4>1. k = 0 /\ named[0] = NoFile /\ content'[named'[k]] = <<>> /\ named'[k] # NoFile
        BY <1>1, <1>2, <1>3, <1>4, <3>2
      <4>2. last[0 + 1] = last[0] /\ last[0] \in Nat /\ last[1] \in Nat
        BY <1>1, <4>1, Sizes DEF Ends
      <4>3. QED
        BY <4>1, <4>2
    <3>3. QED
      BY <3>1, <3>2
  <2>2. last \in [0 .. BackupCount + 1 -> Nat] /\ last[0] = written'
    BY DEF Ends
  <2>3. QED
    BY <2>1, <2>2 DEF Ends
<1>6. Shelves' /\ BaseFull' = BaseFull
  <2>1. CASE named[0] # NoFile
    <3>1. \A k \in Names : named'[k] = named[k]
      BY <1>2, <1>3, <2>1
    <3>2. QED
      BY <1>1, <3>1 DEF Shelves, BaseFull
  <2>2. CASE named[0] = NoFile
    <3>1. Len(content'[named'[0]]) = 0
      BY <1>3, <1>4, <2>2
    <3>2. \A j, k \in Names : named'[j] = named'[k] /\ named'[j] # NoFile => j = k
      BY <1>1, <1>3, <1>4, <2>2 DEF Shelves
    <3>3. \A k \in 1 .. BackupCount : named'[k] # NoFile => Len(content'[named'[k]]) = MaxLines - 1
      BY <1>1, <1>3 DEF Shelves
    <3>4. QED
      BY <1>2, <1>3, <2>2, <3>1, <3>2, <3>3, Sizes DEF Shelves, BaseFull
  <2>3. QED
    BY <2>1, <2>2
<1>7. ASSUME NEW t \in Slots
      PROVE  Missing(t)' = Missing(t) /\ \A lost : Present(t, lost)' = Present(t, lost)
  <2>1. \A k \in 1 .. BackupCount : named'[k] = named[k]
    BY <1>1, <1>3
  <2>2. 1 .. t - 1 \subseteq 1 .. BackupCount /\ (t <= BackupCount => t \in 1 .. BackupCount)
    BY Sizes DEF Slots
  <2>3. QED
    BY <2>1, <2>2 DEF Present, Missing
<1>8. QED
  BY <1>1, <1>2, <1>3, <1>4, <1>5, <1>6, <1>7

\* The number of names without a file is a number.
LEMMA MissingSize ==
  ASSUME NEW t \in Slots
  PROVE  /\ IsFiniteSet(Missing(t)) /\ Cardinality(Missing(t)) \in Nat
         /\ Cardinality(Missing(t)) <= BackupCount
<1> DEFINE b == BackupCount
<1>1. b \in Nat /\ 1 .. t - 1 \subseteq 1 .. b
  BY Sizes DEF Slots
<1>2. IsFiniteSet(1 .. b) /\ Cardinality(1 .. b) <= b
  <2> HIDE DEF b
  <2>1. IsFiniteSet(1 .. b) /\ Cardinality(1 .. b) = IF 1 > b THEN 0 ELSE b - 1 + 1
    BY <1>1, FS_Interval
  <2>2. QED
    BY <1>1, <2>1
<1>3. Missing(t) \in SUBSET (1 .. b)
  BY <1>1 DEF Missing
<1> HIDE DEF b
<1>4. IsFiniteSet(Missing(t)) /\ Cardinality(Missing(t)) <= Cardinality(1 .. b)
  BY <1>2, <1>3, FS_Subset
<1>5. Cardinality(Missing(t)) \in Nat /\ Cardinality(1 .. b) \in Nat
  BY <1>2, <1>4, FS_CardinalityType
<1>6. QED
  BY <1>1, <1>2, <1>4, <1>5 DEF b

\* Removing the oldest backup leaves one more name without a file.
LEMMA ShelfRemoved ==
  ASSUME NEW last, Ends(last), Shelves, DiskInv, Retain, named[BackupCount] # NoFile,
         named' = [named EXCEPT ![BackupCount] = NoFile], UNCHANGED <<written, cuts>>,
         NEW lost, Gaps(lost, Slots, cuts)
  PROVE  LET later == [last EXCEPT ![BackupCount + 1] = last[BackupCount]]
         IN  /\ Ends(later)' /\ later[BackupCount + 1] # 0
             /\ Shelves' /\ BaseFull' = BaseFull
             /\ Gaps(TRUE, Slots, cuts + 1)' /\ Gaps(TRUE, 1 .. BackupCount - 1, cuts)'
<1> DEFINE later == [last EXCEPT ![BackupCount + 1] = last[BackupCount]]
           b == BackupCount
<1>1. /\ b \in Nat /\ b >= 1 /\ Names = 0 .. b /\ 0 \in Names /\ b \in Names
      /\ 1 .. b \subseteq Names
  BY Sizes DEF Names
<1>2. named'[b] = NoFile /\ \A k \in Names \ {b} : named'[k] = named[k]
  BY <1>1 DEF DiskInv, Typed
<1>3. ASSUME NEW k \in Names, named'[k] # NoFile
      PROVE  content'[named'[k]] = content[named[k]] /\ named'[k] = named[k] /\ k # b
  <2>1. k # b /\ named'[k] = named[k]
    BY <1>2, <1>3
  <2>2. named'[k] \in InUse' /\ named'[k] \in Files
    BY <1>3, <2>1 DEF InUse, Linked, DiskInv, Typed
  <2>3. QED
    BY <2>1, <2>2, RetainStep DEF DiskInv
<1>4. Ends(later)' /\ later[b + 1] # 0
  <2>1. last \in [0 .. b + 1 -> Nat] /\ b + 1 \in 0 .. b + 1 /\ last[0] = written
    BY <1>1 DEF Ends
  <2>2. later \in [0 .. b + 1 -> Nat] /\ later[b + 1] = last[b]
        /\ \A k \in 0 .. b : later[k] = last[k]
    BY <1>1, <2>1
  <2>3. last[b] = last[b + 1] + Len(content[named[b]]) /\ Len(content[named[b]]) = MaxLines - 1
    BY <1>1 DEF Ends, Shelves
  <2>4. last[b] # 0
    BY <2>1, <2>3, Sizes
  <2> HIDE DEF later
  <2>5. ASSUME NEW k \in Names
        PROVE  /\ named'[k] = NoFile => later[k + 1] = later[k]
               /\ named'[k] # NoFile =>
                    /\ later[k] = later[k + 1] + Len(content'[named'[k]])
                    /\ \A i \in 1 .. Len(content'[named'[k]]) : content'[named'[k]][i] = later[k + 1] + i
    <3>1. CASE k = b
      BY <1>1, <1>2, <2>2, <3>1
    <3>2. CASE k # b
      <4>1. later[k] = last[k] /\ later[k + 1] = last[k + 1] /\ named'[k] = named[k]
        BY <1>1, <1>2, <2>2, <3>2
      <4>2. QED
        BY <1>3, <4>1 DEF Ends
    <3>3. QED
      BY <3>1, <3>2
  <2>6. later[0] = written'
    BY <1>1, <2>1, <2>2
  <2>7. Ends(later)'
    BY <2>2, <2>5, <2>6 DEF Ends, b
  <2>8. QED
    BY <2>2, <2>4, <2>7
<1>5. Shelves' /\ BaseFull' = BaseFull
  <2>1. named'[0] = named[0] /\ (named[0] # NoFile => content'[named'[0]] = content[named[0]])
    BY <1>1, <1>2, <1>3
  <2>2. \A j, k \in Names : named'[j] = named'[k] /\ named'[j] # NoFile => j = k
    BY <1>3 DEF Shelves
  <2>3. \A k \in 1 .. b : named'[k] # NoFile => Len(content'[named'[k]]) = MaxLines - 1
    BY <1>1, <1>3 DEF Shelves
  <2>4. QED
    BY <2>1, <2>2, <2>3 DEF Shelves, BaseFull
<1>6. ASSUME NEW t \in 1 .. b, Present(t, TRUE)'
      PROVE  t < b /\ Present(t, lost) /\ Missing(t)' = Missing(t) /\ t \in Slots
  <2>1. t # b /\ named[t] # NoFile
    BY <1>1, <1>2, <1>6 DEF Present
  <2>2. \A k \in 1 .. t - 1 : named'[k] = named[k]
    BY <1>1, <1>2
  <2>3. QED
    BY <1>1, <2>1, <2>2 DEF Present, Missing, Slots
<1>7. Cardinality(Missing(b + 1))' <= cuts + 1
  <2>1. Missing(b + 1)' = Missing(b) \cup {b}
    <3>1. 1 .. (b + 1) - 1 = (1 .. b - 1) \cup {b}
      BY <1>1
    <3>2. \A k \in 1 .. b - 1 : named'[k] = named[k]
      BY <1>1, <1>2
    <3>3. QED
      BY <1>2, <3>1, <3>2 DEF Missing
  <2>2. b \in Slots /\ Present(b, lost)
    BY <1>1 DEF Slots, Present
  <2>3. Cardinality(Missing(b)) <= cuts /\ IsFiniteSet(Missing(b))
        /\ Cardinality(Missing(b)) \in Nat
    BY <2>2, MissingSize DEF Gaps
  <2>4. Cardinality(Missing(b) \cup {b}) <= Cardinality(Missing(b)) + 1
    BY <2>3, FS_AddElement
  <2>5. Cardinality(Missing(b) \cup {b}) \in Nat
    BY <2>3, FS_AddElement, FS_CardinalityType
  <2>6. cuts \in Nat
    BY <1>1 DEF DiskInv, Typed
  <2>7. QED
    BY <2>1, <2>3, <2>4, <2>5, <2>6
<1>8. Gaps(TRUE, Slots, cuts + 1)' /\ Gaps(TRUE, 1 .. b - 1, cuts)'
  <2>1. \A t \in Slots : t \in 1 .. b \/ t = b + 1
    BY <1>1 DEF Slots
  <2>2. ASSUME NEW t \in 1 .. b, Present(t, TRUE)' PROVE Cardinality(Missing(t))' <= cuts
    BY <1>6, <2>2 DEF Gaps
  <2>3. ASSUME NEW t \in 1 .. b, Present(t, TRUE)' PROVE Cardinality(Missing(t))' <= cuts + 1
    <3>1. Cardinality(Missing(t))' <= cuts
      BY <2>2, <2>3
    <3>2. Cardinality(Missing(t))' \in Nat
      BY <1>6, <2>3, MissingSize
    <3>3. cuts \in Nat
      BY <1>1 DEF DiskInv, Typed
    <3>4. QED
      BY <3>1, <3>2, <3>3
  <2>4. Gaps(TRUE, Slots, cuts + 1)'
    BY <1>7, <2>1, <2>3 DEF Gaps, Slots
  <2>5. 1 .. b - 1 \subseteq 1 .. b
    BY <1>1
  <2>6. Gaps(TRUE, 1 .. b - 1, cuts)'
    BY <2>2, <2>5 DEF Gaps
  <2>7. QED
    BY <2>4, <2>6
<1>9. QED
  BY <1>4, <1>5, <1>8

\* Renaming fills the name s + 1 and leaves s without a file.
LEMMA MissingRenamed ==
  ASSUME DiskInv, NEW s \in 0 .. BackupCount - 1, named[s] # NoFile, named[s + 1] = NoFile,
         named' = [named EXCEPT ![s + 1] = named[s], ![s] = NoFile],
         NEW t \in Slots
  PROVE  /\ t <= s => Missing(t)' = Missing(t)
         /\ t = s + 1 => Cardinality(Missing(t))' <= Cardinality(Missing(IF s = 0 THEN 1 ELSE s)) + 1
         /\ t = 1 => Cardinality(Missing(t))' = 0
         /\ t > s + 1 => Cardinality(Missing(t))'
                           <= IF s = 0 THEN Cardinality(Missing(t)) - 1 ELSE Cardinality(Missing(t))
<1> DEFINE b == BackupCount
<1>1. /\ b \in Nat /\ b >= 1 /\ Names = 0 .. b /\ s \in Names /\ s + 1 \in Names
      /\ t \in 1 .. b + 1 /\ 1 .. t - 1 \subseteq Names /\ s \in 0 .. b - 1
      /\ 1 .. t - 1 \subseteq 1 .. b
  BY Sizes DEF Names, Slots
<1>2. /\ named'[s] = NoFile /\ named'[s + 1] # NoFile
      /\ \A k \in Names : k # s /\ k # s + 1 => named'[k] = named[k]
  BY <1>1 DEF DiskInv, Typed
<1> HIDE DEF b
<1>3. IsFiniteSet(Missing(t)) /\ Cardinality(Missing(t)) \in Nat
      /\ IsFiniteSet(Missing(t))' /\ Cardinality(Missing(t))' \in Nat
  <2>1. Missing(t)' \in SUBSET (1 .. b)
    BY <1>1 DEF Missing
  <2>2. IsFiniteSet(1 .. b)
    <3>1. 1 \in Int /\ b \in Int
      BY <1>1
    <3>2. QED
      BY <3>1, FS_Interval
  <2>3. IsFiniteSet(Missing(t))'
    BY <2>1, <2>2, FS_Subset
  <2>4. QED
    BY <2>3, MissingSize, FS_CardinalityType
<1>4. t <= s => Missing(t)' = Missing(t)
  <2> SUFFICES ASSUME t <= s PROVE Missing(t)' = Missing(t)
    OBVIOUS
  <2>1. \A k \in 1 .. t - 1 : k # s /\ k # s + 1 /\ k \in Names
    BY <1>1
  <2>2. \A k \in 1 .. t - 1 : named'[k] = named[k]
    BY <1>2, <2>1
  <2>3. QED
    BY <2>2 DEF Missing
<1>5. CASE t = s + 1 /\ s # 0
  <2>1. Missing(t)' = Missing(s) \cup {s} /\ s \in Slots
    <3>1. 1 .. t - 1 = (1 .. s - 1) \cup {s} /\ s \in Slots
      BY <1>1, <1>5 DEF Slots, b
    <3>2. \A k \in 1 .. s - 1 : k # s /\ k # s + 1 /\ k \in Names
      BY <1>1, <3>1
    <3>3. \A k \in 1 .. s - 1 : named'[k] = named[k]
      BY <1>2, <3>2
    <3>4. QED
      BY <1>2, <3>1, <3>3 DEF Missing
  <2>2. IsFiniteSet(Missing(s)) /\ Cardinality(Missing(s)) \in Nat
    BY <2>1, MissingSize
  <2>3. Cardinality(Missing(s) \cup {s}) <= Cardinality(Missing(s)) + 1
    BY <2>2, FS_AddElement
  <2>4. ~(t <= s) /\ ~(t > s + 1) /\ t # 1
    BY <1>1, <1>5
  <2>5. QED
    BY <1>5, <2>1, <2>3, <2>4
<1>6. CASE t = 1
  <2>1. Missing(t)' = {} /\ Missing(1) = {}
    BY <1>6 DEF Missing
  <2>2. Cardinality(Missing(t))' = 0 /\ Cardinality(Missing(1)) = 0
    BY <2>1, FS_EmptySet
  <2>3. ~(t > s + 1) /\ (t = s + 1 => s = 0)
    BY <1>1, <1>6
  <2>4. QED
    BY <1>4, <1>6, <2>2, <2>3
<1>7. CASE t > s + 1
  <2> DEFINE M == Missing(t) \ {s + 1}
  <2>1. s + 1 \in Missing(t) /\ s + 1 \in 1 .. t - 1
    BY <1>1, <1>7 DEF Missing
  <2>2. IsFiniteSet(M) /\ Cardinality(M) = Cardinality(Missing(t)) - 1
    BY <1>3, <2>1, FS_RemoveElement
  <2>3. CASE s = 0
    <3>1. Missing(t)' \subseteq M
      <4>1. \A k \in 1 .. t - 1 : k # s
        BY <2>3
      <4>2. QED
        BY <1>1, <1>2, <4>1 DEF Missing
    <3>2. Cardinality(Missing(t))' <= Cardinality(M)
      BY <2>2, <3>1, FS_Subset
    <3>3. Cardinality(Missing(t))' <= Cardinality(Missing(t)) - 1
      BY <2>2, <3>2
    <3>4. ~(t <= s) /\ t # s + 1 /\ t # 1
      BY <1>1, <1>7
    <3>5. QED
      BY <2>3, <3>3, <3>4
  <2>4. CASE s # 0
    <3>1. Missing(t)' \subseteq M \cup {s}
      BY <1>1, <1>2 DEF Missing
    <3>2. IsFiniteSet(M \cup {s}) /\ Cardinality(M \cup {s}) <= Cardinality(M) + 1
          /\ Cardinality(M \cup {s}) \in Nat
      <4>1. Cardinality(M) \in Nat
        BY <2>2, FS_CardinalityType
      <4> HIDE DEF M
      <4>2. IsFiniteSet(M \cup {s})
            /\ Cardinality(M \cup {s}) = IF s \in M THEN Cardinality(M) ELSE Cardinality(M) + 1
        BY <2>2, FS_AddElement
      <4>3. QED
        BY <4>1, <4>2
    <3>3. Cardinality(Missing(t))' <= Cardinality(M \cup {s})
      BY <3>1, <3>2, FS_Subset
    <3> HIDE DEF M
    <3>4. Cardinality(Missing(t))' <= Cardinality(Missing(t))
      BY <1>3, <2>2, <3>2, <3>3
    <3>5. ~(t <= s) /\ t # s + 1 /\ t # 1
      BY <1>1, <1>7
    <3>6. QED
      BY <2>4, <3>4, <3>5
  <2>5. QED
    BY <2>3, <2>4
<1>8. QED
  BY <1>1, <1>4, <1>5, <1>6, <1>7

\* A file that is renamed takes its events with it.
LEMMA ShelfRenamed ==
  ASSUME NEW last, Ends(last), Shelves, DiskInv, Retain, NEW s \in 0 .. BackupCount - 1,
         named[s] # NoFile, named[s + 1] = NoFile, s = 0 => BaseFull,
         named' = [named EXCEPT ![s + 1] = named[s], ![s] = NoFile], UNCHANGED written
  PROVE  LET later == [last EXCEPT ![s + 1] = last[s]]
         IN  /\ Ends(later)' /\ later[BackupCount + 1] = last[BackupCount + 1]
             /\ Shelves' /\ (s # 0 => BaseFull' = BaseFull)
             /\ named'[s] = NoFile /\ named'[s + 1] # NoFile
             /\ \A k \in Names : k # s /\ k # s + 1 => named'[k] = named[k]
<1> DEFINE later == [last EXCEPT ![s + 1] = last[s]]
           b == BackupCount
<1>1. /\ b \in Nat /\ b >= 1 /\ Names = 0 .. b /\ s \in Names /\ s + 1 \in Names
      /\ 0 \in Names /\ s + 1 # b + 1 /\ s + 1 \in 1 .. b /\ s \in Nat
  BY Sizes DEF Names
<1>2. /\ named'[s] = NoFile /\ named'[s + 1] = named[s]
      /\ \A k \in Names : k # s /\ k # s + 1 => named'[k] = named[k]
  BY <1>1 DEF DiskInv, Typed
<1>3. ASSUME NEW k \in Names, named'[k] # NoFile
      PROVE  content'[named'[k]] = content[named'[k]]
  <2>1. named'[k] \in InUse'
    BY <1>3 DEF InUse, Linked
  <2>2. named'[k] \in Files
    BY <1>1, <1>2, <1>3 DEF DiskInv, Typed
  <2>3. QED
    BY <2>1, <2>2, RetainStep DEF DiskInv
<1>4. /\ last \in [0 .. b + 1 -> Nat] /\ last[0] = written
      /\ last[s + 2] = last[s + 1]
      /\ last[s] = last[s + 1] + Len(content[named[s]])
      /\ \A i \in 1 .. Len(content[named[s]]) : content[named[s]][i] = last[s + 1] + i
  <2>1. (s + 1) + 1 = s + 2
    BY <1>1
  <2>2. QED
    BY <1>1, <2>1 DEF Ends
<1>5. /\ later \in [0 .. b + 1 -> Nat] /\ later[s + 1] = last[s]
      /\ \A k \in 0 .. b + 1 : k # s + 1 => later[k] = last[k]
  BY <1>1, <1>4
<1> HIDE DEF later, b
<1>6. ASSUME NEW k \in Names
      PROVE  /\ named'[k] = NoFile => later[k + 1] = later[k]
             /\ named'[k] # NoFile =>
                  /\ later[k] = later[k + 1] + Len(content'[named'[k]])
                  /\ \A i \in 1 .. Len(content'[named'[k]]) : content'[named'[k]][i] = later[k + 1] + i
  <2>1. CASE k = s
    <3>1. s # s + 1 /\ s \in 0 .. b + 1
      BY <1>1
    <3>2. later[k + 1] = later[k]
      BY <1>5, <2>1, <3>1
    <3>3. QED
      BY <1>2, <2>1, <3>2
  <2>2. CASE k = s + 1
    <3>1. later[k] = last[s] /\ later[k + 1] = last[s + 1]
      <4>1. (s + 1) + 1 = s + 2 /\ s + 2 # s + 1 /\ s + 2 \in 0 .. b + 1
        BY <1>1
      <4>2. QED
        BY <1>4, <1>5, <2>2, <4>1
    <3>2. named'[k] = named[s] /\ named'[k] # NoFile
      BY <1>2, <2>2
    <3>3. content'[named'[k]] = content[named[s]]
      BY <1>3, <3>2
    <3>4. QED
      BY <1>4, <3>1, <3>2, <3>3
  <2>3. CASE k # s /\ k # s + 1
    <3>1. later[k] = last[k] /\ later[k + 1] = last[k + 1]
      BY <1>1, <1>5, <2>3
    <3>2. named'[k] = named[k]
      BY <1>2, <2>3
    <3>3. named'[k] # NoFile => content'[named'[k]] = content[named[k]]
      BY <1>3, <3>2
    <3>4. QED
      BY <3>1, <3>2, <3>3 DEF Ends
  <2>4. QED
    BY <2>1, <2>2, <2>3
<1>7. Ends(later)' /\ later[b + 1] = last[b + 1]
  <2>1. 0 # s + 1 /\ b + 1 # s + 1 /\ 0 \in 0 .. b + 1 /\ b + 1 \in 0 .. b + 1
    BY <1>1
  <2>2. later[0] = written' /\ later[b + 1] = last[b + 1]
    BY <1>4, <1>5, <2>1
  <2>3. QED
    BY <1>5, <1>6, <2>2 DEF Ends, b
<1>8. Shelves'
  <2>1. Len(content[named[s]]) = MaxLines - 1
    <3>1. s # 0 => s \in 1 .. BackupCount
      BY <1>1 DEF b
    <3>2. QED
      BY <3>1 DEF Shelves, BaseFull
  <2>2. \A j, k \in Names : named'[j] = named'[k] /\ named'[j] # NoFile => j = k
    <3> SUFFICES ASSUME NEW j \in Names, NEW k \in Names, named'[j] = named'[k], named'[j] # NoFile
                 PROVE  j = k
      OBVIOUS
    <3>1. j # s /\ k # s
      BY <1>2
    <3>2. CASE j = s + 1 \/ k = s + 1
      BY <1>1, <1>2, <3>1, <3>2 DEF Shelves
    <3>3. CASE j # s + 1 /\ k # s + 1
      BY <1>2, <3>1, <3>3 DEF Shelves
    <3>4. QED
      BY <3>2, <3>3
  <2>3. ASSUME NEW k \in 1 .. b, named'[k] # NoFile
        PROVE  Len(content'[named'[k]]) = MaxLines - 1
    <3>1. k \in Names /\ k # s
      <4>1. k \in Names
        BY <1>1
      <4>2. k # s
        BY <1>2, <2>3
      <4>3. QED
        BY <4>1, <4>2
    <3>2. content'[named'[k]] = content[named'[k]]
      BY <1>3, <2>3, <3>1
    <3>3. CASE k = s + 1
      BY <1>2, <2>1, <3>2, <3>3
    <3>4. CASE k # s + 1
      BY <1>2, <2>3, <3>1, <3>2, <3>4 DEF Shelves, b
    <3>5. QED
      BY <3>3, <3>4
  <2>4. named'[0] # NoFile => Len(content'[named'[0]]) <= MaxLines - 1
    <3>1. 0 # s + 1
      BY <1>1
    <3>2. named'[0] # NoFile => named'[0] = named[0]
      BY <1>1, <1>2, <3>1
    <3>3. QED
      BY <1>1, <1>3, <3>2 DEF Shelves
  <2>5. QED
    BY <2>2, <2>3, <2>4 DEF Shelves, b
<1>9. s # 0 => BaseFull' = BaseFull
  <2>1. 0 # s + 1
    BY <1>1
  <2>2. s # 0 => named'[0] = named[0]
    BY <1>1, <1>2, <2>1
  <2>3. QED
    BY <1>1, <1>3, <2>2 DEF BaseFull
<1>10. QED
  BY <1>2, <1>7, <1>8, <1>9 DEF later, b

\* The gaps move with the files,
LEMMA GapsRenamed ==
  ASSUME DiskInv, NEW s \in 0 .. BackupCount - 1, named[s] # NoFile, named[s + 1] = NoFile,
         named' = [named EXCEPT ![s + 1] = named[s], ![s] = NoFile], UNCHANGED cuts,
         NEW lost, Gaps(lost, Slots, cuts + 1), Gaps(lost, 1 .. s, cuts)
  PROVE  /\ s # 0 => Gaps(lost, Slots, cuts + 1)' /\ Gaps(lost, 1 .. s - 1, cuts)'
         /\ s = 0 => Gaps(lost, Slots, cuts)'
<1> DEFINE b == BackupCount
<1>1. /\ b \in Nat /\ b >= 1 /\ Names = 0 .. b /\ s \in 0 .. b - 1 /\ Slots = 1 .. b + 1
      /\ cuts \in Nat
  BY Sizes DEF Names, Slots, DiskInv, Typed
<1>2. /\ named'[s] = NoFile
      /\ \A k \in Names : k # s /\ k # s + 1 => named'[k] = named[k]
  BY <1>1 DEF DiskInv, Typed
<1>3. ASSUME NEW t \in Slots, Present(t, lost)'
      PROVE  /\ t # s
             /\ t # s + 1 => Present(t, lost)
  <2>1. CASE t <= BackupCount
    <3>1. t \in Names /\ named'[t] # NoFile
      BY <1>1, <1>3, <2>1 DEF Present
    <3>2. t # s
      BY <1>2, <3>1
    <3>3. t # s + 1 => named'[t] = named[t]
      BY <1>2, <3>1, <3>2
    <3>4. QED
      BY <2>1, <3>1, <3>2, <3>3 DEF Present
  <2>2. CASE ~(t <= BackupCount)
    <3>1. t # s
      BY <1>1, <2>2
    <3>2. QED
      BY <1>3, <2>2, <3>1 DEF Present
  <2>3. QED
    BY <2>1, <2>2
<1>4. ASSUME NEW t \in Slots
      PROVE  Cardinality(Missing(t)) \in Nat /\ Cardinality(Missing(t))' \in Nat
  <2>1. IsFiniteSet(1 .. b)
    <3>1. 1 \in Int /\ b \in Int
      BY <1>1
    <3>2. QED
      BY <3>1, FS_Interval
  <2>2. Missing(t)' \in SUBSET (1 .. b)
    BY <1>1 DEF Missing
  <2>3. IsFiniteSet(Missing(t))'
    BY <2>1, <2>2, FS_Subset
  <2>4. QED
    BY <2>3, MissingSize, FS_CardinalityType
<1>5. ASSUME NEW t \in Slots, Present(t, lost)', s # 0
      PROVE  /\ Cardinality(Missing(t))' <= cuts + 1
             /\ t <= s - 1 => Cardinality(Missing(t))' <= cuts
  <2>1. t # s
    BY <1>3, <1>5
  <2>2. CASE t < s
    <3>1. t <= s /\ t \in 1 .. s /\ t # s + 1
      BY <1>1, <2>2
    <3>2. Present(t, lost) /\ Missing(t)' = Missing(t)
      BY <1>3, <1>5, <3>1, MissingRenamed
    <3>3. Cardinality(Missing(t))' <= cuts
      BY <3>1, <3>2 DEF Gaps
    <3>4. QED
      BY <1>1, <1>4, <3>3
  <2>3. CASE t = s + 1
    <3>1. s \in 1 .. s /\ s \in Slots /\ Present(s, lost)
      BY <1>1, <1>5 DEF Present
    <3>2. Cardinality(Missing(s)) <= cuts /\ Cardinality(Missing(s)) \in Nat
      BY <1>4, <3>1 DEF Gaps
    <3>3. Cardinality(Missing(t))' <= Cardinality(Missing(s)) + 1
      BY <1>5, <2>3, MissingRenamed
    <3>4. ~(t <= s - 1)
      BY <1>1, <2>3
    <3>5. QED
      BY <1>1, <1>4, <3>2, <3>3, <3>4
  <2>4. CASE t > s + 1
    <3>1. t # s + 1 /\ ~(t <= s - 1)
      BY <1>1, <2>4
    <3>2. Cardinality(Missing(t)) <= cuts + 1
      BY <1>3, <1>5, <3>1 DEF Gaps
    <3>3. Cardinality(Missing(t))' <= Cardinality(Missing(t))
      BY <1>5, <2>4, MissingRenamed
    <3>4. QED
      BY <1>1, <1>4, <3>1, <3>2, <3>3
  <2>5. QED
    BY <1>1, <2>1, <2>2, <2>3, <2>4
<1>6. ASSUME NEW t \in Slots, Present(t, lost)', s = 0
      PROVE  Cardinality(Missing(t))' <= cuts
  <2>1. CASE t = 1
    <3>1. Cardinality(Missing(t))' = 0
      BY <2>1, MissingRenamed
    <3>2. 0 <= cuts
      BY <1>1
    <3>3. QED
      BY <3>1, <3>2
  <2>2. CASE t # 1
    <3>1. t > s + 1 /\ t # s + 1
      BY <1>1, <1>6, <2>2
    <3>2. Cardinality(Missing(t)) <= cuts + 1
      BY <1>3, <1>6, <3>1 DEF Gaps
    <3>3. Cardinality(Missing(t))' <= Cardinality(Missing(t)) - 1
      BY <1>6, <3>1, MissingRenamed
    <3>4. QED
      BY <1>1, <1>4, <3>2, <3>3
  <2>3. QED
    BY <2>1, <2>2
<1>7. s # 0 => 1 .. s - 1 \subseteq Slots /\ \A t \in 1 .. s - 1 : t <= s - 1
  BY <1>1
<1>8. Slots' = Slots
  BY DEF Slots
<1>9. QED
  BY <1>5, <1>6, <1>7, <1>8 DEF Gaps
\* A line appended to the base is the latest event.
LEMMA ShelfWritten ==
  ASSUME NEW last, Ends(last), Shelves, DiskInv, named[0] # NoFile,
         Len(content[named[0]]) <= MaxLines - 2,
         content' = [content EXCEPT ![named[0]] = Append(@, written + 1)],
         written' = written + 1, UNCHANGED named,
         NEW later, later = [last EXCEPT ![0] = written + 1]
  PROVE  Ends(later)' /\ later[BackupCount + 1] = last[BackupCount + 1] /\ Shelves'
<1> DEFINE b == BackupCount
<1>1. /\ b \in Nat /\ b >= 1 /\ Names = 0 .. b /\ 0 \in Names /\ 1 .. b \subseteq Names
      /\ MaxLines \in Nat /\ written \in Nat
      /\ named[0] \in Files /\ content[named[0]] \in Seq(Nat)
      /\ content \in [Files -> Seq(Nat)]
  BY Sizes DEF Names, DiskInv, Typed
<1>2. \A k \in Names \ {0} : named[k] # NoFile => named[k] \in Files /\ named[k] # named[0]
  BY <1>1 DEF Shelves, DiskInv, Typed
<1>3. \A k \in Names \ {0} : named[k] # NoFile => content'[named[k]] = content[named[k]]
  BY <1>1, <1>2
<1>4. /\ content'[named[0]] = Append(content[named[0]], written + 1)
      /\ Len(content'[named[0]]) = Len(content[named[0]]) + 1
      /\ Len(content[named[0]]) \in Nat
      /\ \A i \in 1 .. Len(content[named[0]]) : content'[named[0]][i] = content[named[0]][i]
      /\ content'[named[0]][Len(content[named[0]]) + 1] = written + 1
  BY <1>1
<1>5. /\ last \in [0 .. b + 1 -> Nat] /\ last[0] = written /\ last[1] \in Nat
      /\ last[0] = last[1] + Len(content[named[0]])
      /\ \A i \in 1 .. Len(content[named[0]]) : content[named[0]][i] = last[1] + i
  BY <1>1 DEF Ends
<1>6. /\ later \in [0 .. b + 1 -> Nat] /\ later[0] = written'
      /\ \A k \in 0 .. b + 1 : k # 0 => later[k] = last[k]
  BY <1>1, <1>5
<1> HIDE DEF b
<1>7. ASSUME NEW k \in Names
      PROVE  /\ named[k] = NoFile => later[k + 1] = later[k]
             /\ named[k] # NoFile =>
                  /\ later[k] = later[k + 1] + Len(content'[named[k]])
                  /\ \A i \in 1 .. Len(content'[named[k]]) : content'[named[k]][i] = later[k + 1] + i
  <2>1. CASE k = 0
    <3>1. later[0] = last[1] + Len(content[named[0]]) + 1 /\ later[1] = last[1]
      <4>1. 1 \in 0 .. b + 1 /\ 1 # 0
        BY <1>1
      <4>2. later[1] = last[1]
        BY <1>6, <4>1
      <4>3. later[0] = last[0] + 1
        BY <1>5, <1>6
      <4>4. QED
        BY <1>1, <1>4, <1>5, <4>2, <4>3
    <3>2. later[0] = later[1] + Len(content'[named[0]])
      BY <1>4, <1>5, <3>1
    <3>3. ASSUME NEW i \in 1 .. Len(content'[named[0]])
          PROVE  content'[named[0]][i] = later[1] + i
      <4>1. CASE i = Len(content[named[0]]) + 1
        <5>1. content'[named[0]][i] = written + 1
          BY <1>4, <4>1
        <5>2. later[1] + i = last[0] + 1
          <6> DEFINE n == Len(content[named[0]])
          <6>1. i = n + 1 /\ n \in Nat /\ later[1] = last[1] /\ last[0] = last[1] + n
            BY <1>4, <1>5, <3>1, <4>1
          <6> HIDE DEF n
          <6>2. QED
            BY <1>5, <6>1
        <5>3. QED
          BY <1>5, <5>1, <5>2
      <4>2. CASE i # Len(content[named[0]]) + 1
        <5>1. i \in 1 .. Len(content[named[0]])
          BY <1>4, <4>2
        <5>2. QED
          BY <1>4, <1>5, <3>1, <5>1
      <4>3. QED
        BY <4>1, <4>2
    <3>4. QED
      BY <2>1, <3>2, <3>3
  <2>2. CASE k # 0
    <3>1. k \in 0 .. b + 1 /\ k + 1 \in 0 .. b + 1 /\ k + 1 # 0 /\ k \in Names \ {0}
      BY <1>1, <2>2
    <3>2. later[k] = last[k] /\ later[k + 1] = last[k + 1]
      BY <1>6, <2>2, <3>1
    <3>3. QED
      BY <1>3, <3>1, <3>2 DEF Ends
  <2>3. QED
    BY <2>1, <2>2
<1>8. Ends(later)' /\ later[b + 1] = last[b + 1]
  <2>1. later[b + 1] = last[b + 1]
    BY <1>1, <1>6
  <2>2. QED
    <3>1. \A k \in Names :
            /\ named'[k] = NoFile => later[k + 1] = later[k]
            /\ named'[k] # NoFile =>
                 /\ later[k] = later[k + 1] + Len(content'[named'[k]])
                 /\ \A i \in 1 .. Len(content'[named'[k]]) : content'[named'[k]][i] = later[k + 1] + i
      <4>1. named' = named
        OBVIOUS
      <4>2. QED
        BY <1>7, <4>1
    <3>2. later \in [0 .. BackupCount + 1 -> Nat] /\ later[0] = written'
      BY <1>6 DEF b
    <3>3. Ends(later)'
      BY <3>1, <3>2 DEF Ends
    <3>4. QED
      BY <2>1, <3>3
<1>9. Shelves'
  <2>1. \A k \in 1 .. b : named[k] # NoFile => Len(content'[named[k]]) = MaxLines - 1
    <3>1. \A k \in 1 .. b : k \in Names \ {0}
      BY <1>1
    <3>2. QED
      BY <1>3, <3>1 DEF Shelves, b
  <2>2. Len(content'[named[0]]) <= MaxLines - 1
    BY <1>1, <1>4
  <2>3. QED
    BY <2>1, <2>2 DEF Shelves, b
<1>10. QED
  BY <1>8, <1>9 DEF b

(***************************************************************************)
(* The inductive invariant of a lone writer                                *)
(***************************************************************************)
Lone == \A u, v \in writers : u = v

\* In the middle of a rotation the base is full, and the name above the one
\* to move has no file, unless it is the oldest backup that is to go.
Rotated(w, lost) ==
  /\ BaseFull
  /\ Gaps(lost, Slots, cuts + 1) /\ Gaps(lost, 1 .. source[w], cuts)
  /\ \/ named[source[w] + 1] = NoFile
     \/ source[w] = BackupCount - 1 /\ Gaps(lost, Slots, cuts)
  /\ pc[w] # "find_source" => named[source[w]] # NoFile
  /\ pc[w] = "remove" => named[source[w] + 1] # NoFile
  /\ pc[w] = "rename" \/ (pc[w] = "find_source" /\ source[w] = 0) => named[source[w] + 1] = NoFile
  /\ source[w] < BackupCount - 1 /\ lost => named[BackupCount] # NoFile

Place(w, lost) ==
  /\ pc[w] = "write" => named[0] # NoFile /\ Len(content[named[0]]) <= MaxLines - 2
  /\ pc[w] = "open" => named[0] = NoFile \/ content[named[0]] = <<>>
  /\ pc[w] \notin Rotating => Gaps(lost, Slots, cuts)
  /\ pc[w] \in Rotating => Rotated(w, lost)

\* Only the writer is beyond the start of an event, and it writes to the base.
Onlookers ==
  /\ \A v \in Workers \ writers : pc[v] \in {"down", "idle"}
  /\ \A v \in Workers : stream[v] # NoFile /\ (v \in writers \/ writers = {}) => stream[v] = named[0]

\* Two full files at least are left of a rotation, if there are two backups.
Newest(lost) ==
  /\ BaseFull \/ named[1] # NoFile \/ \A t \in Slots : ~ Present(t, lost)
  /\ lost => named[BackupCount] # NoFile \/ (BaseFull /\ named[BackupCount - 1] # NoFile)
  /\ writers = {} => ~ lost /\ \A k \in 1 .. BackupCount : named[k] = NoFile

ShelfTail(last, lost) ==
  /\ Ends(last) /\ Shelves
  /\ lost \in BOOLEAN /\ (lost <=> last[BackupCount + 1] # 0)
  /\ \A w \in writers : Place(w, lost)
  /\ Onlookers /\ Newest(lost)

LoneInv == Lone => \E last, lost : ShelfTail(last, lost)

\* What opening a file, looking for one or a kill leaves alone
SameShelf ==
  /\ BaseFull' = BaseFull
  /\ \A k \in 1 .. BackupCount : named'[k] = named[k]
  /\ named[0] # NoFile => named'[0] = named[0] /\ content'[named'[0]] = content[named[0]]
  /\ named[0] = NoFile => named'[0] = NoFile \/ content'[named'[0]] = <<>>

\* If the shelf is the same, so are the gaps between the backups,
LEMMA SameGaps ==
  ASSUME SameShelf, NEW t \in Slots, NEW lost
  PROVE  Missing(t)' = Missing(t) /\ Present(t, lost)' = Present(t, lost)
<1>1. 1 .. t - 1 \subseteq 1 .. BackupCount /\ (t <= BackupCount => t \in 1 .. BackupCount)
  BY Sizes DEF Slots
<1>2. QED
  BY <1>1 DEF SameShelf, Missing, Present

\* and so are the latest full files.
LEMMA NewestKept ==
  ASSUME SameShelf, NEW lost, Newest(lost), writers' = writers \/ writers' # {}
  PROVE  Newest(lost)'
<1>1. BackupCount \in 1 .. BackupCount /\ 1 \in 1 .. BackupCount
      /\ (BackupCount - 1 = 0 \/ BackupCount - 1 \in 1 .. BackupCount)
  BY Sizes
<1>2. \A t \in Slots : Present(t, lost)' = Present(t, lost)
  BY SameGaps
<1>3. BaseFull /\ named[BackupCount - 1] # NoFile => BaseFull' /\ named'[BackupCount - 1] # NoFile
  BY <1>1 DEF SameShelf, BaseFull
<1>4. Slots' = Slots
  BY DEF Slots
<1>5. QED
  BY <1>1, <1>2, <1>3, <1>4 DEF Newest, SameShelf
\* A step that neither renames nor changes a named file, nor logs an event
LEMMA StillShelf ==
  ASSUME DiskInv, NEW last, Ends(last), Shelves, UNCHANGED <<named, written>>,
         Retain \/ UNCHANGED content
  PROVE  Ends(last)' /\ Shelves' /\ SameShelf
<1>1. 0 \in Names /\ 1 .. BackupCount \subseteq Names
  BY Sizes DEF Names
<1>2. ASSUME NEW k \in Names, named[k] # NoFile PROVE content'[named[k]] = content[named[k]]
  <2>1. named[k] \in Files
    BY <1>2 DEF DiskInv, Typed
  <2>2. named[k] \in InUse'
    BY <1>2 DEF InUse, Linked
  <2>3. QED
    BY <2>1, <2>2, RetainStep DEF DiskInv
<1>3. QED
  BY <1>1, <1>2, ShelfKept DEF SameShelf

\* What a rotation has reached depends on the shelf alone.
LEMMA RotatedKept ==
  ASSUME DiskInv, SameShelf, NEW w \in Workers, NEW lost, Rotated(w, lost),
         UNCHANGED cuts, pc'[w] = pc[w], source'[w] = source[w]
  PROVE  Rotated(w, lost)'
<1>1. /\ source[w] \in 0 .. BackupCount - 1 /\ source[w] + 1 \in 1 .. BackupCount
      /\ BackupCount \in 1 .. BackupCount /\ 1 .. source[w] \subseteq Slots
      /\ (source[w] = 0 \/ source[w] \in 1 .. BackupCount)
  BY Sizes DEF DiskInv, Typed, Slots
<1>2. \A t \in Slots : Missing(t)' = Missing(t) /\ Present(t, lost)' = Present(t, lost)
  BY SameGaps
<1>3. /\ named'[source[w] + 1] = named[source[w] + 1] /\ named'[BackupCount] = named[BackupCount]
      /\ named'[source[w]] = named[source[w]] /\ BaseFull'
  BY <1>1 DEF SameShelf, Rotated, BaseFull
<1>4. Gaps(lost, Slots, cuts + 1)' /\ (Gaps(lost, Slots, cuts) => Gaps(lost, Slots, cuts)')
  BY <1>2 DEF Gaps, Rotated, Slots
<1>5. Gaps(lost, 1 .. source[w], cuts)'
  BY <1>1, <1>2 DEF Gaps, Rotated
<1>6. QED
  BY <1>3, <1>4, <1>5 DEF Rotated

\* and so does the place of whoever does not step.
LEMMA PlaceKept ==
  ASSUME DiskInv, SameShelf, NEW w \in Workers, NEW lost, Place(w, lost),
         UNCHANGED cuts, pc'[w] = pc[w], source'[w] = source[w]
  PROVE  Place(w, lost)'
<1>1. \A t \in Slots : Missing(t)' = Missing(t) /\ Present(t, lost)' = Present(t, lost)
  BY SameGaps
<1>2. Gaps(lost, Slots, cuts) => Gaps(lost, Slots, cuts)'
  BY <1>1 DEF Gaps, Slots
<1>3. Rotated(w, lost) => Rotated(w, lost)'
  BY RotatedKept
<1>4. pc'[w] = "write" => named'[0] # NoFile /\ Len(content'[named'[0]]) <= MaxLines - 2
  BY DEF Place, SameShelf
<1>5. pc'[w] = "open" => named'[0] = NoFile \/ content'[named'[0]] = <<>>
  BY DEF Place, SameShelf
<1>6. QED
  BY <1>2, <1>3, <1>4, <1>5 DEF Place, Rotating

\* A step of the writer that leaves the shelf alone
LEMMA WriterStep ==
  ASSUME NEW last, NEW lost, ShelfTail(last, lost), Lone, SameShelf, Ends(last)', Shelves',
         NEW w \in writers, UNCHANGED writers, Place(w, lost)',
         \A v \in Workers \ {w} : pc'[v] = pc[v] /\ stream'[v] = stream[v],
         stream'[w] # NoFile => stream'[w] = named'[0]
  PROVE  ShelfTail(last, lost)'
<1>1. \A v \in writers : v = w
  BY DEF Lone
<1>2. \A v \in writers' : Place(v, lost)'
  BY <1>1
<1>3. \A v \in Workers \ writers' : pc'[v] \in {"down", "idle"}
  BY DEF ShelfTail, Onlookers
<1>4. \A v \in Workers : stream'[v] # NoFile /\ (v \in writers' \/ writers' = {}) => stream'[v] = named'[0]
  BY <1>1
<1>5. Onlookers'
  BY <1>3, <1>4 DEF Onlookers
<1>6. Newest(lost)'
  BY NewestKept DEF ShelfTail
<1>7. QED
  BY <1>2, <1>5, <1>6 DEF ShelfTail

\* Whoever is beyond the start of an event is the writer.
LEMMA WriterIs ==
  ASSUME DiskInv, NEW last, NEW lost, ShelfTail(last, lost), NEW w \in Workers,
         pc[w] \notin {"down", "idle"}
  PROVE  /\ w \in writers /\ Place(w, lost)
         /\ stream[w] # NoFile => stream[w] = named[0]
BY DEF ShelfTail, Onlookers

\* The rotation starts with the base full, and goes for the oldest backup.
LEMMA ShouldRolloverTail ==
  ASSUME DiskInv, NEW last, NEW lost, ShelfTail(last, lost), Lone, NEW w \in Workers, ShouldRollover(w)
  PROVE  ShelfTail(last, lost)'
<1>1. /\ w \in writers /\ Place(w, lost) /\ pc[w] = "should_rollover"
      /\ stream[w] # NoFile /\ stream[w] = named[0] /\ named[0] \in Files
      /\ Len(content[named[0]]) \in Nat /\ Len(content[named[0]]) <= MaxLines - 1
  <2>1. pc[w] = "should_rollover"
    BY DEF ShouldRollover
  <2>2. stream[w] # NoFile /\ stream[w] \in Files
    BY <2>1 DEF DiskInv, Streaming, Looking, Typed
  <2>3. w \in writers /\ Place(w, lost) /\ stream[w] = named[0]
    BY <2>1, <2>2, WriterIs
  <2>4. Len(content[named[0]]) \in Nat /\ Len(content[named[0]]) <= MaxLines - 1
    BY <2>2, <2>3 DEF DiskInv, Typed, ShelfTail, Shelves
  <2>5. QED
    BY <2>1, <2>2, <2>3, <2>4
<1>2. Ends(last)' /\ Shelves' /\ SameShelf /\ UNCHANGED <<writers, cuts, named>>
  BY StillShelf DEF ShouldRollover, ShelfTail
<1>3. \A t \in Slots : Missing(t)' = Missing(t) /\ Present(t, lost)' = Present(t, lost)
  BY <1>2, SameGaps
<1>4. Gaps(lost, Slots, cuts) /\ Gaps(lost, Slots, cuts)'
  <2>1. Gaps(lost, Slots, cuts)
    BY <1>1 DEF Place, Rotating
  <2>2. QED
    BY <1>2, <1>3, <2>1 DEF Gaps, Slots
<1>5. CASE Len(content[stream[w]]) + 1 >= MaxLines
  <2>1. /\ stream' = [stream EXCEPT ![w] = NoFile]
        /\ source' = [source EXCEPT ![w] = BackupCount - 1]
        /\ pc' = [pc EXCEPT ![w] = IF BackupCount - 1 = 0 THEN "find_target" ELSE "find_source"]
    BY <1>5 DEF ShouldRollover, From, Go
  <2>2. /\ source'[w] = BackupCount - 1 /\ stream'[w] = NoFile
        /\ pc'[w] = IF BackupCount - 1 = 0 THEN "find_target" ELSE "find_source"
        /\ \A v \in Workers \ {w} : pc'[v] = pc[v] /\ stream'[v] = stream[v]
    BY <2>1 DEF DiskInv, Typed
  <2>3. BaseFull'
    <3>1. BaseFull
      BY <1>1, <1>5, Sizes DEF BaseFull
    <3>2. QED
      BY <1>2, <3>1 DEF SameShelf
  <2>4. Rotated(w, lost)'
    <3>1. Gaps(lost, Slots, cuts + 1)'
      <4>1. \A t \in Slots : Cardinality(Missing(t)') \in Nat
        BY <1>3, MissingSize
      <4>2. cuts' \in Nat
        BY <1>2 DEF DiskInv, Typed
      <4>3. QED
        BY <1>4, <4>1, <4>2 DEF Gaps, Slots
    <3>2. Gaps(lost, 1 .. source[w], cuts)'
      <4>1. 1 .. source'[w] \subseteq Slots
        BY <2>2, Sizes DEF Slots
      <4>2. QED
        BY <1>4, <4>1 DEF Gaps, Slots
    <3>3. pc'[w] = "find_target" => named'[source'[w]] # NoFile
      BY <1>1, <1>2, <2>2, Sizes
    <3>4. pc'[w] \in {"find_target", "find_source"} /\ (pc'[w] = "find_source" => source'[w] # 0)
      BY <2>2, Sizes
    <3>5. ~ (source'[w] < BackupCount - 1)
      BY <2>2, Sizes
    <3>6. QED
      BY <1>4, <2>2, <2>3, <3>1, <3>2, <3>3, <3>4, <3>5 DEF Rotated
  <2>5. Place(w, lost)'
    BY <2>2, <2>4 DEF Place, Rotating
  <2>6. QED
    BY <1>1, <1>2, <2>2, <2>5, WriterStep
<1>6. CASE ~ (Len(content[stream[w]]) + 1 >= MaxLines)
  <2>1. pc' = [pc EXCEPT ![w] = "write"] /\ stream' = stream
    BY <1>6 DEF ShouldRollover, Go
  <2>2. pc'[w] = "write" /\ \A v \in Workers \ {w} : pc'[v] = pc[v] /\ stream'[v] = stream[v]
    BY <2>1 DEF DiskInv, Typed
  <2>3. named'[0] # NoFile /\ Len(content'[named'[0]]) <= MaxLines - 2
    <3>1. Len(content[named[0]]) <= MaxLines - 2
      BY <1>1, <1>6, Sizes
    <3>2. QED
      BY <1>1, <1>2, <3>1 DEF SameShelf
  <2>4. Place(w, lost)'
    BY <1>4, <2>2, <2>3 DEF Place, Rotating
  <2>5. QED
    BY <1>1, <1>2, <2>1, <2>2, <2>4, WriterStep
<1>7. QED
  BY <1>5, <1>6
\* What the writer finds in the middle of a rotation
LEMMA WriterRotates ==
  ASSUME DiskInv, NEW last, NEW lost, ShelfTail(last, lost), NEW w \in Workers, pc[w] \in Rotating
  PROVE  /\ w \in writers /\ Rotated(w, lost) /\ stream[w] = NoFile
         /\ source[w] \in 0 .. BackupCount - 1
BY WriterIs DEF DiskInv, Typed, Streaming, Rotating, Place

\* It looks for a name without a file without changing anything.
LEMMA LookTail ==
  ASSUME DiskInv, NEW last, NEW lost, ShelfTail(last, lost), Lone, NEW w \in Workers,
         pc[w] \in Rotating, pc'[w] \in Rotating, Rotated(w, lost)',
         UNCHANGED <<named, content, stream, written, writers, cuts>>,
         \A v \in Workers \ {w} : pc'[v] = pc[v]
  PROVE  ShelfTail(last, lost)'
<1>1. w \in writers /\ stream[w] = NoFile
  BY WriterRotates
<1>2. Ends(last)' /\ Shelves' /\ SameShelf
  BY StillShelf DEF ShelfTail
<1>3. Place(w, lost)'
  BY DEF Place, Rotating
<1>4. QED
  BY <1>1, <1>2, <1>3, WriterStep

\* A name without a file is passed over: the one above it stays free.
LEMMA FindSourceTail ==
  ASSUME DiskInv, NEW last, NEW lost, ShelfTail(last, lost), Lone, NEW w \in Workers, FindSource(w)
  PROVE  ShelfTail(last, lost)'
<1>1. pc[w] = "find_source" /\ pc[w] \in Rotating
  BY DEF FindSource, Rotating
<1>2. w \in writers /\ Rotated(w, lost) /\ source[w] \in 0 .. BackupCount - 1
  BY <1>1, WriterRotates
<1>3. UNCHANGED <<named, content, stream, written, writers, cuts>>
  BY DEF FindSource
<1>4. named[0] # NoFile /\ BaseFull
  BY <1>2 DEF Rotated, BaseFull
<1>5. CASE named[source[w]] # NoFile
  <2>1. /\ pc' = [pc EXCEPT ![w] = IF source[w] = 0 THEN "rename" ELSE "find_target"]
        /\ source' = source
    BY <1>5 DEF FindSource, Go
  <2>2. /\ pc'[w] = IF source[w] = 0 THEN "rename" ELSE "find_target"
        /\ pc'[w] \in Rotating /\ \A v \in Workers \ {w} : pc'[v] = pc[v]
    BY <2>1 DEF DiskInv, Typed, Rotating
  <2>3. pc'[w] = "rename" => named[source[w] + 1] = NoFile
    BY <1>1, <1>2, <2>2 DEF Rotated
  <2>4. Rotated(w, lost)'
    <3>1. BaseFull' /\ Gaps(lost, Slots, cuts + 1)' /\ Gaps(lost, 1 .. source[w], cuts)'
          /\ (named[source[w] + 1] = NoFile \/ (source[w] = BackupCount - 1 /\ Gaps(lost, Slots, cuts)))'
          /\ (source[w] < BackupCount - 1 /\ lost => named[BackupCount] # NoFile)'
      BY <1>2, <1>3, <2>1 DEF Rotated, BaseFull, Gaps, Missing, Present
    <3>2. named'[source'[w]] # NoFile
      BY <1>3, <1>5, <2>1
    <3>3. pc'[w] = "rename" => named'[source'[w] + 1] = NoFile
      BY <1>3, <2>1, <2>3
    <3>4. pc'[w] # "remove" /\ pc'[w] # "find_source"
      BY <2>2
    <3>5. QED
      BY <3>1, <3>2, <3>3, <3>4 DEF Rotated
  <2>5. QED
    BY <1>1, <1>3, <2>2, <2>4, LookTail
<1>6. CASE named[source[w]] = NoFile
  <2>1. source[w] # 0
    BY <1>4, <1>6
  <2>2. /\ pc' = [pc EXCEPT ![w] = IF source[w] - 1 = 0 THEN "find_target" ELSE "find_source"]
        /\ source' = [source EXCEPT ![w] = source[w] - 1]
    BY <1>6, <2>1 DEF FindSource, From, Go
  <2>3. /\ pc'[w] = IF source[w] - 1 = 0 THEN "find_target" ELSE "find_source"
        /\ source'[w] = source[w] - 1
        /\ pc'[w] \in Rotating /\ \A v \in Workers \ {w} : pc'[v] = pc[v]
    BY <2>2 DEF DiskInv, Typed, Rotating
  <2>4. Rotated(w, lost)'
    <3>1. BaseFull' /\ Gaps(lost, Slots, cuts + 1)'
      BY <1>2, <1>3 DEF Rotated, BaseFull, Gaps, Missing, Present
    <3>2. Gaps(lost, 1 .. source[w], cuts)'
      <4>1. 1 .. source'[w] \subseteq 1 .. source[w]
        BY <1>2, <2>3, Sizes
      <4>2. QED
        BY <1>2, <1>3, <4>1 DEF Rotated, Gaps, Missing, Present
    <3>3. named'[source'[w] + 1] = NoFile
      <4>1. source'[w] + 1 = source[w]
        BY <1>2, <2>3, Sizes
      <4>2. QED
        BY <1>3, <1>6, <4>1
    <3>4. pc'[w] # "find_source" => named'[source'[w]] # NoFile
      BY <1>3, <1>4, <2>3
    <3>5. pc'[w] # "remove"
      BY <2>3
    <3>6. lost => named'[BackupCount] # NoFile
      <4>1. CASE source[w] = BackupCount - 1
        BY <1>3, <1>6, <4>1 DEF ShelfTail, Newest
      <4>2. CASE source[w] # BackupCount - 1
        <5>1. source[w] < BackupCount - 1
          BY <1>2, <4>2, Sizes
        <5>2. QED
          BY <1>2, <1>3, <5>1 DEF Rotated
      <4>3. QED
        BY <4>1, <4>2
    <3>7. QED
      BY <3>1, <3>2, <3>3, <3>4, <3>5, <3>6 DEF Rotated
  <2>5. QED
    BY <1>1, <1>3, <2>3, <2>4, LookTail
<1>7. QED
  BY <1>5, <1>6

\* The name above the one to move is free, or is the oldest backup's.
LEMMA FindTargetTail ==
  ASSUME DiskInv, NEW last, NEW lost, ShelfTail(last, lost), Lone, NEW w \in Workers, FindTarget(w)
  PROVE  ShelfTail(last, lost)'
<1>1. pc[w] = "find_target" /\ pc[w] \in Rotating
  BY DEF FindTarget, Rotating
<1>2. w \in writers /\ Rotated(w, lost) /\ source[w] \in 0 .. BackupCount - 1
  BY <1>1, WriterRotates
<1>3. UNCHANGED <<named, content, stream, source, written, writers, cuts>>
  BY DEF FindTarget
<1>4. pc' = [pc EXCEPT ![w] = IF named[source[w] + 1] # NoFile THEN "remove"
                              ELSE IF source[w] = 0 THEN "find_source" ELSE "rename"]
  BY DEF FindTarget, TargetCleared, Go
<1>5. /\ pc'[w] = IF named[source[w] + 1] # NoFile THEN "remove"
                  ELSE IF source[w] = 0 THEN "find_source" ELSE "rename"
      /\ \A v \in Workers \ {w} : pc'[v] = pc[v]
  BY <1>4 DEF DiskInv, Typed
<1>6. pc'[w] \in Rotating
  BY <1>5 DEF Rotating
<1>7. named[source[w]] # NoFile
  BY <1>1, <1>2 DEF Rotated
<1>8. Rotated(w, lost)'
  <2>1. BaseFull' /\ Gaps(lost, Slots, cuts + 1)' /\ Gaps(lost, 1 .. source[w], cuts)'
        /\ (named[source[w] + 1] = NoFile \/ (source[w] = BackupCount - 1 /\ Gaps(lost, Slots, cuts)))'
        /\ (source[w] < BackupCount - 1 /\ lost => named[BackupCount] # NoFile)'
    BY <1>2, <1>3 DEF Rotated, BaseFull, Gaps, Missing, Present
  <2>2. named'[source'[w]] # NoFile
    BY <1>3, <1>7
  <2>3. /\ pc'[w] = "remove" => named'[source'[w] + 1] # NoFile
        /\ pc'[w] = "rename" \/ pc'[w] = "find_source" => named'[source'[w] + 1] = NoFile
    BY <1>3, <1>5
  <2>4. QED
    BY <2>1, <2>2, <2>3 DEF Rotated
<1>9. QED
  BY <1>1, <1>3, <1>5, <1>6, <1>8, LookTail

\* The oldest backup is removed: from now on events have been lost.
LEMMA RemoveTargetTail ==
  ASSUME DiskInv, NEW last, NEW lost, ShelfTail(last, lost), Lone, NEW w \in Workers, RemoveTarget(w)
  PROVE  \E later : ShelfTail(later, TRUE)'
<1> DEFINE later == [last EXCEPT ![BackupCount + 1] = last[BackupCount]]
<1>1. pc[w] = "remove" /\ pc[w] \in Rotating
  BY DEF RemoveTarget, Rotating
<1>2. /\ w \in writers /\ Rotated(w, lost) /\ source[w] \in 0 .. BackupCount - 1
      /\ stream[w] = NoFile
  BY <1>1, WriterRotates
<1>3. /\ named[source[w] + 1] # NoFile /\ source[w] = BackupCount - 1
      /\ Gaps(lost, Slots, cuts) /\ named[source[w]] # NoFile /\ BaseFull
  BY <1>1, <1>2 DEF Rotated
<1>4. source[w] + 1 = BackupCount /\ BackupCount \in Nat /\ BackupCount >= 1
  BY <1>3, Sizes
<1>5. /\ named[BackupCount] # NoFile
      /\ named' = [named EXCEPT ![BackupCount] = NoFile] /\ Retain
      /\ UNCHANGED <<stream, source, written, writers, cuts>>
      /\ pc' = [pc EXCEPT ![w] = IF source[w] = 0 THEN "find_source" ELSE "rename"]
  BY <1>3, <1>4 DEF RemoveTarget, TargetCleared, Go
<1>6. /\ Ends(later)' /\ later[BackupCount + 1] # 0 /\ Shelves' /\ BaseFull' = BaseFull
      /\ Gaps(TRUE, Slots, cuts + 1)' /\ Gaps(TRUE, 1 .. BackupCount - 1, cuts)'
  BY <1>3, <1>5, ShelfRemoved DEF ShelfTail
<1>7. /\ named'[BackupCount] = NoFile
      /\ \A k \in 0 .. BackupCount - 1 : named'[k] = named[k]
  BY <1>4, <1>5 DEF DiskInv, Typed, Names
<1>8. /\ pc'[w] = IF source[w] = 0 THEN "find_source" ELSE "rename"
      /\ \A v \in Workers \ {w} : pc'[v] = pc[v]
  BY <1>5 DEF DiskInv, Typed
<1>9. Rotated(w, TRUE)'
  <2>1. source'[w] = BackupCount - 1 /\ source'[w] + 1 = BackupCount
    BY <1>3, <1>4, <1>5
  <2>2. named'[source'[w]] # NoFile /\ named'[source'[w] + 1] = NoFile
    BY <1>2, <1>3, <1>7, <2>1
  <2>3. Gaps(TRUE, 1 .. source[w], cuts)'
    BY <1>6, <2>1 DEF Gaps
  <2>4. pc'[w] # "remove" /\ ~ (source'[w] < BackupCount - 1)
    BY <1>8, <2>1, Sizes
  <2>5. QED
    BY <1>3, <1>6, <2>2, <2>3, <2>4 DEF Rotated
<1>10. \A v \in writers' : Place(v, TRUE)'
  <2>1. Place(w, TRUE)'
    BY <1>8, <1>9 DEF Place, Rotating
  <2>2. QED
    BY <1>2, <1>5, <2>1 DEF Lone
<1>11. Onlookers'
  <2>1. \A v \in Workers : stream[v] # NoFile /\ v \in writers => v = w
    BY <1>2 DEF Lone
  <2>2. QED
    BY <1>2, <1>5, <1>8, <2>1 DEF ShelfTail, Onlookers
<1>12. Newest(TRUE)'
  <2>1. BackupCount - 1 \in 0 .. BackupCount - 1
    BY <1>4
  <2>2. named'[BackupCount - 1] # NoFile
    BY <1>3, <1>7, <2>1
  <2>3. QED
    BY <1>2, <1>3, <1>5, <1>6, <2>2 DEF Newest
<1>13. ShelfTail(later, TRUE)'
  BY <1>6, <1>10, <1>11, <1>12 DEF ShelfTail
<1>14. QED
  BY <1>13
\* A file moves to the next name; after the base, all that a kill can leave
\* has been left.
LEMMA RenameSourceTail ==
  ASSUME DiskInv, NEW last, NEW lost, ShelfTail(last, lost), Lone, NEW w \in Workers, RenameSource(w)
  PROVE  \E later : ShelfTail(later, lost)'
<1>1. pc[w] = "rename" /\ pc[w] \in Rotating
  BY DEF RenameSource, Rotating
<1>2. /\ w \in writers /\ Rotated(w, lost) /\ source[w] \in 0 .. BackupCount - 1
      /\ stream[w] = NoFile
  BY <1>1, WriterRotates
<1>3. PICK s \in 0 .. BackupCount - 1 : s = source[w]
  BY <1>2
<1>4. /\ named[s] # NoFile /\ named[s + 1] = NoFile /\ BaseFull
      /\ Gaps(lost, Slots, cuts + 1) /\ Gaps(lost, 1 .. s, cuts)
      /\ (s < BackupCount - 1 /\ lost => named[BackupCount] # NoFile)
  BY <1>1, <1>2, <1>3 DEF Rotated
<1>5. /\ named' = [named EXCEPT ![s + 1] = named[s], ![s] = NoFile]
      /\ Retain /\ UNCHANGED <<stream, written, writers, cuts>>
      /\ s = 0 => Go(w, "open") /\ UNCHANGED source
      /\ s # 0 => From(w, s - 1)
  BY <1>3, <1>4 DEF RenameSource
<1> DEFINE later == [last EXCEPT ![s + 1] = last[s]]
<1>6. /\ Ends(later)' /\ later[BackupCount + 1] = last[BackupCount + 1]
      /\ Shelves' /\ (s # 0 => BaseFull' = BaseFull)
      /\ named'[s] = NoFile /\ named'[s + 1] # NoFile
      /\ \A k \in Names : k # s /\ k # s + 1 => named'[k] = named[k]
  BY <1>4, <1>5, ShelfRenamed DEF ShelfTail
<1> HIDE DEF later
<1>7. /\ s # 0 => Gaps(lost, Slots, cuts + 1)' /\ Gaps(lost, 1 .. s - 1, cuts)'
      /\ s = 0 => Gaps(lost, Slots, cuts)'
  BY <1>4, <1>5, GapsRenamed
<1>8. /\ BackupCount \in Nat /\ BackupCount >= 1 /\ BackupCount \in Names
      /\ BackupCount # s /\ s + 1 \in Names /\ 0 \in Names /\ 1 \in Names /\ s \in Nat
  BY Sizes DEF Names
<1>9. lost => named'[BackupCount] # NoFile
  <2>1. CASE s = BackupCount - 1
    <3>1. s + 1 = BackupCount
      BY <1>8, <2>1
    <3>2. QED
      BY <1>6, <3>1
  <2>2. CASE s # BackupCount - 1
    <3>1. s < BackupCount - 1 /\ BackupCount # s + 1
      BY <1>8, <2>2
    <3>2. QED
      BY <1>4, <1>6, <1>8, <3>1
  <2>3. QED
    BY <2>1, <2>2
<1>10. /\ Place(w, lost)' /\ (BaseFull' \/ named'[1] # NoFile)
       /\ \A v \in Workers \ {w} : pc'[v] = pc[v]
  <2>1. CASE s = 0
    <3>1. pc'[w] = "open" /\ \A v \in Workers \ {w} : pc'[v] = pc[v]
      BY <1>5, <2>1 DEF Go, DiskInv, Typed
    <3>2. Place(w, lost)'
      BY <1>6, <1>7, <2>1, <3>1 DEF Place, Rotating
    <3>3. named'[1] # NoFile
      BY <1>6, <2>1
    <3>4. QED
      BY <3>1, <3>2, <3>3
  <2>2. CASE s # 0
    <3>1. /\ pc' = [pc EXCEPT ![w] = IF s - 1 = 0 THEN "find_target" ELSE "find_source"]
          /\ source' = [source EXCEPT ![w] = s - 1]
      BY <1>5, <2>2 DEF From, Go
    <3>2. /\ pc'[w] = IF s - 1 = 0 THEN "find_target" ELSE "find_source"
          /\ source'[w] = s - 1 /\ \A v \in Workers \ {w} : pc'[v] = pc[v]
      BY <3>1 DEF DiskInv, Typed
    <3>3. BaseFull' /\ named'[0] # NoFile
      BY <1>4, <1>6, <2>2 DEF BaseFull
    <3>4. Rotated(w, lost)'
      <4>1. (s - 1) + 1 = s
        BY <1>8
      <4>2. named'[source'[w] + 1] = NoFile
        BY <1>6, <3>2, <4>1
      <4>3. Gaps(lost, 1 .. source[w], cuts)'
        BY <1>7, <2>2, <3>2 DEF Gaps
      <4>4. pc'[w] # "find_source" => named'[source'[w]] # NoFile
        BY <3>2, <3>3
      <4>5. pc'[w] # "remove"
        BY <3>2
      <4>6. QED
        BY <1>7, <1>9, <2>2, <3>3, <4>2, <4>3, <4>4, <4>5 DEF Rotated
    <3>5. Place(w, lost)'
      BY <3>2, <3>4 DEF Place, Rotating
    <3>6. QED
      BY <3>2, <3>3, <3>5
  <2>3. QED
    BY <2>1, <2>2
<1>11. \A v \in writers' : Place(v, lost)'
  BY <1>2, <1>5, <1>10 DEF Lone
<1>12. Onlookers'
  <2>1. \A v \in Workers : stream[v] # NoFile /\ v \in writers => v = w
    BY <1>2 DEF Lone
  <2>2. QED
    BY <1>2, <1>5, <1>10, <2>1 DEF ShelfTail, Onlookers
<1>13. Newest(lost)'
  BY <1>2, <1>5, <1>9, <1>10 DEF Newest
<1>14. ShelfTail(later, lost)'
  BY <1>6, <1>11, <1>12, <1>13 DEF ShelfTail
<1>15. QED
  BY <1>14
\* A worker without a stream opens the base.
LEMMA OpenedShelf ==
  ASSUME DiskInv, NEW last, Ends(last), Shelves, NEW w \in Workers, stream[w] = NoFile,
         OpenBase(w), UNCHANGED <<content, written>>
  PROVE  /\ Ends(last)' /\ Shelves' /\ SameShelf
         /\ stream'[w] = named'[0] /\ named'[0] # NoFile
         /\ named[0] = NoFile => content'[named'[0]] = <<>>
         /\ \A v \in Workers \ {w} : stream'[v] = stream[v]
<1>1. /\ Ends(last)' /\ Shelves' /\ BaseFull' = BaseFull
      /\ stream'[w] = named'[0] /\ named'[0] # NoFile
      /\ named[0] # NoFile => named'[0] = named[0]
      /\ named[0] = NoFile => content'[named'[0]] = <<>>
      /\ \A k \in 1 .. BackupCount : named'[k] = named[k]
      /\ \A v \in Workers \ {w} : stream'[v] = stream[v]
  BY ShelfOpened
<1>2. SameShelf
  BY <1>1 DEF SameShelf
<1>3. QED
  BY <1>1, <1>2

\* After the rotation the base is a new file.
LEMMA OpenTail ==
  ASSUME DiskInv, NEW last, NEW lost, ShelfTail(last, lost), Lone, NEW w \in Workers, Open(w)
  PROVE  ShelfTail(last, lost)'
<1>1. pc[w] = "open" /\ OpenBase(w) /\ pc' = [pc EXCEPT ![w] = "write"]
      /\ UNCHANGED <<content, source, written, writers, cuts>>
  BY DEF Open, Go
<1>2. w \in writers /\ Place(w, lost) /\ stream[w] = NoFile
  BY <1>1, WriterIs DEF DiskInv, Streaming
<1>3. /\ Ends(last)' /\ Shelves' /\ SameShelf
      /\ stream'[w] = named'[0] /\ named'[0] # NoFile
      /\ named[0] = NoFile => content'[named'[0]] = <<>>
      /\ \A v \in Workers \ {w} : stream'[v] = stream[v]
  BY <1>1, <1>2, OpenedShelf DEF ShelfTail
<1>4. pc'[w] = "write" /\ \A v \in Workers \ {w} : pc'[v] = pc[v]
  BY <1>1 DEF DiskInv, Typed
<1>5. Len(content'[named'[0]]) <= MaxLines - 2
  <2>1. content'[named'[0]] = <<>>
    BY <1>1, <1>2, <1>3 DEF Place, SameShelf
  <2>2. Len(content'[named'[0]]) = 0
    BY <2>1
  <2>3. QED
    BY <2>2, Sizes
<1>6. Gaps(lost, Slots, cuts)'
  <2>1. Gaps(lost, Slots, cuts)
    BY <1>1, <1>2 DEF Place, Rotating
  <2>2. \A t \in Slots : Missing(t)' = Missing(t) /\ Present(t, lost)' = Present(t, lost)
    BY <1>3, SameGaps
  <2>3. QED
    BY <1>1, <2>1, <2>2 DEF Gaps, Slots
<1>7. Place(w, lost)'
  BY <1>3, <1>4, <1>5, <1>6 DEF Place, Rotating
<1>8. QED
  BY <1>1, <1>2, <1>3, <1>4, <1>7, WriterStep

\* A worker that is started does not get in the way of the writer.
LEMMA BuildLoggerTail ==
  ASSUME DiskInv, NEW last, NEW lost, ShelfTail(last, lost), Lone, NEW w \in Workers, BuildLogger(w)
  PROVE  ShelfTail(last, lost)'
<1>1. pc[w] = "down" /\ OpenBase(w) /\ pc' = [pc EXCEPT ![w] = "idle"]
      /\ UNCHANGED <<content, source, written, writers, cuts>>
  BY DEF BuildLogger, Go
<1>2. stream[w] = NoFile
  BY <1>1 DEF DiskInv, Streaming
<1>3. /\ Ends(last)' /\ Shelves' /\ SameShelf
      /\ stream'[w] = named'[0] /\ named'[0] # NoFile
      /\ \A v \in Workers \ {w} : stream'[v] = stream[v]
  BY <1>1, <1>2, OpenedShelf DEF ShelfTail
<1>4. pc'[w] = "idle" /\ \A v \in Workers \ {w} : pc'[v] = pc[v]
  BY <1>1 DEF DiskInv, Typed
<1>5. ASSUME NEW v \in writers PROVE Place(v, lost)'
  <2>1. v \in Workers /\ Place(v, lost)
    BY <1>5 DEF ShelfTail, DiskInv, Typed
  <2>2. CASE v = w
    <3>1. Gaps(lost, Slots, cuts)
      BY <1>1, <2>1, <2>2 DEF Place, Rotating
    <3>2. \A t \in Slots : Missing(t)' = Missing(t) /\ Present(t, lost)' = Present(t, lost)
      BY <1>3, SameGaps
    <3>3. Gaps(lost, Slots, cuts)'
      BY <1>1, <3>1, <3>2 DEF Gaps, Slots
    <3>4. QED
      BY <1>4, <2>2, <3>3 DEF Place, Rotating
  <2>3. CASE v # w
    BY <1>1, <1>3, <1>4, <2>1, <2>3, PlaceKept
  <2>4. QED
    BY <2>2, <2>3
<1>6. Onlookers'
  <2>1. ASSUME NEW v \in Workers, stream'[v] # NoFile, v \in writers \/ writers = {}
        PROVE  stream'[v] = named'[0]
    <3>1. CASE v = w
      BY <1>3, <3>1
    <3>2. CASE v # w
      <4>1. stream'[v] = stream[v] /\ stream[v] = named[0]
        BY <1>3, <2>1, <3>2 DEF ShelfTail, Onlookers
      <4>2. QED
        BY <1>3, <2>1, <4>1 DEF SameShelf
    <3>3. QED
      BY <3>1, <3>2
  <2>2. \A v \in Workers \ writers : pc'[v] \in {"down", "idle"}
    BY <1>4 DEF ShelfTail, Onlookers
  <2>3. QED
    BY <1>1, <2>1, <2>2 DEF Onlookers
<1>7. Newest(lost)'
  BY <1>1, <1>3, NewestKept DEF ShelfTail
<1>8. QED
  BY <1>1, <1>3, <1>5, <1>6, <1>7 DEF ShelfTail

\* The first worker to log an event is the writer.
LEMMA EmitTail ==
  ASSUME DiskInv, NEW last, NEW lost, ShelfTail(last, lost), Lone', NEW w \in Workers, Emit(w)
  PROVE  ShelfTail(last, lost)'
<1>1. pc[w] = "idle" /\ pc' = [pc EXCEPT ![w] = "should_rollover"]
      /\ writers' = writers \cup {w} /\ UNCHANGED <<content, source, written, cuts>>
  BY DEF Emit, Go
<1>2. \A v \in writers' : v = w
  BY <1>1 DEF Lone
<1>3. w \in writers \/ writers = {}
  BY <1>1, <1>2
<1>4. /\ Ends(last)' /\ Shelves' /\ SameShelf
      /\ stream'[w] = named'[0]
  <2>1. CASE stream[w] = NoFile
    <3>1. OpenBase(w)
      BY <2>1 DEF Emit
    <3>2. QED
      BY <1>1, <2>1, <3>1, OpenedShelf DEF ShelfTail
  <2>2. CASE stream[w] # NoFile
    <3>1. UNCHANGED <<named, stream>>
      BY <2>2 DEF Emit
    <3>2. stream[w] = named[0]
      BY <1>3, <2>2 DEF ShelfTail, Onlookers
    <3>3. QED
      BY <1>1, <3>1, <3>2, StillShelf DEF ShelfTail
  <2>3. QED
    BY <2>1, <2>2
<1>5. Gaps(lost, Slots, cuts)
  <2>1. CASE w \in writers
    BY <1>1, <2>1 DEF ShelfTail, Place, Rotating
  <2>2. CASE writers = {}
    <3>1. ~ lost /\ \A k \in 1 .. BackupCount : named[k] = NoFile
      BY <2>2 DEF ShelfTail, Newest
    <3>2. \A t \in Slots : t <= BackupCount => t \in 1 .. BackupCount
      BY Sizes DEF Slots
    <3>3. \A t \in Slots : ~ Present(t, lost)
      BY <3>1, <3>2 DEF Present
    <3>4. QED
      BY <3>3 DEF Gaps
  <2>3. QED
    BY <1>3, <2>1, <2>2
<1>6. pc'[w] = "should_rollover" /\ \A v \in Workers \ {w} : pc'[v] = pc[v]
  BY <1>1 DEF DiskInv, Typed
<1>7. Place(w, lost)'
  <2>1. \A t \in Slots : Missing(t)' = Missing(t) /\ Present(t, lost)' = Present(t, lost)
    BY <1>4, SameGaps
  <2>2. Gaps(lost, Slots, cuts)'
    BY <1>1, <1>5, <2>1 DEF Gaps, Slots
  <2>3. QED
    BY <1>6, <2>2 DEF Place, Rotating
<1>8. Onlookers'
  <2>1. \A v \in Workers \ writers' : pc'[v] \in {"down", "idle"}
    BY <1>1, <1>6 DEF ShelfTail, Onlookers
  <2>2. \A v \in Workers : stream'[v] # NoFile /\ (v \in writers' \/ writers' = {}) => stream'[v] = named'[0]
    BY <1>1, <1>2, <1>4
  <2>3. QED
    BY <2>1, <2>2 DEF Onlookers
<1>9. Newest(lost)'
  BY <1>1, <1>4, NewestKept DEF ShelfTail
<1>10. QED
  BY <1>2, <1>4, <1>7, <1>8, <1>9 DEF ShelfTail

\* The event is the next one.
LEMMA WriteTail ==
  ASSUME DiskInv, NEW last, NEW lost, ShelfTail(last, lost), Lone, NEW w \in Workers, Write(w)
  PROVE  \E later : ShelfTail(later, lost)'
<1>1. /\ pc[w] = "write" /\ pc' = [pc EXCEPT ![w] = "idle"]
      /\ content' = [content EXCEPT ![stream[w]] = Append(@, written + 1)]
      /\ written' = written + 1 /\ UNCHANGED <<named, stream, source, writers, cuts>>
  BY DEF Write, Go
<1>2. w \in writers /\ Place(w, lost) /\ stream[w] = named[0]
  BY <1>1, WriterIs DEF DiskInv, Streaming, Looking
<1>3. named[0] # NoFile /\ Len(content[named[0]]) <= MaxLines - 2
  BY <1>1, <1>2 DEF Place
<1>4. PICK later : later = [last EXCEPT ![0] = written + 1]
  OBVIOUS
<1>5. Ends(later)' /\ later[BackupCount + 1] = last[BackupCount + 1] /\ Shelves'
  BY <1>1, <1>2, <1>3, <1>4, ShelfWritten DEF ShelfTail
<1>6. pc'[w] = "idle" /\ \A v \in Workers \ {w} : pc'[v] = pc[v]
  BY <1>1 DEF DiskInv, Typed
<1>7. \A v \in writers' : Place(v, lost)'
  <2>1. Gaps(lost, Slots, cuts)
    BY <1>1, <1>2 DEF Place, Rotating
  <2>2. Gaps(lost, Slots, cuts)'
    BY <1>1, <2>1 DEF Gaps, Slots, Missing, Present
  <2>3. Place(w, lost)'
    BY <1>6, <2>2 DEF Place, Rotating
  <2>4. QED
    BY <1>1, <1>2, <2>3 DEF Lone
<1>8. Onlookers'
  BY <1>1, <1>6 DEF ShelfTail, Onlookers
<1>9. Newest(lost)'
  <2>1. ~ BaseFull
    <3>1. named[0] \in Files /\ Len(content[named[0]]) \in Nat
      BY <1>3, Sizes DEF DiskInv, Typed, Names
    <3>2. QED
      BY <1>3, <3>1, Sizes DEF BaseFull
  <2>2. \A t \in Slots : Present(t, lost)' = Present(t, lost)
    BY <1>1 DEF Present
  <2>3. QED
    BY <1>1, <2>1, <2>2 DEF ShelfTail, Newest, Slots
<1>10. ShelfTail(later, lost)'
  BY <1>5, <1>7, <1>8, <1>9 DEF ShelfTail
<1>11. QED
  BY <1>10

\* A kill in the middle of a rotation is one more rotation cut short.
LEMMA CrashTail ==
  ASSUME DiskInv, NEW last, NEW lost, ShelfTail(last, lost), Lone, NEW w \in Workers, Crash(w)
  PROVE  ShelfTail(last, lost)'
<1>1. /\ stream' = [stream EXCEPT ![w] = NoFile] /\ pc' = [pc EXCEPT ![w] = "down"]
      /\ cuts' = IF pc[w] \in Rotating /\ cuts < BackupCount THEN cuts + 1 ELSE cuts
      /\ UNCHANGED <<named, source, written, writers>> /\ Retain
  BY DEF Crash, Go
<1>2. Ends(last)' /\ Shelves' /\ SameShelf
  BY <1>1, StillShelf DEF ShelfTail
<1>3. /\ pc'[w] = "down" /\ stream'[w] = NoFile
      /\ \A v \in Workers \ {w} : pc'[v] = pc[v] /\ stream'[v] = stream[v]
  BY <1>1 DEF DiskInv, Typed
<1>4. \A t \in Slots : Missing(t)' = Missing(t) /\ Present(t, lost)' = Present(t, lost)
  BY <1>2, SameGaps
<1>5. CASE w \in writers
  <2>1. Place(w, lost)
    BY <1>5 DEF ShelfTail
  <2>2. Gaps(lost, Slots, cuts)'
    <3>1. CASE pc[w] \notin Rotating
      <4>1. Gaps(lost, Slots, cuts) /\ cuts' = cuts
        BY <1>1, <2>1, <3>1 DEF Place, Rotating
      <4>2. QED
        BY <1>4, <4>1 DEF Gaps, Slots
    <3>2. CASE pc[w] \in Rotating /\ cuts < BackupCount
      <4>1. Gaps(lost, Slots, cuts + 1) /\ cuts' = cuts + 1
        BY <1>1, <2>1, <3>2 DEF Place, Rotated, Rotating
      <4>2. QED
        BY <1>4, <4>1 DEF Gaps, Slots
    <3>3. CASE pc[w] \in Rotating /\ ~ (cuts < BackupCount)
      <4>1. cuts' = BackupCount
        BY <1>1, <3>3, Sizes DEF DiskInv, Typed
      <4>2. \A t \in Slots : Cardinality(Missing(t)) <= BackupCount
        BY MissingSize
      <4>3. QED
        BY <1>4, <4>1, <4>2 DEF Gaps, Slots
    <3>4. QED
      BY <3>1, <3>2, <3>3
  <2>3. Place(w, lost)'
    BY <1>3, <2>2 DEF Place, Rotating
  <2>4. QED
    BY <1>1, <1>2, <1>3, <1>5, <2>3, WriterStep
<1>6. CASE w \notin writers
  <2>1. cuts' = cuts
    BY <1>1, <1>6 DEF ShelfTail, Onlookers, Rotating
  <2>2. \A v \in writers : v \in Workers /\ v # w /\ Place(v, lost)
    BY <1>6 DEF ShelfTail, DiskInv, Typed
  <2>3. \A v \in writers' : Place(v, lost)'
    BY <1>1, <1>2, <1>3, <2>1, <2>2, PlaceKept
  <2>4. Onlookers'
    BY <1>1, <1>3 DEF ShelfTail, Onlookers
  <2>5. Newest(lost)'
    BY <1>1, <1>2, NewestKept DEF ShelfTail
  <2>6. QED
    BY <1>2, <2>3, <2>4, <2>5 DEF ShelfTail
<1>7. QED
  BY <1>5, <1>6
\* LoneInv holds of a log without a file,
LEMMA InitTail == Init => LoneInv
<1> SUFFICES ASSUME Init PROVE \E last, lost : ShelfTail(last, lost)
  BY DEF LoneInv
<1>1. PICK last : last = [k \in 0 .. BackupCount + 1 |-> 0]
  OBVIOUS
<1>2. /\ named = [k \in Names |-> NoFile] /\ written = 0 /\ writers = {}
      /\ pc = [w \in Workers |-> "down"] /\ stream = [w \in Workers |-> NoFile]
  BY DEF Init
<1>3. /\ 0 \in Names /\ 1 .. BackupCount \subseteq Names
      /\ Names \subseteq 0 .. BackupCount + 1
      /\ 0 \in 0 .. BackupCount + 1 /\ BackupCount + 1 \in 0 .. BackupCount + 1
      /\ \A k \in Names : k + 1 \in 0 .. BackupCount + 1
  BY Sizes DEF Names
<1>4. Ends(last)
  BY <1>1, <1>2, <1>3 DEF Ends
<1>5. Shelves
  BY <1>2, <1>3 DEF Shelves
<1>6. last[BackupCount + 1] = 0
  BY <1>1, <1>3
<1>7. Onlookers
  BY <1>2 DEF Onlookers
<1>8. Newest(FALSE)
  <2>1. \A k \in 1 .. BackupCount : named[k] = NoFile
    BY <1>2, <1>3
  <2>2. \A t \in Slots : t <= BackupCount => t \in 1 .. BackupCount
    BY Sizes DEF Slots
  <2>3. \A t \in Slots : ~ Present(t, FALSE)
    BY <2>1, <2>2 DEF Present
  <2>4. QED
    BY <2>1, <2>3 DEF Newest
<1>9. ShelfTail(last, FALSE)
  BY <1>2, <1>4, <1>5, <1>6, <1>7, <1>8 DEF ShelfTail
<1>10. QED
  BY <1>9

\* every step of every worker preserves it as long as one worker logs,
LEMMA NextTail == DiskInv /\ LoneInv /\ [Next]_vars => LoneInv'
<1> SUFFICES ASSUME DiskInv, LoneInv, [Next]_vars, Lone' PROVE (\E last, lost : ShelfTail(last, lost))'
  BY DEF LoneInv
<1>1. writers \subseteq writers'
  BY DEF Next, vars, BuildLogger, Emit, ShouldRollover, Rotate, FindSource, FindTarget,
         RemoveTarget, RenameSource, Open, Write, Crash
<1>2. Lone
  BY <1>1 DEF Lone
<1>3. PICK last, lost : ShelfTail(last, lost)
  BY <1>2 DEF LoneInv
<1>4. ASSUME NEW w \in Workers,
             BuildLogger(w) \/ Emit(w) \/ ShouldRollover(w) \/ Rotate(w) \/ Write(w) \/ Crash(w)
      PROVE  \E later, gone : ShelfTail(later, gone)'
  <2>1. CASE BuildLogger(w)
    BY <1>2, <1>3, <2>1, BuildLoggerTail
  <2>2. CASE Emit(w)
    BY <1>3, <2>2, EmitTail
  <2>3. CASE ShouldRollover(w)
    BY <1>2, <1>3, <2>3, ShouldRolloverTail
  <2>4. CASE FindSource(w)
    BY <1>2, <1>3, <2>4, FindSourceTail
  <2>5. CASE FindTarget(w)
    BY <1>2, <1>3, <2>5, FindTargetTail
  <2>6. CASE RemoveTarget(w)
    BY <1>2, <1>3, <2>6, RemoveTargetTail
  <2>7. CASE RenameSource(w)
    BY <1>2, <1>3, <2>7, RenameSourceTail
  <2>8. CASE Open(w)
    BY <1>2, <1>3, <2>8, OpenTail
  <2>9. CASE Write(w)
    BY <1>2, <1>3, <2>9, WriteTail
  <2>10. CASE Crash(w)
    BY <1>2, <1>3, <2>10, CrashTail
  <2>11. QED
    BY <1>4, <2>1, <2>2, <2>3, <2>4, <2>5, <2>6, <2>7, <2>8, <2>9, <2>10 DEF Rotate
<1>5. CASE UNCHANGED vars
  <2>1. ShelfTail(last, lost)'
    BY <1>3, <1>5 DEF vars, ShelfTail, Ends, Shelves, Place, Rotated, Onlookers, Newest,
                      BaseFull, Gaps, Present, Missing
  <2>2. QED
    BY <2>1
<1>6. QED
  BY <1>4, <1>5 DEF Next

\* and so it holds in every reachable state.
THEOREM LoneInvariant == Spec => []LoneInv
<1>1. Init /\ [][Next]_vars => []LoneInv
  BY DiskInvariant, InitTail, NextTail, PTL DEF Spec
<1>2. QED
  BY <1>1 DEF Spec--------------------------------------------------------------------------------
(***************************************************************************)
(* What the invariant says about the events that are kept.                 *)
(***************************************************************************)
\* FlattenSeq appends one sequence after the other.
LEMMA Flattened ==
  ASSUME NEW n \in Nat \ {0}, NEW seqs \in [1 .. n -> Seq(Nat)]
  PROVE  \E f \in [0 .. n -> Seq(Nat)] :
           /\ f[0] = <<>> /\ FlattenSeq(seqs) = f[n]
           /\ \A j \in 1 .. n : f[j] = f[j - 1] \o seqs[j]
<1> DEFINE V == Seq(Nat)
           step == [p \in (1 .. n) \X V |-> p[2] \o seqs[p[1]]]
           IsIt(g) == g = [i \in 1 .. n |-> IF i = 1 THEN seqs[i] ELSE g[i - 1] \o seqs[i]]
           g == CHOOSE h : IsIt(h)
<1>1. step \in [(1 .. n) \X V -> V] /\ <<>> \in V /\ n \in Nat
  <2>1. \A p \in (1 .. n) \X V : p[2] \in V /\ seqs[p[1]] \in V
    OBVIOUS
  <2>2. \A p \in (1 .. n) \X V : p[2] \o seqs[p[1]] \in V
    BY <2>1
  <2>3. QED
    BY <2>2
<1>2. \A k \in 1 .. n, v \in V : step[<<k, v>>] = v \o seqs[k]
  OBVIOUS
<1> HIDE DEF V, step
<1>3. PICK p : /\ p \in [0 .. n -> V] /\ p[0] = <<>>
               /\ \A k \in 1 .. n : p[k] = step[<<k, p[k - 1]>>]
  <2>1. PICK h : FoldsUp(h, n, V, <<>>, step)
    BY <1>1, FoldUpExists
  <2>2. PICK p : Steps(p, h, n, V, <<>>, step)
    BY <1>1, <2>1, FoldSteps
  <2>3. QED
    BY <2>2 DEF Steps
<1>4. ASSUME NEW k \in 1 .. n PROVE p[k] = p[k - 1] \o seqs[k] /\ p[k - 1] \in V
  <2>1. k - 1 \in 0 .. n
    OBVIOUS
  <2>2. QED
    BY <1>2, <1>3, <2>1
<1>5. p[1] = seqs[1]
  <2>1. 1 \in 1 .. n /\ 1 - 1 = 0
    OBVIOUS
  <2>2. p[1] = <<>> \o seqs[1]
    BY <1>3, <1>4, <2>1
  <2>3. seqs[1] \in Seq(Nat)
    BY <2>1
  <2>4. <<>> \o seqs[1] = seqs[1]
    BY <2>3
  <2>5. QED
    BY <2>2, <2>4
<1>6. \E h : IsIt(h)
  <2> DEFINE q == [i \in 1 .. n |-> p[i]]
  <2>1. ASSUME NEW i \in 1 .. n PROVE p[i] = IF i = 1 THEN seqs[i] ELSE q[i - 1] \o seqs[i]
    <3>1. CASE i = 1
      <4>1. p[1] = seqs[1]
        BY <1>5
      <4>2. QED
        BY <3>1, <4>1
    <3>2. CASE i # 1
      <4>1. i - 1 \in 1 .. n
        BY <3>2
      <4>2. QED
        BY <1>4, <3>2, <4>1
    <3>3. QED
      BY <3>1, <3>2
  <2>2. IsIt(q)
    BY <2>1
  <2>3. QED
    BY <2>2
<1>7. IsIt(g)
  BY <1>6
<1>8. FlattenSeq(seqs) = g[n]
  <2>1. Len(seqs) = n
    OBVIOUS
  <2>2. QED
    BY <2>1 DEF FlattenSeq
<1> HIDE DEF g
<1>9. \A i \in 1 .. n : g[i] = IF i = 1 THEN seqs[i] ELSE g[i - 1] \o seqs[i]
  BY <1>7
<1>10. ASSUME NEW k \in Nat PROVE k \in 1 .. n => g[k] = p[k]
  <2> DEFINE T == {i \in Nat : i \in 1 .. n => g[i] = p[i]}
  <2>1. 0 \in T
    OBVIOUS
  <2>2. ASSUME NEW i \in Nat, i \in T PROVE i + 1 \in T
    <3> SUFFICES ASSUME i + 1 \in 1 .. n PROVE g[i + 1] = p[i + 1]
      OBVIOUS
    <3>1. CASE i = 0
      <4>1. 1 \in 1 .. n /\ i + 1 = 1
        BY <3>1
      <4>2. g[1] = seqs[1]
        BY <1>9, <4>1
      <4>3. QED
        BY <1>5, <4>1, <4>2
    <3>2. CASE i # 0
      <4>1. i \in 1 .. n /\ i + 1 # 1 /\ (i + 1) - 1 = i
        BY <3>2
      <4>2. g[i] = p[i]
        BY <2>2, <4>1
      <4>3. g[i + 1] = g[i] \o seqs[i + 1]
        BY <1>9, <4>1
      <4>4. p[i + 1] = p[i] \o seqs[i + 1]
        BY <1>4, <4>1
      <4>5. QED
        BY <4>2, <4>3, <4>4
    <3>3. QED
      BY <3>1, <3>2
  <2> HIDE DEF T
  <2>3. Nat \subseteq T
    BY <2>1, <2>2, Induction
  <2>4. QED
    BY <2>3 DEF T
<1>11. FlattenSeq(seqs) = p[n]
  BY <1>8, <1>10
<1>12. p \in [0 .. n -> Seq(Nat)]
  BY <1>3 DEF V
<1>13. QED
  BY <1>3, <1>4, <1>11, <1>12

\* The files hold the latest events, in their order.
LEMMA KeptIs ==
  ASSUME DiskInv, NEW last, Ends(last)
  PROVE  /\ Len(Kept) \in Nat /\ DOMAIN Kept = 1 .. Len(Kept)
         /\ written = last[BackupCount + 1] + Len(Kept)
         /\ \A i \in 1 .. Len(Kept) : Kept[i] = last[BackupCount + 1] + i
<1> DEFINE b == BackupCount
           base == last[b + 1]
           seqs == [j \in 1 .. b + 1 |->
                      LET file == named[b + 1 - j]
                      IN  IF file = NoFile THEN <<>> ELSE content[file]]
<1>1. /\ b \in Nat /\ b + 1 \in Nat \ {0} /\ Names = 0 .. b
      /\ last \in [0 .. b + 1 -> Nat] /\ last[0] = written /\ base \in Nat
  BY Sizes DEF Ends, Names
<1>2. ASSUME NEW j \in 1 .. b + 1
      PROVE  /\ seqs[j] \in Seq(Nat) /\ Len(seqs[j]) \in Nat
             /\ last[b + 1 - j] = last[b + 1 - (j - 1)] + Len(seqs[j])
             /\ \A i \in 1 .. Len(seqs[j]) : seqs[j][i] = last[b + 1 - (j - 1)] + i
  <2>1. /\ b + 1 - j \in Names /\ (b + 1 - j) + 1 = b + 1 - (j - 1)
        /\ b + 1 - j \in 0 .. b + 1 /\ last[b + 1 - j] \in Nat
    BY <1>1
  <2>2. CASE named[b + 1 - j] = NoFile
    <3>1. seqs[j] = <<>> /\ Len(seqs[j]) = 0
      BY <2>2
    <3>2. last[b + 1 - (j - 1)] = last[b + 1 - j]
      BY <2>1, <2>2 DEF Ends
    <3> HIDE DEF seqs, b
    <3>3. last[b + 1 - j] = last[b + 1 - (j - 1)] + Len(seqs[j])
      BY <2>1, <3>1, <3>2
    <3>4. <<>> \in Seq(Nat) /\ 1 .. 0 = {}
      OBVIOUS
    <3>5. QED
      BY <3>1, <3>3, <3>4
  <2>3. CASE named[b + 1 - j] # NoFile
    <3>1. seqs[j] = content[named[b + 1 - j]]
      BY <2>3
    <3>2. seqs[j] \in Seq(Nat)
      BY <2>1, <2>3, <3>1 DEF DiskInv, Typed
    <3> HIDE DEF seqs
    <3>3. QED
      BY <2>1, <2>3, <3>1, <3>2 DEF Ends
  <2>4. QED
    BY <2>2, <2>3
<1>3. Kept = FlattenSeq(seqs) /\ seqs \in [1 .. b + 1 -> Seq(Nat)]
  <2>1. \A j \in 1 .. b + 1 : seqs[j] \in Seq(Nat)
    BY <1>2
  <2>2. QED
    BY <2>1 DEF Kept
<1> HIDE DEF seqs, b
<1>4. PICK f \in [0 .. b + 1 -> Seq(Nat)] :
        /\ f[0] = <<>> /\ Kept = f[b + 1]
        /\ \A j \in 1 .. b + 1 : f[j] = f[j - 1] \o seqs[j]
  BY <1>1, <1>3, Flattened
<1> DEFINE Good(j) == /\ last[b + 1 - j] = base + Len(f[j])
                      /\ \A i \in 1 .. Len(f[j]) : f[j][i] = base + i
           T == {j \in Nat : j <= b + 1 => Good(j)}
<1>5. 0 \in T
  <2>1. b + 1 - 0 = b + 1 /\ Len(f[0]) = 0
    BY <1>1, <1>4
  <2>2. QED
    BY <1>1, <2>1
<1>6. ASSUME NEW j \in Nat, j \in T PROVE j + 1 \in T
  <2> SUFFICES ASSUME j + 1 <= b + 1 PROVE Good(j + 1)
    OBVIOUS
  <2>1. j + 1 \in 1 .. b + 1 /\ (j + 1) - 1 = j /\ j <= b + 1 /\ j \in 0 .. b + 1
    BY <1>1
  <2>2. f[j + 1] = f[j] \o seqs[j + 1] /\ f[j] \in Seq(Nat)
    BY <1>4, <2>1
  <2>3. /\ last[b + 1 - j] = base + Len(f[j])
        /\ \A i \in 1 .. Len(f[j]) : f[j][i] = base + i
    BY <1>6, <2>1
  <2>4. /\ seqs[j + 1] \in Seq(Nat) /\ Len(seqs[j + 1]) \in Nat
        /\ last[b + 1 - (j + 1)] = last[b + 1 - j] + Len(seqs[j + 1])
        /\ \A i \in 1 .. Len(seqs[j + 1]) : seqs[j + 1][i] = last[b + 1 - j] + i
    BY <1>2, <2>1
  <2> DEFINE m == Len(f[j])
             n == Len(seqs[j + 1])
  <2>5. /\ m \in Nat /\ n \in Nat /\ Len(f[j + 1]) = m + n
        /\ \A i \in 1 .. m + n : f[j + 1][i] = IF i <= m THEN f[j][i] ELSE seqs[j + 1][i - m]
    <3>1. m \in Nat /\ n \in Nat
      BY <2>2, <2>4, LenProperties
    <3>2. /\ Len(f[j] \o seqs[j + 1]) = m + n
          /\ \A i \in 1 .. m + n :
               (f[j] \o seqs[j + 1])[i] = IF i <= m THEN f[j][i] ELSE seqs[j + 1][i - m]
      BY <2>2, <2>4, ConcatProperties
    <3>3. QED
      BY <2>2, <3>1, <3>2
  <2> HIDE DEF m, n
  <2>6. last[b + 1 - (j + 1)] = base + Len(f[j + 1])
    <3>1. last[b + 1 - j] = base + m /\ last[b + 1 - (j + 1)] = last[b + 1 - j] + n
      BY <2>3, <2>4 DEF m, n
    <3>2. base \in Nat
      BY <1>1
    <3> HIDE DEF base
    <3>3. QED
      BY <2>5, <3>1, <3>2
  <2>7. ASSUME NEW i \in 1 .. Len(f[j + 1]) PROVE f[j + 1][i] = base + i
    <3>1. CASE i <= m
      <4>1. i \in 1 .. m
        BY <2>5, <2>7, <3>1
      <4>2. QED
        BY <2>3, <2>5, <2>7, <3>1, <4>1 DEF m
    <3>2. CASE ~ (i <= m)
      <4>1. i - m \in 1 .. n /\ i \in 1 .. m + n
        BY <2>5, <2>7, <3>2
      <4>2. f[j + 1][i] = last[b + 1 - j] + (i - m)
        BY <2>4, <2>5, <3>2, <4>1 DEF n
      <4>3. QED
        BY <1>1, <2>3, <2>5, <4>1, <4>2 DEF m
    <3>3. QED
      BY <3>1, <3>2
  <2>8. QED
    BY <2>6, <2>7
<1>7. Good(b + 1)
  <2> HIDE DEF Good
  <2>1. 0 \in T /\ \A j \in Nat : j \in T => j + 1 \in T
    BY <1>5, <1>6
  <2> HIDE DEF T
  <2>2. Nat \subseteq T
    BY <2>1, Induction
  <2>3. QED
    BY <1>1, <2>2 DEF T
<1>8. Kept \in Seq(Nat) /\ Len(Kept) \in Nat /\ DOMAIN Kept = 1 .. Len(Kept)
  <2>1. Kept \in Seq(Nat)
    BY <1>1, <1>4
  <2>2. QED
    BY <2>1, LenProperties
<1>9. QED
  <2>1. b + 1 - (b + 1) = 0
    BY <1>1
  <2>2. QED
    BY <1>1, <1>4, <1>7, <1>8, <2>1 DEF b
Filled == {k \in 1 .. BackupCount : named[k] # NoFile}

\* A backup that has a file counts.
LEMMA FilledSize ==
  /\ IsFiniteSet(Filled) /\ Cardinality(Filled) \in Nat
  /\ Cardinality(Filled) + Cardinality(Missing(BackupCount + 1)) = BackupCount
  /\ \A k \in Filled : Cardinality(Filled) >= 1
  /\ \A j, k \in Filled : j # k => Cardinality(Filled) >= 2
<1> DEFINE b == BackupCount
           M == Missing(b + 1)
<1>1. b \in Nat /\ b >= 1 /\ b + 1 \in Slots /\ (b + 1) - 1 = b
  BY Sizes DEF Slots
<1>2. M \subseteq 1 .. b /\ Filled = (1 .. b) \ M
  BY <1>1 DEF Missing, Filled
<1>3. IsFiniteSet(1 .. b) /\ Cardinality(1 .. b) = b
  <2> HIDE DEF b
  <2>1. 1 \in Int /\ b \in Int
    BY <1>1
  <2>2. IsFiniteSet(1 .. b) /\ Cardinality(1 .. b) = IF 1 > b THEN 0 ELSE b - 1 + 1
    BY <2>1, FS_Interval
  <2>3. QED
    BY <1>1, <2>2
<1> HIDE DEF b, M
<1>4. IsFiniteSet(Filled) /\ Cardinality(Filled) = b - Cardinality(M)
  <2>1. (1 .. b) \cap M = M
    BY <1>2
  <2>2. QED
    <3>1. /\ IsFiniteSet((1 .. b) \ M)
          /\ Cardinality((1 .. b) \ M) = Cardinality(1 .. b) - Cardinality((1 .. b) \cap M)
      BY <1>3, FS_Difference
    <3>2. QED
      BY <1>2, <1>3, <2>1, <3>1
<1>5. Cardinality(Filled) \in Nat /\ Cardinality(M) \in Nat
  <2>1. Cardinality(Filled) \in Nat
    BY <1>4, FS_CardinalityType
  <2>2. IsFiniteSet(M)
    BY <1>2, <1>3, FS_Subset
  <2>3. QED
    BY <2>1, <2>2, FS_CardinalityType
<1>6. ASSUME NEW k \in Filled PROVE Cardinality(Filled) >= 1
  <2>1. {k} \in SUBSET Filled /\ Cardinality({k}) = 1
    BY FS_Singleton
  <2>2. Cardinality({k}) <= Cardinality(Filled)
    BY <1>4, <2>1, FS_Subset
  <2>3. QED
    BY <1>5, <2>1, <2>2
<1>7. ASSUME NEW j \in Filled, NEW k \in Filled, j # k PROVE Cardinality(Filled) >= 2
  <2>1. IsFiniteSet({j}) /\ Cardinality({j}) = 1
    BY FS_Singleton
  <2>2. Cardinality({j} \cup {k}) = 2
    <3>1. k \notin {j}
      BY <1>7
    <3>2. Cardinality({j} \cup {k}) = Cardinality({j}) + 1
      BY <2>1, <3>1, FS_AddElement
    <3>3. QED
      BY <2>1, <3>2
  <2>3. {j} \cup {k} \in SUBSET Filled
    OBVIOUS
  <2>4. Cardinality({j} \cup {k}) <= Cardinality(Filled)
    BY <1>4, <2>3, FS_Subset
  <2>5. QED
    BY <1>5, <2>2, <2>4
<1>8. QED
  BY <1>1, <1>4, <1>5, <1>6, <1>7 DEF b, M

\* Each of them holds as many events as fit.
LEMMA FilledKeeps ==
  ASSUME DiskInv, NEW last, Ends(last), Shelves
  PROVE  last[1] = last[BackupCount + 1] + Cardinality(Filled) * (MaxLines - 1)
<1> DEFINE b == BackupCount
           c == MaxLines - 1
           base == last[b + 1]
           F(n) == {k \in b + 1 - n .. b : named[k] # NoFile}
           T == {n \in Nat : n <= b => /\ last[b + 1 - n] = base + Cardinality(F(n)) * c
                                       /\ IsFiniteSet(F(n)) /\ Cardinality(F(n)) \in Nat}
<1>1. /\ b \in Nat /\ b >= 1 /\ Names = 0 .. b /\ c \in Nat
      /\ last \in [0 .. b + 1 -> Nat] /\ base \in Nat
  BY Sizes DEF Ends, Names
<1>2. \A k \in 1 .. b :
        /\ named[k] = NoFile => last[k] = last[k + 1]
        /\ named[k] # NoFile => last[k] = last[k + 1] + c
  <2>1. \A k \in 1 .. b : k \in Names
    BY <1>1
  <2>2. QED
    BY <2>1 DEF Ends, Shelves
<1>3. b + 1 - b = 1 /\ F(b) = Filled
  BY <1>1 DEF Filled
<1> HIDE DEF b, c
<1>4. 0 \in T
  <2>1. F(0) = {} /\ b + 1 - 0 = b + 1
    BY <1>1
  <2>2. IsFiniteSet(F(0)) /\ Cardinality(F(0)) = 0
    BY <2>1, FS_EmptySet
  <2> HIDE DEF F
  <2>3. 0 * c = 0
    BY <1>1
  <2>4. QED
    BY <1>1, <2>1, <2>2, <2>3
<1>5. ASSUME NEW n \in Nat, n \in T PROVE n + 1 \in T
  <2> SUFFICES ASSUME n + 1 <= b
               PROVE  /\ last[b + 1 - (n + 1)] = base + Cardinality(F(n + 1)) * c
                      /\ IsFiniteSet(F(n + 1)) /\ Cardinality(F(n + 1)) \in Nat
    OBVIOUS
  <2>1. /\ last[b + 1 - n] = base + Cardinality(F(n)) * c
        /\ IsFiniteSet(F(n)) /\ Cardinality(F(n)) \in Nat
    BY <1>1, <1>5
  <2>2. /\ b - n \in 1 .. b /\ b + 1 - (n + 1) = b - n /\ (b - n) + 1 = b + 1 - n
        /\ b - n \notin F(n)
    BY <1>1
  <2>3. CASE named[b - n] = NoFile
    <3>1. F(n + 1) = F(n)
      BY <1>1, <2>2, <2>3
    <3>2. last[b - n] = last[b + 1 - n]
      BY <1>2, <2>2, <2>3
    <3>3. QED
      BY <2>1, <2>2, <3>1, <3>2
  <2>4. CASE named[b - n] # NoFile
    <3>1. F(n + 1) = F(n) \cup {b - n}
      BY <1>1, <2>2, <2>4
    <3>2. last[b - n] = last[b + 1 - n] + c
      BY <1>2, <2>2, <2>4
    <3> HIDE DEF F
    <3>3. IsFiniteSet(F(n + 1)) /\ Cardinality(F(n + 1)) = Cardinality(F(n)) + 1
      BY <2>1, <2>2, <3>1, FS_AddElement
    <3>4. Cardinality(F(n + 1)) * c = Cardinality(F(n)) * c + c
      <4> DEFINE x == Cardinality(F(n))
      <4>1. x \in Nat
        BY <2>1
      <4> HIDE DEF x
      <4>2. (x + 1) * c = x * c + c
        BY <1>1, <4>1
      <4>3. QED
        BY <3>3, <4>2 DEF x
    <3>5. base + Cardinality(F(n)) * c + c = base + (Cardinality(F(n)) * c + c)
      <4>1. Cardinality(F(n)) * c \in Nat
        BY <1>1, <2>1
      <4>2. QED
        BY <1>1, <4>1
    <3>6. QED
      BY <2>1, <2>2, <3>2, <3>3, <3>4, <3>5
  <2>5. QED
    BY <2>3, <2>4
<1>6. b \in T
  <2> HIDE DEF T
  <2>1. Nat \subseteq T
    BY <1>4, <1>5, Induction
  <2>2. QED
    BY <1>1, <2>1
<1>7. last[b + 1 - b] = base + Cardinality(F(b)) * c
  BY <1>1, <1>6
<1>8. last[1] = base + Cardinality(Filled) * c
  <2> HIDE DEF F
  <2> QED
    BY <1>3, <1>7
<1>9. QED
  BY <1>8 DEF b, c

\* What is left of a rotation are Spared full files at least.
LEMMA SparedKept ==
  ASSUME DiskInv, NEW last, ShelfTail(last, TRUE)
  PROVE  last[BackupCount + 1] + Spared * (MaxLines - 1) <= written
<1> DEFINE b == BackupCount
           c == MaxLines - 1
           n == Cardinality(Filled)
           m == Cardinality(Missing(b + 1))
           full == IF BaseFull THEN n + 1 ELSE n
<1>1. /\ b \in Nat /\ b >= 1 /\ c \in Nat /\ 0 \in Names /\ b + 1 \in Slots
      /\ cuts \in 0 .. b /\ n \in Nat /\ m \in Nat /\ n + m = b
  <2>1. cuts \in 0 .. b
    BY DEF DiskInv, Typed
  <2>2. QED
    BY <2>1, Sizes, FilledSize, MissingSize DEF Names, Slots
<1>2. last[1] = last[b + 1] + n * c /\ last[b + 1] \in Nat /\ written \in Nat /\ last[1] \in Nat
  <2>1. b + 1 \in 0 .. b + 1 /\ 1 \in 0 .. b + 1
    BY <1>1
  <2>2. QED
    BY <2>1, FilledKeeps DEF ShelfTail, Ends, DiskInv, Typed
<1>3. written >= last[1] /\ (BaseFull => written = last[1] + c)
  <2>1. written = last[0] /\ 0 + 1 = 1
    BY DEF ShelfTail, Ends
  <2>2. CASE named[0] = NoFile
    <3>1. last[0 + 1] = last[0] /\ ~ BaseFull
      BY <1>1, <2>2 DEF ShelfTail, Ends, BaseFull
    <3>2. QED
      BY <1>2, <2>1, <3>1
  <2>3. CASE named[0] # NoFile
    <3>1. last[0] = last[0 + 1] + Len(content[named[0]])
      BY <1>1, <2>3 DEF ShelfTail, Ends
    <3>2. Len(content[named[0]]) \in Nat
      BY <1>1, <2>3 DEF DiskInv, Typed
    <3>3. BaseFull => Len(content[named[0]]) = c
      BY DEF BaseFull
    <3>4. QED
      BY <1>2, <2>1, <3>1, <3>2, <3>3
  <2>4. QED
    BY <2>2, <2>3
<1>4. written >= last[b + 1] + full * c
  <2>1. n * c \in Nat /\ (n + 1) * c = n * c + c
    BY <1>1
  <2> HIDE DEF b, c, n
  <2>2. CASE BaseFull
    <3>1. full * c = n * c + c /\ written = last[1] + c
      BY <1>3, <2>1, <2>2
    <3>2. QED
      BY <1>1, <1>2, <2>1, <3>1
  <2>3. CASE ~ BaseFull
    <3>1. full * c = n * c
      BY <2>3
    <3>2. QED
      BY <1>2, <1>3, <3>1
  <2>4. QED
    BY <2>2, <2>3
<1>5. PICK w \in writers : Place(w, TRUE)
  BY DEF ShelfTail, Newest
<1>6. full >= b - cuts
  <2>1. Present(b + 1, TRUE)
    BY <1>1 DEF Present
  <2>2. CASE pc[w] \notin Rotating
    <3>1. m <= cuts
      BY <1>1, <1>5, <2>1, <2>2 DEF Place, Gaps
    <3>2. QED
      BY <1>1, <3>1
  <2>3. CASE pc[w] \in Rotating
    <3>1. m <= cuts + 1 /\ BaseFull
      BY <1>1, <1>5, <2>1, <2>3 DEF Place, Rotated, Gaps
    <3>2. QED
      BY <1>1, <3>1
  <2>4. QED
    BY <2>2, <2>3
<1>7. full >= IF b = 1 THEN 1 ELSE 2
  <2>1. /\ BaseFull \/ named[1] # NoFile
        /\ named[b] # NoFile \/ (BaseFull /\ named[b - 1] # NoFile)
    <3>1. Present(b + 1, TRUE)
      BY <1>1 DEF Present
    <3>2. QED
      BY <1>1, <3>1 DEF ShelfTail, Newest
  <2>2. \A k \in 1 .. b : named[k] # NoFile => k \in Filled
    BY DEF Filled
  <2>3. /\ \A k \in Filled : n >= 1
        /\ \A j, k \in Filled : j # k => n >= 2
    BY FilledSize
  <2> HIDE DEF n
  <2>4. CASE named[b] # NoFile
    <3>1. b \in Filled /\ n >= 1
      BY <1>1, <2>2, <2>3, <2>4
    <3>2. CASE BaseFull
      BY <1>1, <3>1, <3>2
    <3>3. CASE ~ BaseFull
      <4>1. 1 \in Filled
        BY <1>1, <2>1, <2>2, <3>3
      <4>2. b # 1 => n >= 2
        BY <2>3, <3>1, <4>1
      <4>3. QED
        BY <1>1, <3>1, <3>3, <4>2
    <3>4. QED
      BY <3>2, <3>3
  <2>5. CASE BaseFull /\ named[b - 1] # NoFile
    <3>1. CASE b = 1
      BY <1>1, <2>5, <3>1
    <3>2. CASE b # 1
      <4>1. b - 1 \in Filled
        <5>1. b - 1 \in 1 .. b
          BY <1>1, <3>2
        <5>2. QED
          BY <2>2, <2>5, <5>1
      <4>2. n >= 1
        BY <2>3, <4>1
      <4>3. QED
        BY <1>1, <2>5, <3>2, <4>2
    <3>3. QED
      BY <3>1, <3>2
  <2>6. QED
    BY <2>1, <2>4, <2>5
<1>8. Spared \in Nat /\ full \in Nat /\ Spared <= full
  BY <1>1, <1>6, <1>7 DEF Spared
<1>9. Spared * c <= full * c /\ Spared * c \in Nat /\ full * c \in Nat
  <2> HIDE DEF c, full
  <2> DEFINE s == Spared
  <2>1. s \in Nat /\ full \in Nat /\ s <= full
    BY <1>8
  <2> HIDE DEF s
  <2>2. full = s + (full - s) /\ full - s \in Nat
    BY <2>1
  <2>3. full * c = s * c + (full - s) * c /\ (full - s) * c \in Nat /\ s * c \in Nat
    BY <1>1, <2>1, <2>2
  <2>4. s * c <= full * c /\ full * c \in Nat
    BY <2>3
  <2>5. QED
    BY <2>3, <2>4 DEF s
<1> HIDE DEF full, c, b
<1>10. QED
  <2>1. last[b + 1] + Spared * c <= last[b + 1] + full * c
    BY <1>2, <1>9
  <2>2. QED
    BY <1>2, <1>4, <1>9, <2>1 DEF b, c

\* LoneWriterKeepsTail: while one worker logs, whatever it and the others were
\* doing when they were killed, the files hold the latest events, in order and
\* with none missing, and enough of them.
THEOREM LoneWriterKeeps == Spec => []LoneWriterKeepsTail
<1>1. DiskInv /\ LoneInv => LoneWriterKeepsTail
  <2> SUFFICES ASSUME DiskInv, LoneInv, Cardinality(writers) <= 1,
                      NEW wanted, wanted = Spared * (MaxLines - 1)
               PROVE  /\ Len(Kept) >= IF written < wanted THEN written ELSE wanted
                      /\ \A i \in DOMAIN Kept : Kept[i] = written - Len(Kept) + i
    BY DEF LoneWriterKeepsTail
  <2>1. Lone
    <3> SUFFICES ASSUME NEW u \in writers, NEW v \in writers, u # v PROVE FALSE
      BY DEF Lone
    <3>1. IsFiniteSet(writers) /\ Cardinality(writers) \in Nat
      <4>1. writers \in SUBSET Workers
        BY DEF DiskInv, Typed
      <4>2. QED
        BY <4>1, Sizes, FS_Subset, FS_CardinalityType
    <3>2. IsFiniteSet({u}) /\ Cardinality({u}) = 1
      BY FS_Singleton
    <3>3. v \notin {u} /\ {u} \cup {v} \in SUBSET writers
      OBVIOUS
    <3>4. Cardinality({u} \cup {v}) = Cardinality({u}) + 1
      BY <3>2, <3>3, FS_AddElement
    <3>5. Cardinality({u} \cup {v}) <= Cardinality(writers)
      BY <3>1, <3>3, FS_Subset
    <3>6. Cardinality({u} \cup {v}) = 2
      BY <3>2, <3>4
    <3>7. ~ (2 <= Cardinality(writers))
      BY <3>1
    <3>8. 2 <= Cardinality(writers)
      BY <3>5, <3>6
    <3>9. QED
      BY <3>7, <3>8
  <2>2. PICK last, lost : ShelfTail(last, lost)
    BY <2>1 DEF LoneInv
  <2>3. /\ Len(Kept) \in Nat /\ DOMAIN Kept = 1 .. Len(Kept)
        /\ written = last[BackupCount + 1] + Len(Kept)
        /\ \A i \in 1 .. Len(Kept) : Kept[i] = last[BackupCount + 1] + i
    BY <2>2, KeptIs DEF ShelfTail
  <2>4. last[BackupCount + 1] \in Nat /\ written \in Nat
    <3>1. BackupCount + 1 \in 0 .. BackupCount + 1
      BY Sizes
    <3>2. QED
      BY <2>2, <3>1 DEF ShelfTail, Ends, DiskInv, Typed
  <2>5. \A i \in DOMAIN Kept : Kept[i] = written - Len(Kept) + i
    BY <2>3, <2>4
  <2>6. CASE lost
    <3>1. last[BackupCount + 1] + wanted <= written
      BY <2>2, <2>6, SparedKept DEF ShelfTail
    <3>2. wanted \in Nat
      <4>1. Spared \in Nat /\ MaxLines - 1 \in Nat
        BY Sizes DEF Spared, DiskInv, Typed
      <4>2. QED
        BY <4>1
    <3>3. QED
      BY <2>3, <2>4, <2>5, <3>1, <3>2
  <2>7. CASE ~ lost
    <3>1. last[BackupCount + 1] = 0
      BY <2>2, <2>7 DEF ShelfTail
    <3>2. Len(Kept) = written
      BY <2>3, <2>4, <3>1
    <3>3. wanted \in Nat
      <4>1. Spared \in Nat /\ MaxLines - 1 \in Nat
        BY Sizes DEF Spared, DiskInv, Typed
      <4>2. QED
        BY <4>1
    <3>4. QED
      BY <2>4, <2>5, <3>2, <3>3
  <2>8. QED
    BY <2>6, <2>7
<1>2. QED
  BY DiskInvariant, LoneInvariant, <1>1, PTL
================================================================================
