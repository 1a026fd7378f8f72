---------------------------- MODULE RenderingProofs ----------------------------
(***************************************************************************)
(* Theorems about Rendering for every number of pages, handlers and        *)
(* commands.                                                               *)
(***************************************************************************)
EXTENDS Rendering, FiniteSetTheorems, TLAPS

-----------------------------------------------------------------------------
(* First and last paths.                                                    *)

\* In a finite set that is not empty, something has the smallest number.
LEMMA Smallest ==
    ASSUME NEW S, IsFiniteSet(S), S # {}, NEW f \in [S -> Int]
    PROVE  \E x \in S : \A y \in S : f[x] <= f[y]
<1> DEFINE Below(x) == {y \in S : f[y] <= f[x]}
           Family == {Below(x) : x \in S}
<1>1. Family \subseteq FiniteSubsetsOf(S)
    BY FS_FiniteSubsetsOfFinite
<1>2. Family # {}
    <2>1. PICK x \in S : TRUE
        OBVIOUS
    <2>2. Below(x) \in Family
        OBVIOUS
    <2>3. QED
        BY <2>2
<1>3. \E T \in Family : \A U \in Family : <<U, T>> \notin StrictSubsetOrdering(S)
    BY <1>1, <1>2, FS_StrictSubsetOrderingWellFounded, WFMin
<1>4. PICK x \in S : \A y \in S : <<Below(y), Below(x)>> \notin StrictSubsetOrdering(S)
    BY <1>3
<1>5. ASSUME NEW y \in S, f[y] < f[x] PROVE FALSE
    <2>1. Below(y) \subseteq Below(x) /\ x \in Below(x) /\ x \notin Below(y)
        BY <1>5
    <2>2. <<Below(y), Below(x)>> \in StrictSubsetOrdering(S)
        BY <2>1 DEF StrictSubsetOrdering
    <2>3. QED
        BY <2>2, <1>4
<1>6. QED
    BY <1>5

\* There are finitely many paths, and they are numbers.
LEMMA PathsAreNumbers == Path \subseteq Nat \ {0} /\ IsFiniteSet(Path) /\ \A S \in SUBSET Path : IsFiniteSet(S)
<1>1. IsFiniteSet(Path)
    BY RenderingAssumption, FS_Union DEF Path
<1>2. QED
    BY <1>1, RenderingAssumption, FS_Subset DEF Path

\* A set of paths that is not empty has a first and a last one.
LEMMA FirstIs ==
    ASSUME NEW S \in SUBSET Path, S # {}
    PROVE  First(S) \in S /\ \A q \in S : First(S) <= q
<1> DEFINE f == [p \in S |-> p]
<1>1. IsFiniteSet(S) /\ f \in [S -> Int]
    BY PathsAreNumbers
<1>2. PICK p \in S : \A q \in S : f[p] <= f[q]
    BY <1>1, Smallest
<1>3. \A q \in S : p <= q
    BY <1>2
<1>4. QED
    BY <1>3 DEF First

LEMMA LastIs ==
    ASSUME NEW S \in SUBSET Path, S # {}
    PROVE  \E p \in S : \A q \in S : q <= p
<1> DEFINE f == [p \in S |-> 0 - p]
<1>1. IsFiniteSet(S) /\ f \in [S -> Int] /\ S \subseteq Nat
    BY PathsAreNumbers
<1>2. PICK p \in S : \A q \in S : f[p] <= f[q]
    BY <1>1, Smallest
<1>3. \A q \in S : q <= p
    BY <1>1, <1>2
<1>4. QED
    BY <1>3

\* A batch of rows has no gaps, and a short one is the last.
LEMMA RowsCover ==
    ASSUME NEW S \in SUBSET Path
    PROVE  /\ Limited(S) \subseteq S /\ IsFiniteSet(Limited(S))
           /\ \A p \in S, r \in Limited(S) : p <= r => p \in Limited(S)
           /\ Cardinality(Limited(S)) < Batch => Limited(S) = S
<1> DEFINE rows == Limited(S)
<1> DEFINE Before(p) == {q \in S : q < p}
<1>1. Batch \in Nat \ {0} /\ S \subseteq Nat /\ IsFiniteSet(S)
    BY RenderingAssumption, PathsAreNumbers
<1>2. rows \subseteq S /\ IsFiniteSet(rows) /\ Cardinality(rows) \in Nat
    BY <1>1, FS_Subset, FS_CardinalityType DEF Limited
<1>3. \A p \in S : /\ IsFiniteSet(Before(p)) /\ Cardinality(Before(p)) \in Nat
                   /\ Before(p) \subseteq S /\ \A q \in S : q \in Before(p) <=> q < p
                   /\ p \in rows <=> Cardinality(Before(p)) < Batch
    BY <1>1, FS_Subset, FS_CardinalityType DEF Limited
<1> HIDE DEF Before, rows
<1>4. ASSUME NEW p \in S, NEW r \in rows, p <= r PROVE p \in rows
    <2>1. Before(p) \subseteq Before(r)
        <3>1. \A q \in S : q < p => q < r
            BY <1>1, <1>2, <1>4
        <3>2. QED
            BY <1>2, <1>3, <3>1
    <2>2. Cardinality(Before(p)) <= Cardinality(Before(r))
        BY <1>2, <1>3, <2>1, FS_Subset
    <2>3. QED
        BY <1>1, <1>2, <1>3, <2>2
<1>5. ASSUME Cardinality(rows) < Batch, S \ rows # {} PROVE FALSE
    <2>1. PICK m \in S \ rows : \A q \in S \ rows : m <= q
        BY <1>5, FirstIs
    <2>2. Before(m) \subseteq rows
        <3>1. \A q \in S : q < m => q \in rows
            BY <1>1, <2>1
        <3>2. QED
            BY <1>3, <2>1, <3>1
    <2>3. Cardinality(Before(m)) <= Cardinality(rows)
        BY <1>2, <2>2, FS_Subset
    <2>4. QED
        BY <1>1, <1>2, <1>3, <1>5, <2>1, <2>3
<1>6. QED
    BY <1>2, <1>4, <1>5 DEF rows

-----------------------------------------------------------------------------
(* Types.                                                                   *)

\* The types of the pages and the files, and who is busy with what.
DiskOK ==
    /\ pages \in [Path -> 0 .. MaxVersion]
    /\ file \in [Path -> {Nil, Torn} \cup 0 .. MaxVersion]
    /\ tmp \in [Path -> {Nil, Torn} \cup 0 .. MaxVersion]
    /\ todo \in [Actor -> [Path -> 0 .. MaxVersion]]
    /\ fd \in [Actor -> {Nil, "tmp", "file", "gone"}]
    /\ full \in [Actor -> BOOLEAN]
    /\ \A x \in Actor : (Busy(x) => Left(x) # {}) /\ (full[x] => Busy(x))
    /\ \A w, v \in Writer : Busy(w) /\ Busy(v) => w = v
    /\ late \subseteq Path /\ mixed \subseteq Path

\* A command that is about to import has a file for it, and nothing to render.
RunOK ==
    /\ run \in [Command -> Run]
    /\ \A k \in Command : run[k].mode = "write" => run[k].left # {} /\ Left(k) = {}

Shape == DiskOK /\ RunOK

\* What an actor has to do next stays while its rows stay.
LEMMA LeftKept ==
    ASSUME NEW x, todo'[x] = todo[x]
    PROVE  Left(x)' = Left(x) /\ Target(x)' = Target(x)
BY DEF Left, Target

\* An actor with something to render renders one of the pages it has read.
LEMMA TargetIs ==
    ASSUME DiskOK, NEW x \in Actor, Left(x) # {}
    PROVE  Target(x) \in Path /\ Target(x) \in Left(x) /\ todo[x][Target(x)] \in 1 .. MaxVersion
<1>1. Left(x) \in SUBSET Path
    BY DEF Left
<1>2. Target(x) \in Left(x)
    BY <1>1, FirstIs DEF Target
<1>3. Target(x) \in Path /\ todo[x][Target(x)] # 0
    BY <1>2 DEF Left
<1>4. QED
    BY <1>2, <1>3, RenderingAssumption DEF DiskOK

\* Disturbed changes nothing but quiet.
LEMMA DisturbedIs ==
    ASSUME RunOK
    PROVE  /\ Disturbed \in [Command -> Run]
           /\ \A k \in Command : /\ Disturbed[k].mode = run[k].mode /\ Disturbed[k].left = run[k].left
                                 /\ Disturbed[k].quiet = FALSE
BY DEF RunOK, Disturbed, Run

\* A command that changes its state and none of the rows.
LEMMA RunChanged ==
    ASSUME RunOK, NEW k \in Command, NEW r \in Run, UNCHANGED todo,
           run' = [run EXCEPT ![k] = r], r.mode = "write" => r.left # {} /\ Left(k) = {}
    PROVE  RunOK'
<1>1. run'[k] = r /\ \A j \in Command \ {k} : run'[j] = run[j]
    BY DEF RunOK
<1>2. run' \in [Command -> Run]
    BY DEF RunOK
<1>3. \A j \in Command : Left(j)' = Left(j)
    BY DEF Left
<1>4. QED
    BY <1>1, <1>2, <1>3 DEF RunOK

\* The disk after a step of a command that does not touch it.
LEMMA DiskKept == DiskOK /\ UNCHANGED <<pages, renderVars>> => DiskOK'
BY DEF DiskOK, renderVars, Busy, Left

\* A commit, whose writer has nothing else to render.
LEMMA CommitDisk ==
    ASSUME Shape, NEW x \in Actor, NEW p \in Path, CommitBy(x, p), Left(x) = {},
           UNCHANGED <<file, tmp, fd, full, mixed>>
    PROVE  /\ DiskOK' /\ ~Busy(x) /\ todo'[x][p] = pages[p] + 1 /\ \A q \in Path \ {p} : todo'[x][q] = 0
           /\ \A y \in Actor \ {x} : todo'[y] = todo[y]
<1>1. pages[p] \in 0 .. MaxVersion /\ pages[p] < MaxVersion /\ pages' = [pages EXCEPT ![p] = @ + 1]
    BY DEF CommitBy, Put, Shape, DiskOK
<1>2. pages[p] + 1 \in 1 .. MaxVersion
    BY <1>1, RenderingAssumption
<1>3. pages' \in [Path -> 0 .. MaxVersion]
    BY <1>1, <1>2 DEF Shape, DiskOK
<1>4. todo' = [todo EXCEPT ![x] = [Nothing EXCEPT ![p] = pages[p] + 1]]
    BY DEF CommitBy
<1>5. todo' \in [Actor -> [Path -> 0 .. MaxVersion]]
    BY <1>2, <1>4, RenderingAssumption DEF Shape, DiskOK, Nothing
<1>6. /\ todo'[x][p] = pages[p] + 1 /\ \A q \in Path \ {p} : todo'[x][q] = 0
      /\ \A y \in Actor \ {x} : todo'[y] = todo[y]
    BY <1>4 DEF Shape, DiskOK, Nothing
<1>7. ~Busy(x)
    BY DEF Shape, DiskOK
<1>8. \A y \in Actor : (Busy(y)' => Left(y)' # {}) /\ (full'[y] => Busy(y)')
    BY <1>6, <1>7 DEF Shape, DiskOK, Busy, Left
<1>9. late' \subseteq Path
    BY DEF CommitBy, Shape, DiskOK
<1>10. QED
    BY <1>3, <1>5, <1>6, <1>7, <1>8, <1>9 DEF Shape, DiskOK, Busy

\* Where a temporary file is, it is not closed.
LEMMA OpenIsBusy == Nil \notin {"tmp", "file", "gone"}
BY RenderingAssumption

\* What an open changes.
LEMMA OpenIs ==
    ASSUME Shape, NEW x \in Actor, Open(x)
    PROVE  /\ Target(x) \in Path /\ Target(x) \in Left(x) /\ ~Busy(x) /\ ~full[x]
           /\ tmp'[Target(x)] = Empty /\ \A q \in Path \ {Target(x)} : tmp'[q] = tmp[q]
           /\ fd'[x] = "tmp" /\ \A y \in Actor \ {x} : fd'[y] = fd[y]
           /\ UNCHANGED <<pages, file, todo, full, late>> /\ mixed \subseteq mixed'
           /\ Opened(Target(x)) # {} => Target(x) \in mixed'
           /\ DiskOK'
<1>1. DiskOK /\ Left(x) # {}
    BY DEF Shape, Open
<1>2. PICK p \in Path : p = Target(x) /\ p \in Left(x)
    BY <1>1, TargetIs
<1>3. /\ tmp' = [tmp EXCEPT ![p] = Empty] /\ fd' = [fd EXCEPT ![x] = "tmp"]
      /\ mixed' = IF Opened(p) = {} THEN mixed ELSE mixed \cup {p}
      /\ UNCHANGED <<pages, file, todo, full, late>> /\ ~Busy(x)
      /\ x \in Writer => \A w \in Writer : ~Busy(w)
    BY <1>2 DEF Open
<1>4. /\ tmp'[p] = Empty /\ \A q \in Path \ {p} : tmp'[q] = tmp[q]
      /\ fd'[x] = "tmp" /\ \A y \in Actor \ {x} : fd'[y] = fd[y]
    BY <1>1, <1>3 DEF DiskOK
<1>5. Empty \in 0 .. MaxVersion
    BY RenderingAssumption DEF Empty
<1>6. tmp' \in [Path -> {Nil, Torn} \cup 0 .. MaxVersion] /\ fd' \in [Actor -> {Nil, "tmp", "file", "gone"}]
    BY <1>1, <1>3, <1>5 DEF DiskOK
<1>7. \A y \in Actor : Left(y)' = Left(y) /\ (Busy(y)' <=> y = x \/ Busy(y))
    BY <1>3, <1>4, OpenIsBusy DEF Left, Busy
<1>8. \A y \in Actor : (Busy(y)' => Left(y)' # {}) /\ (full'[y] => Busy(y)')
    BY <1>1, <1>3, <1>7 DEF DiskOK
<1>9. \A w, v \in Writer : Busy(w)' /\ Busy(v)' => w = v
    BY <1>1, <1>3, <1>7 DEF DiskOK, Actor
<1>10. ~full[x] /\ mixed' \subseteq Path
    BY <1>1, <1>3 DEF DiskOK
<1>11. DiskOK'
    BY <1>1, <1>3, <1>6, <1>8, <1>9, <1>10 DEF DiskOK
<1>12. QED
    BY <1>2, <1>3, <1>4, <1>10, <1>11

\* What a write to an open file changes.
LEMMA FillIs ==
    ASSUME Shape, NEW x \in Actor, Fill(x)
    PROVE  /\ Target(x) \in Path /\ Target(x) \in Left(x) /\ Busy(x) /\ ~full[x] /\ full'[x]
           /\ \A y \in Actor \ {x} : full'[y] = full[y]
           /\ \A q \in Path \ {Target(x)} : tmp'[q] = tmp[q] /\ file'[q] = file[q]
           /\ fd[x] = "tmp" => tmp'[Target(x)] \in Over(tmp[Target(x)], todo[x][Target(x)]) /\ file' = file
           /\ fd[x] # "tmp" => /\ tmp' = tmp
                               /\ file'[Target(x)] \in Over(file[Target(x)], todo[x][Target(x)]) \cup {file[Target(x)]}
           /\ UNCHANGED <<pages, todo, fd, late, mixed>>
           /\ DiskOK'
<1>1. DiskOK /\ Left(x) # {}
    BY DEF Shape, Fill, DiskOK
<1>2. PICK p \in Path : p = Target(x) /\ p \in Left(x) /\ todo[x][p] \in 1 .. MaxVersion
    BY <1>1, TargetIs
<1>3. PICK v : v = todo[x][p]
    OBVIOUS
<1>4. Busy(x) /\ ~full[x] /\ full' = [full EXCEPT ![x] = TRUE] /\ UNCHANGED <<pages, todo, fd, late, mixed>>
    BY DEF Fill
<1>5. \/ fd[x] = "tmp" /\ \E c \in Over(tmp[p], v) : tmp' = [tmp EXCEPT ![p] = c] /\ UNCHANGED file
      \/ fd[x] = "file" /\ \E c \in Over(file[p], v) : file' = [file EXCEPT ![p] = c] /\ UNCHANGED tmp
      \/ fd[x] = "gone" /\ UNCHANGED <<file, tmp>>
    BY <1>2, <1>3 DEF Fill
<1>6. \A old : Over(old, v) \subseteq {Nil, Torn} \cup 0 .. MaxVersion
    BY <1>2, <1>3, RenderingAssumption DEF Over
<1>7. /\ tmp' \in [Path -> {Nil, Torn} \cup 0 .. MaxVersion] /\ file' \in [Path -> {Nil, Torn} \cup 0 .. MaxVersion]
      /\ \A q \in Path \ {p} : tmp'[q] = tmp[q] /\ file'[q] = file[q]
      /\ fd[x] = "tmp" => tmp'[p] \in Over(tmp[p], v) /\ file' = file
      /\ fd[x] # "tmp" => tmp' = tmp /\ file'[p] \in Over(file[p], v) \cup {file[p]}
    BY <1>1, <1>5, <1>6 DEF DiskOK
<1>8. full' \in [Actor -> BOOLEAN] /\ full'[x] /\ \A y \in Actor \ {x} : full'[y] = full[y]
    BY <1>1, <1>4 DEF DiskOK
<1>9. \A y \in Actor : Left(y)' = Left(y) /\ (Busy(y)' <=> Busy(y))
    BY <1>4 DEF Left, Busy
<1>10. DiskOK'
    BY <1>1, <1>4, <1>7, <1>8, <1>9 DEF DiskOK, Actor
<1>11. QED
    BY <1>2, <1>3, <1>4, <1>7, <1>8, <1>10

\* A render that ends leaves the others as they are.
LEMMA RenderedIs ==
    ASSUME Shape, NEW x \in Actor, Left(x) # {}, Rendered(x)
    PROVE  /\ todo'[x][Target(x)] = 0 /\ \A q \in Path \ {Target(x)} : todo'[x][q] = todo[x][q]
           /\ \A y \in Actor \ {x} : todo'[y] = todo[y] /\ full'[y] = full[y]
           /\ ~full'[x] /\ Left(x)' = Left(x) \ {Target(x)}
           /\ todo' \in [Actor -> [Path -> 0 .. MaxVersion]] /\ full' \in [Actor -> BOOLEAN]
<1>1. PICK p \in Path : p = Target(x) /\ p \in Left(x)
    BY TargetIs DEF Shape
<1>2. todo' = [todo EXCEPT ![x][p] = 0] /\ full' = [full EXCEPT ![x] = FALSE]
    BY <1>1 DEF Rendered
<1>3. todo'[x] = [todo[x] EXCEPT ![p] = 0] /\ \A y \in Actor \ {x} : todo'[y] = todo[y]
    BY <1>2 DEF Shape, DiskOK
<1>4. todo'[x][p] = 0 /\ \A q \in Path \ {p} : todo'[x][q] = todo[x][q]
    BY <1>3 DEF Shape, DiskOK
<1>5. 0 \in 0 .. MaxVersion
    BY RenderingAssumption
<1>6. todo' \in [Actor -> [Path -> 0 .. MaxVersion]]
    BY <1>2, <1>5 DEF Shape, DiskOK
<1>7. Left(x)' = Left(x) \ {p}
    BY <1>4 DEF Left
<1>8. QED
    BY <1>1, <1>2, <1>3, <1>4, <1>6, <1>7 DEF Shape, DiskOK

\* What a rename changes: whoever else had the file open has it open under
\* another name.
LEMMA RenameIs ==
    ASSUME Shape, NEW x \in Actor, Rename(x)
    PROVE  /\ Target(x) \in Path /\ Target(x) \in Left(x) /\ Busy(x) /\ full[x] /\ tmp[Target(x)] # Nil
           /\ file'[Target(x)] = tmp[Target(x)] /\ tmp'[Target(x)] = Nil
           /\ \A q \in Path \ {Target(x)} : file'[q] = file[q] /\ tmp'[q] = tmp[q]
           /\ ~Busy(x)' /\ \A y \in Actor \ {x} : (Busy(y)' <=> Busy(y)) /\ todo'[y] = todo[y] /\ full'[y] = full[y]
           /\ \A y \in Actor \ {x} : IF y \in Opened(Target(x)) THEN fd'[y] # "tmp" ELSE fd'[y] = fd[y]
           /\ UNCHANGED <<pages, run>> /\ Rendered(x)
           /\ late' = IF Pending(Target(x)) = {x} /\ tmp[Target(x)] = pages[Target(x)] THEN late \ {Target(x)} ELSE late
           /\ mixed' = IF Opened(Target(x)) = {x} /\ tmp[Target(x)] \notin {Empty, Torn}
                       THEN mixed \ {Target(x)} ELSE mixed
           /\ DiskOK'
<1>1. DiskOK /\ Busy(x) /\ Left(x) # {}
    BY DEF Shape, Rename, DiskOK
<1>2. PICK p \in Path : p = Target(x) /\ p \in Left(x)
    BY <1>1, TargetIs
<1>3. /\ full[x] /\ tmp[p] # Nil /\ Rendered(x) /\ UNCHANGED <<pages, run>>
      /\ file' = [file EXCEPT ![p] = tmp[p]] /\ tmp' = [tmp EXCEPT ![p] = Nil]
      /\ fd' = [y \in Actor |->
                  CASE y = x -> Nil
                    [] y # x /\ y \in Opened(p) -> IF fd[y] = "tmp" THEN "file" ELSE "gone"
                    [] OTHER -> fd[y]]
      /\ late' = IF Pending(p) = {x} /\ tmp[p] = pages[p] THEN late \ {p} ELSE late
      /\ mixed' = IF Opened(p) = {x} /\ tmp[p] \notin {Empty, Torn} THEN mixed \ {p} ELSE mixed
    BY <1>2 DEF Rename
<1>4. /\ file' \in [Path -> {Nil, Torn} \cup 0 .. MaxVersion] /\ tmp' \in [Path -> {Nil, Torn} \cup 0 .. MaxVersion]
      /\ file'[p] = tmp[p] /\ tmp'[p] = Nil
      /\ \A q \in Path \ {p} : file'[q] = file[q] /\ tmp'[q] = tmp[q]
    BY <1>1, <1>3 DEF DiskOK
<1>5. /\ fd' \in [Actor -> {Nil, "tmp", "file", "gone"}] /\ fd'[x] = Nil
      /\ \A y \in Actor \ {x} : IF y \in Opened(p) THEN fd'[y] \in {"file", "gone"} ELSE fd'[y] = fd[y]
    BY <1>1, <1>3 DEF DiskOK
<1>6. ~Busy(x)' /\ \A y \in Actor \ {x} : Busy(y)' <=> Busy(y)
    BY <1>5, OpenIsBusy DEF Busy, Opened
<1>7. /\ \A y \in Actor \ {x} : todo'[y] = todo[y] /\ full'[y] = full[y]
      /\ ~full'[x] /\ todo' \in [Actor -> [Path -> 0 .. MaxVersion]] /\ full' \in [Actor -> BOOLEAN]
    BY <1>1, <1>3, RenderedIs
<1>8. \A y \in Actor : (Busy(y)' => Left(y)' # {}) /\ (full'[y] => Busy(y)')
    BY <1>1, <1>6, <1>7, LeftKept DEF DiskOK
<1>9. \A w, v \in Writer : Busy(w)' /\ Busy(v)' => w = v
    BY <1>1, <1>6 DEF DiskOK, Actor
<1>10. DiskOK'
    BY <1>1, <1>3, <1>4, <1>5, <1>7, <1>8, <1>9 DEF DiskOK
<1>11. QED
    BY <1>1, <1>2, <1>3, <1>4, <1>5, <1>6, <1>7, <1>10

\* What a render that is given up changes.
LEMMA GivenUpIs ==
    ASSUME Shape, NEW x \in Actor, Left(x) # {}, GivenUp(x), UNCHANGED <<pages, file, tmp, mixed>>
    PROVE  /\ Target(x) \in Path /\ Target(x) \in Left(x)
           /\ ~Busy(x)' /\ \A y \in Actor \ {x} : fd'[y] = fd[y] /\ todo'[y] = todo[y] /\ full'[y] = full[y]
           /\ Rendered(x) /\ late' = late \cup {Target(x)}
           /\ DiskOK'
<1>1. DiskOK
    BY DEF Shape
<1>2. Target(x) \in Path /\ Target(x) \in Left(x)
    BY <1>1, TargetIs
<1>3. Rendered(x) /\ fd' = [fd EXCEPT ![x] = Nil] /\ late' = late \cup {Target(x)}
    BY DEF GivenUp
<1>4. fd' \in [Actor -> {Nil, "tmp", "file", "gone"}] /\ fd'[x] = Nil /\ \A y \in Actor \ {x} : fd'[y] = fd[y]
    BY <1>1, <1>3 DEF DiskOK
<1>5. ~Busy(x)' /\ \A y \in Actor \ {x} : Busy(y)' <=> Busy(y)
    BY <1>4 DEF Busy
<1>6. /\ \A y \in Actor \ {x} : todo'[y] = todo[y] /\ full'[y] = full[y]
      /\ ~full'[x] /\ todo' \in [Actor -> [Path -> 0 .. MaxVersion]] /\ full' \in [Actor -> BOOLEAN]
    BY <1>3, RenderedIs
<1>7. \A y \in Actor : (Busy(y)' => Left(y)' # {}) /\ (full'[y] => Busy(y)')
    BY <1>1, <1>5, <1>6, LeftKept DEF DiskOK
<1>8. \A w, v \in Writer : Busy(w)' /\ Busy(v)' => w = v
    BY <1>1, <1>5 DEF DiskOK, Actor
<1>9. DiskOK'
    BY <1>1, <1>2, <1>3, <1>4, <1>6, <1>7, <1>8 DEF DiskOK
<1>10. QED
    BY <1>2, <1>3, <1>4, <1>5, <1>6, <1>9

\* A render changes no command, but for disturbing it or ending it.
LEMMA RenderRun ==
    ASSUME Shape, NEW x \in Actor, Left(x) # {}, \A y \in Actor \ {x} : todo'[y] = todo[y],
           \/ UNCHANGED run
           \/ run' = Noise(x)
           \/ run' = IF x \in Command /\ run[x].mode = "look" THEN [Disturbed EXCEPT ![x].mode = "aborted"] ELSE Disturbed
    PROVE  RunOK'
<1>1. RunOK /\ \A k \in Command : run[k].mode = "write" => k # x /\ Left(k)' = Left(k)
    BY LeftKept DEF Shape, RunOK, Actor
<1>2. CASE UNCHANGED run
    BY <1>1, <1>2 DEF RunOK
<1>3. CASE run' = Noise(x)
    <2>1. run' \in [Command -> Run] /\ \A k \in Command : run'[k].mode = run[k].mode /\ run'[k].left = run[k].left
        BY <1>1, <1>3, DisturbedIs DEF Noise, RunOK
    <2>2. QED
        BY <1>1, <2>1 DEF RunOK
<1>4. CASE run' = Disturbed
    BY <1>1, <1>4, DisturbedIs DEF RunOK
<1>5. CASE x \in Command /\ run' = [Disturbed EXCEPT ![x].mode = "aborted"]
    <2>1. Disturbed[x] \in Run /\ [Disturbed[x] EXCEPT !.mode = "aborted"] \in Run
          /\ [Disturbed[x] EXCEPT !.mode = "aborted"].mode = "aborted"
        BY <1>1, <1>5, DisturbedIs DEF Run
    <2>2. run' = [Disturbed EXCEPT ![x] = [Disturbed[x] EXCEPT !.mode = "aborted"]]
        BY <1>5
    <2>3. run' \in [Command -> Run] /\ run'[x].mode = "aborted" /\ \A k \in Command \ {x} : run'[k] = Disturbed[k]
        BY <1>1, <1>5, <2>1, <2>2, DisturbedIs
    <2>4. QED
        BY <1>1, <2>3, DisturbedIs DEF RunOK
<1>6. QED
    BY <1>2, <1>3, <1>4, <1>5

\* The initial state.
LEMMA InitShape == RenderingInit => Shape
<1> SUFFICES ASSUME RenderingInit PROVE Shape
    OBVIOUS
<1>1. 1 \in 0 .. MaxVersion /\ 0 \in 0 .. MaxVersion
    BY RenderingAssumption
<1>2. NoRun \in Run /\ NoRun.mode = "idle"
    BY <1>1 DEF NoRun, Run
<1>3. RunOK
    BY <1>2 DEF RenderingInit, RunOK
<1>4. \A x \in Actor : ~Busy(x)
    BY DEF RenderingInit, Busy
<1>5. \A w \in Writer : ~Busy(w)
    BY <1>4 DEF Actor
<1>6. DiskOK
    BY <1>1, <1>4, <1>5 DEF RenderingInit, DiskOK, Nothing
<1>7. QED
    BY <1>3, <1>6 DEF Shape

\* A walk and an import change their own command only.
LEMMA CommandShape ==
    ASSUME Shape, NEW k \in Command,
           \/ RenderAll(k) \/ (\E overwrite \in BOOLEAN : Ingest(k, overwrite)) \/ Look(k) \/ Unreadable(k) \/ Skip(k)
    PROVE  Shape' /\ UNCHANGED <<pages, renderVars>>
<1>1. UNCHANGED <<pages, renderVars>>
    BY DEF RenderAll, Ingest, Look, Unreadable, Skip
<1>2. DiskOK'
    BY <1>1, DiskKept DEF Shape
<1>3. UNCHANGED todo /\ RunOK /\ run[k] \in Run
    BY <1>1 DEF renderVars, Shape, RunOK
<1>4. CASE RenderAll(k)
    <2> DEFINE quiet == Quiet
               r == [run[k] EXCEPT !.mode = "walk", !.quiet = quiet]
    <2>1. quiet \in BOOLEAN /\ run' = [run EXCEPT ![k] = r]
        BY <1>4 DEF RenderAll, Quiet
    <2> HIDE DEF quiet
    <2>2. r \in Run /\ r.mode = "walk"
        BY <1>3, <2>1 DEF Run
    <2> HIDE DEF r
    <2>3. RunOK'
        BY <1>3, <2>1, <2>2, RunChanged
    <2>4. QED
        BY <1>1, <1>2, <2>3 DEF Shape
<1>5. ASSUME NEW overwrite \in BOOLEAN, Ingest(k, overwrite) PROVE Shape' /\ UNCHANGED <<pages, renderVars>>
    <2> DEFINE r == [run[k] EXCEPT !.mode = "look", !.overwrite = overwrite, !.left = Wiki]
    <2>1. run' = [run EXCEPT ![k] = r]
        BY <1>5 DEF Ingest
    <2>2. r \in Run /\ r.mode = "look"
        BY <1>3 DEF Run
    <2> HIDE DEF r
    <2>3. RunOK'
        BY <1>3, <2>1, <2>2, RunChanged
    <2>4. QED
        BY <1>1, <1>2, <2>3 DEF Shape
<1>6. CASE Look(k)
    <2> DEFINE p == First(run[k].left)
               quiet == run[k].imported /\ Quiet
               r1 == [run[k] EXCEPT !.mode = IF run[k].imported THEN "walk" ELSE "over", !.quiet = quiet]
               r2 == [run[k] EXCEPT !.left = @ \ {p}]
               r3 == [run[k] EXCEPT !.mode = "write", !.seen = pages[p]]
    <2>1. run[k].mode = "look" /\ Left(k) = {}
        BY <1>6 DEF Look
    <2>2. \/ run' = [run EXCEPT ![k] = r1]
          \/ run[k].left # {} /\ run' = [run EXCEPT ![k] = r2]
          \/ run[k].left # {} /\ run' = [run EXCEPT ![k] = r3]
        BY <1>6 DEF Look
    <2>3. quiet \in BOOLEAN
        BY <1>3 DEF Run
    <2>4. run[k].left \in SUBSET Path
        BY <1>3 DEF Run, Path
    <2>5. run[k].left # {} => pages[p] \in 0 .. MaxVersion
        BY <2>4, FirstIs DEF Shape, DiskOK
    <2> HIDE DEF p, quiet
    <2>6. r1 \in Run /\ r1.mode # "write" /\ r2 \in Run /\ r2.mode = "look"
        BY <1>3, <2>1, <2>3 DEF Run
    <2>7. run[k].left # {} => r3 \in Run /\ r3.left = run[k].left
        BY <1>3, <2>5 DEF Run
    <2> HIDE DEF r1, r2, r3
    <2>8. RunOK'
        BY <1>3, <2>1, <2>2, <2>6, <2>7, RunChanged
    <2>9. QED
        BY <1>1, <1>2, <2>8 DEF Shape
<1>7. CASE Unreadable(k)
    <2> DEFINE r == [run[k] EXCEPT !.mode = "aborted"]
    <2>1. run' = [run EXCEPT ![k] = r] /\ r \in Run /\ r.mode = "aborted"
        BY <1>3, <1>7 DEF Unreadable, Run
    <2> HIDE DEF r
    <2>2. RunOK'
        BY <1>3, <2>1, RunChanged
    <2>3. QED
        BY <1>1, <1>2, <2>2 DEF Shape
<1>8. CASE Skip(k)
    <2> DEFINE left == run[k].left \ {First(run[k].left)}
               r == [run[k] EXCEPT !.mode = "look", !.left = left, !.seen = 0]
    <2>0. run' = [run EXCEPT ![k] = r]
        BY <1>8 DEF Skip
    <2>1. left \in SUBSET Wiki /\ 0 \in 0 .. MaxVersion
        <3>1. run[k].left \in SUBSET Wiki
            BY <1>3 DEF Run
        <3>2. QED
            BY <3>1, RenderingAssumption
    <2> HIDE DEF left
    <2>2. r \in Run /\ r.mode = "look"
        BY <1>3, <2>1 DEF Run
    <2> HIDE DEF r
    <2>3. RunOK'
        BY <1>3, <2>0, <2>2, RunChanged
    <2>4. QED
        BY <1>1, <1>2, <2>3 DEF Shape
<1>9. QED
    BY <1>4, <1>5, <1>6, <1>7, <1>8

\* An import commits a page of the wiki, or ends the command.
LEMMA ImportIs ==
    ASSUME Shape, NEW k \in Command, Import(k)
    PROVE  /\ Shape'
           /\ \/ UNCHANGED <<pages, renderVars>> /\ run'[k].mode = "aborted" /\ \A j \in Command \ {k} : run'[j] = run[j]
              \/ /\ \E p \in Wiki : CommitBy(k, p)
                 /\ Left(k) = {} /\ UNCHANGED <<file, tmp, fd, full, mixed>> /\ \A j \in Command : ~run'[j].quiet
<1> DEFINE p == First(run[k].left)
<1>1. RunOK /\ run[k] \in Run /\ run[k].mode = "write" /\ run[k].left # {} /\ Left(k) = {}
    BY DEF Shape, RunOK, Import
<1>2. run[k].left \in SUBSET Path /\ run[k].left \subseteq Wiki
    BY <1>1 DEF Run, Path
<1>3. p \in Wiki /\ p \in Path
    BY <1>1, <1>2, FirstIs
<1>4. CASE UNCHANGED <<pages, renderVars>> /\ run' = [run EXCEPT ![k].mode = "aborted"]
    <2> DEFINE r == [run[k] EXCEPT !.mode = "aborted"]
    <2>1. run' = [run EXCEPT ![k] = r] /\ r \in Run /\ r.mode = "aborted"
        BY <1>1, <1>4 DEF Run
    <2> HIDE DEF r
    <2>2. RunOK'
        BY <1>1, <1>4, <2>1, RunChanged DEF renderVars
    <2>3. run'[k].mode = "aborted" /\ \A j \in Command \ {k} : run'[j] = run[j]
        BY <1>1, <2>1 DEF RunOK
    <2>4. QED
        BY <1>4, <2>2, <2>3, DiskKept DEF Shape
<1>5. CASE /\ CommitBy(k, p) /\ UNCHANGED <<file, tmp, fd, full, mixed>>
           /\ run' = [Disturbed EXCEPT ![k].mode = "look", ![k].left = @ \ {p}, ![k].seen = 0, ![k].imported = TRUE]
    <2> DEFINE left == Disturbed[k].left \ {p}
               r == [Disturbed[k] EXCEPT !.mode = "look", !.left = left, !.seen = 0, !.imported = TRUE]
    <2>1. run' = [Disturbed EXCEPT ![k] = r]
        BY <1>5
    <2>2. Disturbed \in [Command -> Run] /\ Disturbed[k] \in Run /\ ~Disturbed[k].quiet /\ 0 \in 0 .. MaxVersion
        <3>1. Disturbed \in [Command -> Run] /\ Disturbed[k].quiet = FALSE
            BY <1>1, DisturbedIs
        <3>2. 0 \in 0 .. MaxVersion
            BY RenderingAssumption
        <3>3. QED
            BY <3>1, <3>2
    <2>3. left \in SUBSET Wiki
        BY <2>2 DEF Run
    <2> HIDE DEF p, left
    <2>4. r \in Run /\ r.mode = "look" /\ ~r.quiet
        BY <2>2, <2>3 DEF Run
    <2> HIDE DEF r
    <2>5. run' \in [Command -> Run] /\ run'[k] = r /\ \A j \in Command \ {k} : run'[j] = Disturbed[j]
        BY <2>1, <2>2, <2>4
    <2>6. DiskOK' /\ \A y \in Actor \ {k} : todo'[y] = todo[y]
        BY <1>1, <1>3, <1>5, CommitDisk DEF Actor
    <2>7. ASSUME NEW j \in Command, run'[j].mode = "write" PROVE run'[j].left # {} /\ Left(j)' = {}
        <3>1. j # k /\ run'[j] = Disturbed[j]
            BY <2>4, <2>5, <2>7
        <3>2. run[j].mode = "write" /\ run'[j].left = run[j].left
            BY <1>1, <2>7, <3>1, DisturbedIs
        <3>3. Left(j)' = Left(j)
            BY <2>6, <3>1, LeftKept DEF Actor
        <3>4. QED
            BY <1>1, <3>2, <3>3 DEF RunOK
    <2>8. RunOK'
        BY <2>5, <2>7 DEF RunOK
    <2>9. \A j \in Command : ~run'[j].quiet
        BY <1>1, <2>4, <2>5, DisturbedIs
    <2>10. QED
        BY <1>1, <1>3, <1>5, <2>6, <2>8, <2>9 DEF Shape
<1>6. QED
    BY <1>4, <1>5 DEF Import

\* A statement of a walk reads the next rows, without a gap, or ends it.
LEMMA FetchIs ==
    ASSUME Shape, NEW k \in Command, Fetch(k)
    PROVE  /\ Shape' /\ run[k].mode = "walk" /\ Left(k) = {}
           /\ UNCHANGED <<pages, file, tmp, fd, full, late, mixed>>
           /\ \A y \in Actor \ {k} : todo'[y] = todo[y]
           /\ \A j \in Command \ {k} : run'[j] = run[j]
           /\ run'[k].quiet = run[k].quiet
           /\ \/ /\ UNCHANGED todo /\ run'[k].mode = "over"
                 /\ run[k].last \/ \A p \in Present : p <= run[k].cursor
              \/ /\ run'[k].mode = "walk"
                 /\ \A p \in Path : todo'[k][p] \in {0, pages[p]}
                 /\ \A p \in Present : p > run[k].cursor /\ (run'[k].last \/ p <= run'[k].cursor) => p \in Left(k)'
<1> DEFINE rows == NextRows(k)
           few == Cardinality(rows) < Batch
           last == CHOOSE p \in rows : \A q \in rows : q <= p
<1>1. Shape /\ run[k] \in Run /\ run[k].mode = "walk" /\ Left(k) = {} /\ k \in Actor
    BY DEF Shape, RunOK, Fetch, Actor
<1>2. UNCHANGED <<pages, file, tmp, fd, full, late, mixed>>
    BY DEF Fetch
<1>3. Ahead(k) \in SUBSET Path /\ Ahead(k) \subseteq Present
    BY DEF Ahead, Present
<1>4. /\ rows \subseteq Ahead(k) /\ IsFiniteSet(rows)
      /\ \A p \in Ahead(k), r \in rows : p <= r => p \in rows
      /\ few => rows = Ahead(k)
    BY <1>3, RowsCover DEF NextRows
<1>5. rows = {} => few
    BY FS_EmptySet, RenderingAssumption
<1>6. PICK c \in Nat : c = run[k].cursor
    <2>1. run[k].cursor \in {0} \cup Path
        BY <1>1 DEF Run
    <2>2. QED
        BY <2>1, PathsAreNumbers
<1>7. CASE (run[k].last \/ rows = {}) /\ run' = [run EXCEPT ![k].mode = "over"] /\ UNCHANGED todo
    <2> DEFINE r == [run[k] EXCEPT !.mode = "over"]
    <2>1. run' = [run EXCEPT ![k] = r] /\ r \in Run /\ r.mode = "over" /\ r.quiet = run[k].quiet
        BY <1>1, <1>7 DEF Run
    <2> HIDE DEF r
    <2>2. RunOK'
        BY <1>1, <1>7, <2>1, RunChanged DEF Shape
    <2>3. run'[k] = r /\ \A j \in Command \ {k} : run'[j] = run[j]
        BY <2>1 DEF Shape, RunOK
    <2>4. run[k].last \/ \A p \in Present : p <= run[k].cursor
        <3>1. rows = {} => Ahead(k) = {}
            BY <1>4, <1>5
        <3>2. Ahead(k) = {} => \A p \in Present : p <= run[k].cursor
            <4>1. \A p \in Path : p \in Nat
                BY PathsAreNumbers
            <4>2. \A p \in Present : p > c => p \in Ahead(k)
                BY <1>6 DEF Ahead
            <4>3. QED
                BY <1>6, <4>1, <4>2 DEF Present
        <3>3. QED
            BY <1>7, <3>1, <3>2
    <2>5. DiskOK'
        BY <1>2, <1>7, DiskKept DEF Shape, renderVars
    <2>6. QED
        BY <1>1, <1>2, <1>7, <2>1, <2>2, <2>3, <2>4, <2>5 DEF Shape
<1>8. CASE /\ ~run[k].last /\ rows # {} /\ Read(k, rows)
           /\ run' = [run EXCEPT ![k].cursor = last, ![k].last = few]
    <2> DEFINE r == [run[k] EXCEPT !.cursor = last, !.last = few]
    <2>1. last \in rows /\ \A q \in rows : q <= last
        BY <1>3, <1>4, <1>8, LastIs
    <2>2. run' = [run EXCEPT ![k] = r] /\ few \in BOOLEAN /\ last \in Path
        <3> few \in BOOLEAN
            OBVIOUS
        <3> HIDE DEF few, last
        <3>1. run' = [run EXCEPT ![k] = r]
            BY <1>8
        <3>2. last \in Path
            BY <1>3, <1>4, <2>1
        <3>3. QED
            BY <3>1, <3>2
    <2>3. todo' = [todo EXCEPT ![k] = [p \in Path |-> IF p \in rows THEN pages[p] ELSE 0]]
        BY <1>8 DEF Read
    <2>4. few => rows = Ahead(k)
        BY <1>4
    <2> HIDE DEF last, few, rows
    <2>5. r \in Run /\ r.mode = "walk" /\ r.cursor = last /\ r.last = few /\ r.quiet = run[k].quiet
        BY <1>1, <2>2 DEF Run
    <2> HIDE DEF r
    <2>6. run' \in [Command -> Run] /\ run'[k] = r /\ \A j \in Command \ {k} : run'[j] = run[j]
        BY <2>2, <2>5 DEF Shape, RunOK
    <2>7. /\ todo' \in [Actor -> [Path -> 0 .. MaxVersion]]
          /\ \A p \in Path : todo'[k][p] = IF p \in rows THEN pages[p] ELSE 0
          /\ \A y \in Actor \ {k} : todo'[y] = todo[y]
        BY <1>1, <2>3, RenderingAssumption DEF Shape, DiskOK
    <2>8. RunOK'
        <3>1. ASSUME NEW j \in Command, run'[j].mode = "write" PROVE run'[j].left # {} /\ Left(j)' = {}
            <4>1. j # k /\ run'[j] = run[j]
                BY <2>5, <2>6, <3>1
            <4>2. Left(j)' = Left(j)
                BY <2>7, <4>1, LeftKept DEF Actor
            <4>3. QED
                BY <3>1, <4>1, <4>2 DEF Shape, RunOK
        <3>2. QED
            BY <2>6, <3>1 DEF RunOK
    <2>9. ~Busy(k) /\ ~full[k]
        BY <1>1 DEF Shape, DiskOK
    <2>10. DiskOK'
        <3>1. \A y \in Actor : (Busy(y)' => Left(y)' # {}) /\ (full'[y] => Busy(y)')
            BY <1>2, <2>7, <2>9 DEF Shape, DiskOK, Busy, Left
        <3>2. QED
            BY <1>2, <2>7, <3>1 DEF Shape, DiskOK, Busy
    <2>11. ASSUME NEW p \in Present, p > run[k].cursor, run'[k].last \/ p <= run'[k].cursor PROVE p \in Left(k)'
        <3>1. p \in Ahead(k) /\ p \in Path /\ pages[p] # 0
            BY <2>11 DEF Ahead, Present
        <3>2. p \in rows
            BY <1>4, <2>1, <2>4, <2>5, <2>6, <2>11, <3>1 DEF rows
        <3>3. QED
            BY <2>7, <3>1, <3>2 DEF Left
    <2>12. QED
        BY <1>1, <1>2, <2>5, <2>6, <2>7, <2>8, <2>10, <2>11 DEF Shape
<1>9. QED
    BY <1>7, <1>8 DEF Fetch

\* A step beside all commands that changes no row of theirs.
LEMMA DisturbedRun ==
    ASSUME RunOK, run' = Disturbed, \A k \in Command : todo'[k] = todo[k]
    PROVE  RunOK'
BY DisturbedIs, LeftKept DEF RunOK

\* A commit of a handler.
LEMMA WriteShape == ASSUME Shape, NEW w \in Writer, NEW p \in Wiki, Write(w, p) PROVE Shape'
<1>1. CommitBy(w, p) /\ Left(w) = {} /\ UNCHANGED <<file, tmp, fd, full, mixed>> /\ run' = Disturbed
    BY DEF Write
<1>2. w \in Actor /\ p \in Path /\ \A k \in Command : k \in Actor /\ k # w
    BY RenderingAssumption DEF Actor, Path
<1>3. DiskOK' /\ \A k \in Command : todo'[k] = todo[k]
    BY <1>1, <1>2, CommitDisk
<1>4. QED
    BY <1>1, <1>3, DisturbedRun DEF Shape

\* A write or a deletion of a page of an extension.
LEMMA ExtShape ==
    ASSUME Shape, NEW p \in Ext, Embed(p) \/ Delete(p)
    PROVE  /\ Shape' /\ UNCHANGED renderVars /\ run' = Disturbed
           /\ \A q \in Wiki : pages'[q] = pages[q]
<1>1. UNCHANGED renderVars /\ run' = Disturbed
    BY DEF Embed, Delete
<1>2. pages[p] \in 0 .. MaxVersion /\ 0 \in 0 .. MaxVersion /\ p \in Path
    BY RenderingAssumption DEF Shape, DiskOK, Path
<1>3. \E v \in 0 .. MaxVersion : pages' = [pages EXCEPT ![p] = v]
    BY <1>2, RenderingAssumption DEF Embed, Delete, Put
<1>4. pages' \in [Path -> 0 .. MaxVersion] /\ \A q \in Path \ {p} : pages'[q] = pages[q]
    BY <1>3 DEF Shape, DiskOK
<1>5. \A q \in Wiki : q \in Path \ {p}
    BY RenderingAssumption DEF Path
<1>6. DiskOK'
    BY <1>1, <1>4 DEF Shape, DiskOK, renderVars, Busy, Left
<1>7. RunOK'
    BY <1>1, DisturbedRun DEF Shape, renderVars
<1>8. QED
    BY <1>1, <1>4, <1>5, <1>6, <1>7 DEF Shape

\* Every step keeps Shape.
LEMMA NextShape == Shape /\ [RenderingNext]_renderingVars => Shape'
<1> SUFFICES ASSUME Shape, [RenderingNext]_renderingVars PROVE Shape'
    OBVIOUS
<1>1. ASSUME NEW x \in Actor, Open(x) \/ Fill(x) \/ Rename(x) PROVE Shape'
    <2>1. Left(x) # {} /\ DiskOK' /\ \A y \in Actor \ {x} : todo'[y] = todo[y]
        BY <1>1, OpenIs, FillIs, RenameIs
    <2>2. UNCHANGED run \/ run' = Noise(x)
        BY <1>1 DEF Open, Fill, Rename
    <2>3. QED
        BY <2>1, <2>2, RenderRun DEF Shape
<1>2. ASSUME NEW x \in Actor, RenameFails(x) \/ RenderFails(x) PROVE Shape'
    <2>1. Left(x) # {} /\ GivenUp(x) /\ UNCHANGED <<pages, file, tmp, mixed>>
        BY <1>2 DEF RenameFails, RenderFails, Shape, DiskOK
    <2>2. DiskOK' /\ \A y \in Actor \ {x} : todo'[y] = todo[y]
        BY <2>1, GivenUpIs
    <2>3. QED
        BY <2>1, <2>2, RenderRun DEF Shape, GivenUp
<1>3. ASSUME NEW k \in Command, RunCommand(k) PROVE Shape'
    BY <1>3, CommandShape, ImportIs, FetchIs DEF RunCommand
<1>4. CASE UNCHANGED renderingVars
    BY <1>4 DEF renderingVars, renderVars, Shape, DiskOK, RunOK, Busy, Left
<1>5. QED
    BY <1>1, <1>2, <1>3, <1>4, WriteShape, ExtShape DEF RenderingNext, Render

\* Shape holds in every reachable state.
LEMMA ShapeAlways == RenderingSpec => []Shape
BY InitShape, NextShape, PTL DEF RenderingSpec

(***************************************************************************)
(* The variables keep their types, and the handlers of the master render   *)
(* one after the other (render_to_disk runs without an await).             *)
(***************************************************************************)
THEOREM RenderingTypeCorrect == RenderingSpec => []RenderingTypeOK
<1>1. Shape => RenderingTypeOK
    BY DEF Shape, DiskOK, RunOK, RenderingTypeOK
<1>2. QED
    BY <1>1, ShapeAlways, PTL

-----------------------------------------------------------------------------
(* Complete files.                                                          *)

\* Who has a page open alone has written nothing to its temporary file, or all.
Sound(x, p) == fd[x] = "tmp" /\ tmp[p] = IF full[x] THEN todo[x][p] ELSE Empty

Alone(p) == \A x, y \in Opened(p) : x = y

WholeAt(p) ==
    p \notin mixed => file[p] \notin {Empty, Torn} /\ Alone(p) /\ \A x \in Opened(p) : Sound(x, p)

Whole == \A p \in Path : WholeAt(p)

\* A step that touches neither the files nor what is open.
LEMMA WholeKept ==
    ASSUME Shape, Whole, UNCHANGED <<file, tmp, fd, full, mixed>>, \A x \in Actor : Busy(x) => todo'[x] = todo[x]
    PROVE  Whole'
<1> SUFFICES ASSUME NEW p \in Path PROVE WholeAt(p)'
    BY DEF Whole
<1>1. \A x \in Actor : Busy(x)' <=> Busy(x)
    BY DEF Busy
<1>2. Opened(p)' = Opened(p)
    BY <1>1, LeftKept DEF Opened
<1>3. \A x \in Opened(p) : todo'[x] = todo[x]
    BY DEF Opened
<1>4. WholeAt(p)
    BY DEF Whole
<1>5. QED
    BY <1>2, <1>3, <1>4 DEF WholeAt, Alone, Sound

\* The effect of a render on who has what open.
LEMMA OpenedOpen ==
    ASSUME Shape, NEW x \in Actor, Open(x), NEW p \in Path
    PROVE  Opened(p)' = IF p = Target(x) THEN Opened(p) \cup {x} ELSE Opened(p)
<1>1. ~Busy(x) /\ fd'[x] = "tmp" /\ UNCHANGED todo /\ \A y \in Actor \ {x} : fd'[y] = fd[y]
    BY OpenIs
<1>2. \A y \in Actor : (Busy(y)' <=> y = x \/ Busy(y)) /\ Target(y)' = Target(y)
    BY <1>1, OpenIsBusy, LeftKept DEF Busy
<1>3. QED
    BY <1>1, <1>2 DEF Opened

LEMMA OpenedFill ==
    ASSUME Shape, NEW x \in Actor, Fill(x), NEW p \in Path
    PROVE  Opened(p)' = Opened(p)
<1>1. UNCHANGED <<todo, fd>>
    BY FillIs
<1>2. QED
    BY <1>1, LeftKept DEF Opened, Busy

LEMMA OpenedClose ==
    ASSUME Shape, NEW x \in Actor, Left(x) # {}, ~Busy(x)', NEW p \in Path,
           \A y \in Actor \ {x} : (Busy(y)' <=> Busy(y)) /\ todo'[y] = todo[y]
    PROVE  Opened(p)' = Opened(p) \ {x}
BY LeftKept DEF Opened

\* Every step keeps Whole.
LEMMA NextWhole == Shape /\ Whole /\ [RenderingNext]_renderingVars => Whole'
<1> SUFFICES ASSUME Shape, Whole, [RenderingNext]_renderingVars PROVE Whole'
    OBVIOUS
<1>1. ASSUME NEW x \in Actor, Open(x) PROVE Whole'
    <2> SUFFICES ASSUME NEW p \in Path, p \notin mixed' PROVE WholeAt(p)'
        BY DEF Whole, WholeAt
    <2>1. /\ p \notin mixed /\ file' = file /\ full' = full /\ todo' = todo /\ WholeAt(p)
        BY <1>1, OpenIs DEF Whole
    <2>2. CASE p = Target(x)
        <3>1. Opened(p)' = {x}
            BY <1>1, <2>2, OpenIs, OpenedOpen
        <3>2. Sound(x, p)'
            BY <1>1, <2>2, OpenIs DEF Sound
        <3>3. QED
            BY <2>1, <3>1, <3>2 DEF WholeAt, Alone
    <2>3. CASE p # Target(x)
        <3>1. Opened(p)' = Opened(p) /\ tmp'[p] = tmp[p] /\ x \notin Opened(p)
            BY <1>1, <2>3, OpenIs, OpenedOpen DEF Opened
        <3>2. \A y \in Opened(p) : Sound(y, p) => Sound(y, p)'
            BY <1>1, <2>1, <3>1, OpenIs DEF Sound, Opened
        <3>3. QED
            BY <2>1, <3>1, <3>2 DEF WholeAt, Alone
    <2>4. QED
        BY <2>2, <2>3
<1>2. ASSUME NEW x \in Actor, Fill(x) PROVE Whole'
    <2> SUFFICES ASSUME NEW p \in Path, p \notin mixed' PROVE WholeAt(p)'
        BY DEF Whole, WholeAt
    <2>1. p \notin mixed /\ fd' = fd /\ todo' = todo /\ WholeAt(p) /\ Opened(p)' = Opened(p)
        BY <1>2, FillIs, OpenedFill DEF Whole
    <2>2. CASE p = Target(x)
        <3>1. Opened(p) = {x} /\ Sound(x, p)
            BY <1>2, <2>1, <2>2, FillIs DEF WholeAt, Alone, Opened
        <3>2. file' = file /\ tmp'[p] \in Over(Empty, todo[x][p]) /\ full'[x]
            BY <1>2, <2>2, <3>1, FillIs DEF Sound
        <3>3. Sound(x, p)'
            BY <2>1, <3>1, <3>2 DEF Sound, Over
        <3>4. QED
            BY <2>1, <3>1, <3>2, <3>3 DEF WholeAt, Alone
    <2>3. CASE p # Target(x)
        <3>1. tmp'[p] = tmp[p] /\ file'[p] = file[p] /\ x \notin Opened(p)
            BY <1>2, <2>3, FillIs DEF Opened
        <3>2. \A y \in Opened(p) : Sound(y, p) => Sound(y, p)'
            BY <1>2, <2>1, <3>1, FillIs DEF Sound, Opened
        <3>3. QED
            BY <2>1, <3>1, <3>2 DEF WholeAt, Alone
    <2>4. QED
        BY <2>2, <2>3
<1>3. ASSUME NEW x \in Actor, Rename(x) PROVE Whole'
    <2> SUFFICES ASSUME NEW p \in Path, p \notin mixed' PROVE WholeAt(p)'
        BY DEF Whole, WholeAt
    <2>1. Opened(p)' = Opened(p) \ {x} /\ WholeAt(p) /\ x \in Opened(Target(x)) /\ Left(x) # {}
        BY <1>3, RenameIs, OpenedClose DEF Whole, Opened
    <2>2. CASE p = Target(x)
        <3>1. CASE p \notin mixed
            <4>1. Opened(p) = {x} /\ Sound(x, p)
                BY <2>1, <2>2, <3>1 DEF WholeAt, Alone
            <4>2. file'[p] = todo[x][p] /\ todo[x][p] \in 1 .. MaxVersion
                BY <1>3, <2>1, <2>2, <4>1, RenameIs, TargetIs DEF Sound, Shape
            <4>3. QED
                BY <2>1, <4>1, <4>2, RenderingAssumption DEF WholeAt, Alone, Empty, Torn
        <3>2. CASE p \in mixed
            <4>1. Opened(p) = {x} /\ file'[p] \notin {Empty, Torn}
                BY <1>3, <2>2, <3>2, RenameIs
            <4>2. QED
                BY <2>1, <4>1 DEF WholeAt, Alone
        <3>3. QED
            BY <3>1, <3>2
    <2>3. CASE p # Target(x)
        <3>1. p \notin mixed /\ tmp'[p] = tmp[p] /\ file'[p] = file[p] /\ x \notin Opened(p)
            BY <1>3, <2>3, RenameIs DEF Opened
        <3>2. ASSUME NEW y \in Opened(p), Sound(y, p) PROVE Sound(y, p)'
            <4>1. y \in Actor \ {x} /\ y \notin Opened(Target(x))
                BY <2>3, <3>1 DEF Opened
            <4>2. fd'[y] = fd[y] /\ todo'[y] = todo[y] /\ full'[y] = full[y]
                BY <1>3, <4>1, RenameIs
            <4>3. QED
                BY <3>1, <3>2, <4>2 DEF Sound
        <3>3. QED
            BY <2>1, <3>1, <3>2 DEF WholeAt, Alone
    <2>4. QED
        BY <2>2, <2>3
<1>4. ASSUME NEW x \in Actor, RenameFails(x) \/ RenderFails(x) PROVE Whole'
    <2> SUFFICES ASSUME NEW p \in Path, p \notin mixed' PROVE WholeAt(p)'
        BY DEF Whole, WholeAt
    <2>1. Left(x) # {} /\ GivenUp(x) /\ UNCHANGED <<pages, file, tmp, mixed>>
        BY <1>4 DEF RenameFails, RenderFails, Shape, DiskOK
    <2>2. ~Busy(x)' /\ \A y \in Actor \ {x} : fd'[y] = fd[y] /\ todo'[y] = todo[y] /\ full'[y] = full[y]
        BY <2>1, GivenUpIs
    <2>3. Opened(p)' = Opened(p) \ {x} /\ WholeAt(p)
        BY <2>1, <2>2, OpenedClose DEF Whole, Busy
    <2>4. \A y \in Opened(p) \ {x} : Sound(y, p) => Sound(y, p)'
        BY <2>1, <2>2 DEF Sound, Opened
    <2>5. QED
        BY <2>1, <2>3, <2>4 DEF WholeAt, Alone
<1>5. ASSUME NEW w \in Writer, NEW p \in Wiki, Write(w, p) PROVE Whole'
    <2>1. w \in Actor /\ p \in Path
        BY DEF Actor, Path
    <2>2. CommitBy(w, p) /\ Left(w) = {} /\ UNCHANGED <<file, tmp, fd, full, mixed>>
        BY <1>5 DEF Write
    <2>3. ~Busy(w) /\ \A y \in Actor \ {w} : todo'[y] = todo[y]
        BY <2>1, <2>2, CommitDisk
    <2>4. QED
        BY <2>2, <2>3, WholeKept
<1>6. ASSUME NEW p \in Ext, Embed(p) \/ Delete(p) PROVE Whole'
    BY <1>6, ExtShape, WholeKept DEF renderVars
<1>7. ASSUME NEW k \in Command, Fetch(k) PROVE Whole'
    <2>1. k \in Actor /\ UNCHANGED <<file, tmp, fd, full, mixed>> /\ Left(k) = {} /\ \A y \in Actor \ {k} : todo'[y] = todo[y]
        BY <1>7, FetchIs DEF Actor
    <2>2. ~Busy(k)
        BY <2>1 DEF Shape, DiskOK
    <2>3. QED
        BY <2>1, <2>2, WholeKept
<1>8. ASSUME NEW k \in Command, Import(k) PROVE Whole'
    <2>1. CASE UNCHANGED <<pages, renderVars>>
        BY <2>1, WholeKept DEF renderVars
    <2>2. ASSUME NEW p \in Wiki, CommitBy(k, p), Left(k) = {}, UNCHANGED <<file, tmp, fd, full, mixed>> PROVE Whole'
        <3>1. k \in Actor /\ p \in Path
            BY DEF Actor, Path
        <3>2. ~Busy(k) /\ \A y \in Actor \ {k} : todo'[y] = todo[y]
            BY <2>2, <3>1, CommitDisk
        <3>3. QED
            BY <2>2, <3>2, WholeKept
    <2>3. QED
        BY <1>8, <2>1, <2>2, ImportIs
<1>9. ASSUME NEW k \in Command, RunCommand(k), ~Fetch(k), ~Import(k) PROVE Whole'
    BY <1>9, CommandShape, WholeKept DEF RunCommand, renderVars
<1>10. CASE UNCHANGED renderingVars
    BY <1>10, WholeKept DEF renderingVars, renderVars
<1>11. QED
    BY <1>1, <1>2, <1>3, <1>4, <1>5, <1>6, <1>7, <1>8, <1>9, <1>10 DEF RenderingNext, Render

\* Whole holds in every reachable state.
LEMMA WholeAlways == RenderingSpec => []Whole
<1>1. RenderingInit => Whole
    <2> SUFFICES ASSUME RenderingInit PROVE Whole
        OBVIOUS
    <2>1. \A p \in Path : Opened(p) = {}
        BY DEF RenderingInit, Opened, Busy
    <2>2. ASSUME NEW p \in Path PROVE file[p] \notin {Empty, Torn}
        BY RenderingAssumption DEF RenderingInit, Empty, Torn
    <2>3. QED
        BY <2>1, <2>2 DEF Whole, WholeAt, Alone
<1>2. QED
    BY <1>1, NextWhole, ShapeAlways, PTL DEF RenderingSpec

(***************************************************************************)
(* Whoever reads a file finds a version of the page in it, for any number  *)
(* of handlers, commands and failures, unless two processes had the page   *)
(* open at once (the temporary file and os.replace of render_to_disk).     *)
(***************************************************************************)
THEOREM FilesAreWhole == RenderingSpec => []FilesAreComplete
<1>1. Whole => FilesAreComplete
    BY DEF Whole, WholeAt, FilesAreComplete
<1>2. QED
    BY <1>1, WholeAlways, PTL

-----------------------------------------------------------------------------
(* Current files.                                                           *)

CurrentAt(p) ==
    /\ file[p] # Nil /\ file[p] <= pages[p]
    /\ tmp[p] = Nil \/ tmp[p] <= pages[p]
    /\ \A x \in Actor : todo[x][p] <= pages[p]
    /\ p \notin late =>
        /\ \A x \in Pending(p) : todo[x][p] = pages[p]
        /\ Alone(p) => \A x \in Opened(p) : Sound(x, p) \/ (fd[x] # "tmp" /\ tmp[p] = Nil)
        /\ p \notin mixed /\ Pending(p) = {} => file[p] = pages[p]

Current == \A p \in Wiki : CurrentAt(p)

\* The types that CurrentAt is about.
LEMMA AtIs ==
    ASSUME Shape, NEW p \in Wiki
    PROVE  /\ p \in Path /\ pages[p] \in 0 .. MaxVersion /\ \A x \in Actor : todo[x][p] \in 0 .. MaxVersion
           /\ file[p] \in {Nil, Torn} \cup 0 .. MaxVersion /\ tmp[p] \in {Nil, Torn} \cup 0 .. MaxVersion
           /\ Empty \in 0 .. MaxVersion /\ Torn <= Empty /\ Torn # Nil /\ Nil \notin 0 .. MaxVersion
           /\ MaxVersion \in Nat /\ Torn \in Int
<1>1. p \in Path
    BY DEF Path
<1>2. Empty \in 0 .. MaxVersion /\ Torn <= Empty /\ Torn # Nil /\ Nil \notin 0 .. MaxVersion /\ MaxVersion \in Nat /\ Torn \in Int
    BY RenderingAssumption DEF Empty, Torn
<1>3. QED
    BY <1>1, <1>2 DEF Shape, DiskOK

\* Who has a page open has it to render.
LEMMA OpenedPending == ASSUME Shape, NEW p PROVE Opened(p) \subseteq Pending(p)
BY TargetIs DEF Shape, DiskOK, Opened, Pending

\* A step that changes nothing of a page.
LEMMA CurrentKept ==
    ASSUME NEW p, CurrentAt(p), pages'[p] = pages[p], UNCHANGED <<file, tmp, todo, fd, full, late, mixed>>
    PROVE  CurrentAt(p)'
<1>1. Pending(p)' = Pending(p) /\ Opened(p)' = Opened(p)
    BY LeftKept DEF Pending, Opened, Busy, Left
<1>2. QED
    BY <1>1 DEF CurrentAt, Alone, Sound

\* An open.
LEMMA OpenCurrent == ASSUME Shape, NEW p \in Wiki, CurrentAt(p), NEW x \in Actor, Open(x) PROVE CurrentAt(p)'
<1>1. /\ UNCHANGED <<pages, file, todo, full, late>> /\ mixed \subseteq mixed' /\ ~Busy(x) /\ ~full[x] /\ fd'[x] = "tmp"
      /\ \A y \in Actor \ {x} : fd'[y] = fd[y]
    BY OpenIs
<1>2. Pending(p)' = Pending(p)
    BY <1>1, LeftKept DEF Pending, Left
<1>3. Opened(p)' = IF p = Target(x) THEN Opened(p) \cup {x} ELSE Opened(p)
    BY AtIs, OpenedOpen
<1>4. x \notin Opened(p)
    BY <1>1 DEF Opened
<1>5. CASE p = Target(x)
    <2>1. tmp'[p] = Empty /\ Empty <= pages[p]
        BY <1>5, OpenIs, AtIs DEF Empty
    <2>2. Sound(x, p)'
        BY <1>1, <2>1 DEF Sound
    <2>3. Alone(p)' => Opened(p)' = {x}
        BY <1>3, <1>5 DEF Alone
    <2>4. QED
        BY <1>1, <1>2, <2>1, <2>2, <2>3 DEF CurrentAt
<1>6. CASE p # Target(x)
    <2>1. tmp'[p] = tmp[p] /\ Opened(p)' = Opened(p)
        BY <1>3, <1>6, OpenIs, AtIs
    <2>2. \A y \in Opened(p) : Sound(y, p)' = Sound(y, p) /\ fd'[y] = fd[y]
        BY <1>1, <1>4, <2>1 DEF Sound, Opened
    <2>3. Alone(p)' = Alone(p)
        BY <2>1 DEF Alone
    <2>4. QED
        BY <1>1, <1>2, <2>1, <2>2, <2>3 DEF CurrentAt
<1>7. QED
    BY <1>5, <1>6

\* A write to an open file.
LEMMA FillCurrent == ASSUME Shape, NEW p \in Wiki, CurrentAt(p), NEW x \in Actor, Fill(x) PROVE CurrentAt(p)'
<1>1. UNCHANGED <<pages, todo, fd, late, mixed>> /\ ~full[x] /\ full'[x] /\ \A y \in Actor \ {x} : full'[y] = full[y]
    BY FillIs
<1>2. Pending(p)' = Pending(p) /\ Opened(p)' = Opened(p)
    BY <1>1, LeftKept, AtIs, OpenedFill DEF Pending, Left
<1>3. Alone(p)' = Alone(p)
    BY <1>2 DEF Alone
<1>4. CASE p = Target(x)
    <2>1. x \in Opened(p) /\ x \in Pending(p)
        BY <1>4, FillIs DEF Opened, Pending
    <2>2. PICK v : v = todo[x][p] /\ v <= pages[p] /\ v \in 0 .. MaxVersion
        BY AtIs DEF CurrentAt
    <2>3. \A old, c : c \in Over(old, v) => c # Nil /\ c <= pages[p]
        BY <2>2, AtIs DEF Over, Torn
    <2>4. \/ tmp'[p] \in Over(tmp[p], v) /\ file' = file /\ fd[x] = "tmp"
          \/ tmp' = tmp /\ file'[p] \in Over(file[p], v) \cup {file[p]} /\ fd[x] # "tmp"
        BY <1>4, <2>2, FillIs
    <2>5. file'[p] # Nil /\ file'[p] <= pages[p] /\ (tmp'[p] = Nil \/ tmp'[p] <= pages[p])
        BY <2>3, <2>4 DEF CurrentAt
    <2>6. ASSUME p \notin late, Alone(p) PROVE \A y \in Opened(p) : Sound(y, p)' \/ (fd[y] # "tmp" /\ tmp'[p] = Nil)
        <3>1. Opened(p) = {x} /\ (Sound(x, p) \/ (fd[x] # "tmp" /\ tmp[p] = Nil))
            BY <2>1, <2>6 DEF Alone, CurrentAt
        <3>2. Sound(x, p) => tmp'[p] \in Over(Empty, v)
            BY <1>1, <2>4, <3>1 DEF Sound
        <3>3. Sound(x, p) => Sound(x, p)'
            BY <1>1, <2>2, <3>2 DEF Sound, Over
        <3>4. QED
            BY <2>4, <3>1, <3>3
    <2>7. QED
        BY <1>1, <1>2, <1>3, <2>1, <2>5, <2>6 DEF CurrentAt
<1>5. CASE p # Target(x)
    <2>1. tmp'[p] = tmp[p] /\ file'[p] = file[p] /\ x \notin Opened(p)
        BY <1>5, FillIs, AtIs DEF Opened
    <2>2. \A y \in Opened(p) : Sound(y, p)' = Sound(y, p)
        BY <1>1, <2>1 DEF Sound, Opened
    <2>3. QED
        BY <1>1, <1>2, <1>3, <2>1, <2>2 DEF CurrentAt
<1>6. QED
    BY <1>4, <1>5

\* A rename: if nothing else is to render the page, its content is current,
\* or the page was late before.
LEMMA RenameCurrent ==
    ASSUME Shape, NEW p \in Wiki, WholeAt(p), CurrentAt(p), NEW x \in Actor, Rename(x)
    PROVE  CurrentAt(p)'
<1>1. /\ x \in Opened(Target(x)) /\ full[x] /\ pages' = pages /\ Left(x) # {}
      /\ \A y \in Actor \ {x} : todo'[y] = todo[y] /\ full'[y] = full[y]
    BY RenameIs DEF Opened
<1>2. todo'[x][Target(x)] = 0 /\ Left(x)' = Left(x) \ {Target(x)} /\ \A q \in Path \ {Target(x)} : todo'[x][q] = todo[x][q]
    BY <1>1, RenameIs, RenderedIs
<1>3. Opened(p)' = Opened(p) \ {x}
    BY <1>1, RenameIs, OpenedClose, AtIs
<1>4. Pending(p)' = IF p = Target(x) THEN Pending(p) \ {x} ELSE Pending(p)
    <2>1. \A y \in Actor \ {x} : Left(y)' = Left(y)
        BY <1>1, LeftKept
    <2>2. QED
        BY <1>2, <2>1 DEF Pending
<1>5. \A y \in Actor : todo'[y][p] <= pages[p]
    <2>1. todo'[x][p] <= pages[p]
        BY <1>2, AtIs DEF CurrentAt
    <2>2. QED
        BY <1>1, <2>1 DEF CurrentAt
<1>6. CASE p = Target(x)
    <2>1. /\ tmp[p] # Nil /\ file'[p] = tmp[p] /\ tmp'[p] = Nil /\ x \in Opened(p)
          /\ late' = IF Pending(p) = {x} /\ tmp[p] = pages[p] THEN late \ {p} ELSE late
          /\ mixed' = IF Opened(p) = {x} /\ tmp[p] \notin {Empty, Torn} THEN mixed \ {p} ELSE mixed
          /\ \A y \in Opened(p) \ {x} : fd'[y] # "tmp"
        BY <1>1, <1>6, RenameIs DEF Opened
    <2>2. file'[p] # Nil /\ file'[p] <= pages[p]
        BY <2>1 DEF CurrentAt
    <2>3. \A y \in Opened(p)' : fd'[y] # "tmp" /\ tmp'[p] = Nil
        BY <1>3, <2>1
    <2>4. x \in Pending(p) /\ Opened(p) \subseteq Pending(p)
        BY <2>1, OpenedPending
    <2>5. ASSUME p \notin late', NEW y \in Pending(p)' PROVE todo'[y][p] = pages[p]
        <3>1. y \in Pending(p) \ {x}
            BY <1>4, <1>6, <2>5
        <3>2. p \notin late /\ y \in Actor \ {x}
            BY <2>1, <2>5, <3>1 DEF Pending
        <3>3. QED
            BY <1>1, <3>1, <3>2 DEF CurrentAt
    <2>6. ASSUME p \notin late', p \notin mixed', Pending(p)' = {} PROVE file'[p] = pages[p]
        <3>1. Pending(p) = {x} /\ Opened(p) = {x}
            BY <1>4, <1>6, <2>1, <2>4, <2>6
        <3>2. CASE tmp[p] = pages[p]
            BY <2>1, <3>2
        <3>3. CASE tmp[p] # pages[p]
            <4>1. p \notin late
                BY <2>1, <2>6, <3>3
            <4>2. Sound(x, p) /\ todo[x][p] = pages[p]
                BY <2>1, <3>1, <4>1 DEF CurrentAt, Alone
            <4>3. QED
                BY <1>1, <2>1, <4>2 DEF Sound
        <3>4. QED
            BY <3>2, <3>3
    <2>7. QED
        BY <1>1, <1>5, <2>1, <2>2, <2>3, <2>5, <2>6 DEF CurrentAt
<1>7. CASE p # Target(x)
    <2>1. file'[p] = file[p] /\ tmp'[p] = tmp[p] /\ (p \in late' <=> p \in late) /\ (p \in mixed' <=> p \in mixed)
        BY <1>7, RenameIs, AtIs
    <2>2. x \notin Opened(p) /\ \A y \in Opened(p) : y \in Actor \ {x} /\ y \notin Opened(Target(x))
        BY <1>7 DEF Opened
    <2>3. \A y \in Opened(p) : fd'[y] = fd[y] /\ Sound(y, p)' = Sound(y, p)
        BY <1>1, <2>1, <2>2, RenameIs DEF Sound
    <2>4. Opened(p)' = Opened(p) /\ Pending(p)' = Pending(p)
        BY <1>3, <1>4, <1>7, <2>2
    <2>5. \A y \in Pending(p) : todo'[y][p] = todo[y][p]
        BY <1>1, <1>2, <1>7, AtIs DEF Pending
    <2>6. Alone(p)' = Alone(p)
        BY <2>4 DEF Alone
    <2>7. QED
        BY <1>1, <1>5, <2>1, <2>3, <2>4, <2>5, <2>6 DEF CurrentAt
<1>8. QED
    BY <1>6, <1>7

\* A render that is given up makes its page late.
LEMMA GivenUpCurrent ==
    ASSUME Shape, NEW p \in Wiki, CurrentAt(p), NEW x \in Actor, Left(x) # {}, GivenUp(x), UNCHANGED <<pages, file, tmp, mixed>>
    PROVE  CurrentAt(p)'
<1>1. /\ ~Busy(x)' /\ late' = late \cup {Target(x)}
      /\ \A y \in Actor \ {x} : fd'[y] = fd[y] /\ todo'[y] = todo[y] /\ full'[y] = full[y]
    BY GivenUpIs
<1>2. todo'[x][Target(x)] = 0 /\ Left(x)' = Left(x) \ {Target(x)} /\ \A q \in Path \ {Target(x)} : todo'[x][q] = todo[x][q]
    BY GivenUpIs, RenderedIs
<1>3. \A y \in Actor : todo'[y][p] <= pages[p]
    <2>1. todo'[x][p] <= pages[p]
        BY <1>2, AtIs DEF CurrentAt
    <2>2. QED
        BY <1>1, <2>1 DEF CurrentAt
<1>4. CASE p = Target(x)
    BY <1>1, <1>3, <1>4 DEF CurrentAt
<1>5. CASE p # Target(x)
    <2>1. Opened(p)' = Opened(p) /\ x \notin Opened(p)
        <3>1. \A y \in Actor \ {x} : (Busy(y)' <=> Busy(y)) /\ todo'[y] = todo[y]
            BY <1>1 DEF Busy
        <3>2. Opened(p)' = Opened(p) \ {x}
            BY <1>1, <3>1, OpenedClose, AtIs
        <3>3. QED
            BY <1>5, <3>2 DEF Opened
    <2>2. Pending(p)' = Pending(p)
        <3>1. \A y \in Actor \ {x} : Left(y)' = Left(y)
            BY <1>1, LeftKept
        <3>2. QED
            BY <1>2, <1>5, <3>1 DEF Pending
    <2>3. \A y \in Opened(p) : fd'[y] = fd[y] /\ Sound(y, p)' = Sound(y, p)
        BY <1>1, <2>1 DEF Sound, Opened
    <2>4. \A y \in Pending(p) : todo'[y][p] = todo[y][p]
        BY <1>1, <1>2, <1>5, AtIs DEF Pending
    <2>5. Alone(p)' = Alone(p) /\ (p \in late' <=> p \in late)
        BY <1>1, <1>5, <2>1 DEF Alone
    <2>6. QED
        BY <1>3, <2>1, <2>2, <2>3, <2>4, <2>5 DEF CurrentAt
<1>6. QED
    BY <1>4, <1>5

\* A commit: a page that has a content on its way to the disk becomes late.
LEMMA CommitCurrent ==
    ASSUME Shape, NEW p \in Wiki, CurrentAt(p), NEW x \in Actor, NEW q \in Wiki, CommitBy(x, q), Left(x) = {},
           UNCHANGED <<file, tmp, fd, full, mixed>>
    PROVE  CurrentAt(p)'
<1>1. /\ ~Busy(x) /\ todo'[x][q] = pages[q] + 1 /\ \A r \in Path \ {q} : todo'[x][r] = 0
      /\ \A y \in Actor \ {x} : todo'[y] = todo[y]
    BY AtIs, CommitDisk
<1>2. pages'[q] = pages[q] + 1 /\ \A r \in Path \ {q} : pages'[r] = pages[r]
    BY AtIs DEF CommitBy, Put, Shape, DiskOK
<1>3. late' = IF Pending(q) = {} THEN late ELSE late \cup {q}
    BY DEF CommitBy
<1>4. Opened(p)' = Opened(p) /\ x \notin Opened(p) /\ x \notin Pending(p)
    <2>1. \A y \in Actor \ {x} : Target(y)' = Target(y)
        BY <1>1, LeftKept
    <2>2. QED
        BY <1>1, <2>1 DEF Opened, Busy, Pending
<1>5. \A y \in Actor \ {x} : Left(y)' = Left(y)
    BY <1>1, LeftKept
<1>6. \A y \in Opened(p) : fd'[y] = fd[y] /\ Sound(y, p)' = Sound(y, p)
    BY <1>1, <1>4 DEF Sound, Opened
<1>7. Alone(p)' = Alone(p)
    BY <1>4 DEF Alone
<1>8. CASE p = q
    <2>1. pages'[p] = pages[p] + 1 /\ \A y \in Actor : todo'[y][p] <= pages'[p]
        BY <1>1, <1>2, <1>8, AtIs DEF CurrentAt
    <2>2. file'[p] # Nil /\ file'[p] <= pages'[p] /\ (tmp'[p] = Nil \/ tmp'[p] <= pages'[p])
        BY <2>1, AtIs DEF CurrentAt
    <2>3. Pending(p) = {} \/ p \in late'
        BY <1>3, <1>8
    <2>4. Pending(p) = {} => Pending(p)' = {x} /\ Opened(p)' = {}
        <3>1. x \in Pending(p)'
            BY <1>1, <1>8, AtIs DEF Pending, Left
        <3>2. QED
            BY <1>4, <1>5, <3>1, OpenedPending DEF Pending
    <2>5. QED
        BY <1>1, <1>8, <2>1, <2>2, <2>3, <2>4 DEF CurrentAt
<1>9. CASE p # q
    <2>1. pages'[p] = pages[p] /\ todo'[x][p] = 0 /\ (p \in late' <=> p \in late)
        BY <1>1, <1>2, <1>3, <1>9, AtIs
    <2>2. Pending(p)' = Pending(p)
        <3>1. x \notin Pending(p)'
            BY <2>1 DEF Pending, Left
        <3>2. QED
            BY <1>4, <1>5, <3>1 DEF Pending
    <2>3. \A y \in Actor : todo'[y][p] <= pages[p]
        BY <1>1, <2>1, AtIs DEF CurrentAt
    <2>4. \A y \in Pending(p) : todo'[y][p] = todo[y][p]
        BY <1>1, <1>4 DEF Pending
    <2>5. QED
        BY <1>4, <1>6, <1>7, <2>1, <2>2, <2>3, <2>4 DEF CurrentAt
<1>10. QED
    BY <1>8, <1>9

\* The rows of a walk are current when it reads them.
LEMMA FetchCurrent == ASSUME Shape, NEW p \in Wiki, CurrentAt(p), NEW k \in Command, Fetch(k) PROVE CurrentAt(p)'
<1>1. /\ k \in Actor /\ Left(k) = {} /\ UNCHANGED <<pages, file, tmp, fd, full, late, mixed>>
      /\ \A y \in Actor \ {k} : todo'[y] = todo[y]
      /\ UNCHANGED todo \/ todo'[k][p] \in {0, pages[p]}
    BY FetchIs, AtIs DEF Actor
<1>2. CASE UNCHANGED todo
    BY <1>1, <1>2, CurrentKept
<1>3. CASE todo'[k][p] \in {0, pages[p]}
    <2>1. ~Busy(k) /\ \A y \in Actor \ {k} : Left(y)' = Left(y) /\ Target(y)' = Target(y)
        BY <1>1, LeftKept DEF Shape, DiskOK
    <2>2. Opened(p)' = Opened(p) /\ k \notin Opened(p)
        BY <1>1, <2>1 DEF Opened, Busy
    <2>3. \A y \in Pending(p)' : y = k \/ y \in Pending(p)
        BY <2>1 DEF Pending
    <2>4. \A y \in Pending(p) : y \in Pending(p)'
        BY <1>1, <2>1 DEF Pending
    <2>5. \A y \in Actor : todo'[y][p] <= pages[p]
        BY <1>1, <1>3, AtIs DEF CurrentAt
    <2>6. p \notin late => \A y \in Pending(p)' : todo'[y][p] = pages[p]
        <3>1. k \in Pending(p)' => todo'[k][p] # 0
            BY DEF Pending, Left
        <3>2. QED
            BY <1>1, <1>3, <2>3, <3>1 DEF CurrentAt, Pending
    <2>7. \A y \in Opened(p) : Sound(y, p)' = Sound(y, p)
        BY <1>1, <2>2 DEF Sound, Opened
    <2>8. Alone(p)' = Alone(p)
        BY <2>2 DEF Alone
    <2>9. QED
        BY <1>1, <2>2, <2>4, <2>5, <2>6, <2>7, <2>8 DEF CurrentAt
<1>4. QED
    BY <1>1, <1>2, <1>3

\* Every step keeps Current.
LEMMA NextCurrent == Shape /\ Whole /\ Current /\ [RenderingNext]_renderingVars => Current'
<1> SUFFICES ASSUME Shape, Whole, Current, [RenderingNext]_renderingVars, NEW p \in Wiki PROVE CurrentAt(p)'
    BY DEF Current
<1>1. CurrentAt(p) /\ WholeAt(p) /\ p \in Path
    BY AtIs DEF Current, Whole
<1>2. ASSUME NEW x \in Actor, RenameFails(x) \/ RenderFails(x) PROVE CurrentAt(p)'
    <2>1. Left(x) # {} /\ GivenUp(x) /\ UNCHANGED <<pages, file, tmp, mixed>>
        BY <1>2 DEF RenameFails, RenderFails, Shape, DiskOK
    <2>2. QED
        BY <1>1, <2>1, GivenUpCurrent
<1>3. ASSUME NEW x \in Actor, Open(x) \/ Fill(x) \/ Rename(x) PROVE CurrentAt(p)'
    BY <1>1, <1>3, OpenCurrent, FillCurrent, RenameCurrent
<1>4. ASSUME NEW w \in Writer, NEW q \in Wiki, Write(w, q) PROVE CurrentAt(p)'
    BY <1>1, <1>4, CommitCurrent DEF Write, Actor
<1>5. ASSUME NEW q \in Ext, Embed(q) \/ Delete(q) PROVE CurrentAt(p)'
    BY <1>1, <1>5, ExtShape, CurrentKept DEF renderVars
<1>6. ASSUME NEW k \in Command, RunCommand(k) PROVE CurrentAt(p)'
    <2>1. CASE UNCHANGED <<pages, renderVars>>
        BY <1>1, <2>1, CurrentKept DEF renderVars
    <2>2. CASE Fetch(k)
        BY <1>1, <2>2, FetchCurrent
    <2>3. CASE Import(k)
        BY <1>1, <2>1, <2>3, ImportIs, CommitCurrent DEF Actor
    <2>4. QED
        BY <1>6, <2>1, <2>2, <2>3, CommandShape DEF RunCommand
<1>7. CASE UNCHANGED renderingVars
    BY <1>1, <1>7, CurrentKept DEF renderingVars, renderVars
<1>8. QED
    BY <1>2, <1>3, <1>4, <1>5, <1>6, <1>7 DEF RenderingNext, Render

(***************************************************************************)
(* The file of a wiki page is never newer than the page, and older only    *)
(* for a reason, for any number of handlers and commands (the renders that *)
(* follow the commits of write_page).                                      *)
(***************************************************************************)
THEOREM StaleForAReason == RenderingSpec => []StaleIsAccountedFor
<1>1. RenderingInit => Current
    <2> SUFFICES ASSUME RenderingInit, NEW p \in Wiki PROVE CurrentAt(p)
        BY DEF Current
    <2>1. p \in Path /\ pages[p] = 1 /\ file[p] = 1 /\ tmp[p] = Nil /\ 1 # Nil
        BY RenderingAssumption DEF RenderingInit, Path
    <2>2. \A x \in Actor : todo[x][p] = 0 /\ ~Busy(x)
        BY <2>1 DEF RenderingInit, Nothing, Busy
    <2>3. Opened(p) = {} /\ Pending(p) = {}
        BY <2>2 DEF Opened, Pending, Left
    <2>4. QED
        BY <2>1, <2>2, <2>3 DEF CurrentAt
<1>2. Current => StaleIsAccountedFor
    BY DEF Current, CurrentAt, StaleIsAccountedFor
<1>3. QED
    BY <1>1, <1>2, NextCurrent, ShapeAlways, WholeAlways, PTL DEF RenderingSpec

-----------------------------------------------------------------------------
(* Walks that nothing disturbs.                                             *)

Early == {"idle", "look", "write"}

FreshAt(k) == run[k].mode \in Early => run[k].cursor = 0 /\ ~run[k].last /\ ~run[k].quiet

QuietAt(k) ==
    run[k].quiet =>
        /\ run[k].mode \in {"walk", "over"}
        /\ \A x \in Actor \ {k} : ~Busy(x)
        /\ \A p \in Left(k) : todo[k][p] = pages[p]
        /\ Busy(k) => Sound(k, Target(k))
        /\ run[k].mode = "over" => Left(k) = {}
        /\ \A p \in Present : run[k].last \/ run[k].mode = "over" \/ p <= run[k].cursor
                              => file[p] = pages[p] \/ p \in Left(k)

Undisturbed == \A k \in Command : FreshAt(k) /\ QuietAt(k)

\* Disturbed keeps what FreshAt is about, and leaves nothing for QuietAt.
LEMMA DisturbedFresh ==
    ASSUME RunOK, NEW k \in Command, FreshAt(k),
           \/ run'[k] = Disturbed[k]
           \/ run' = [Disturbed EXCEPT ![k].mode = "aborted"]
    PROVE  FreshAt(k)' /\ QuietAt(k)'
<1>1. CASE run'[k] = Disturbed[k]
    <2>1. /\ run'[k].mode = run[k].mode /\ run'[k].cursor = run[k].cursor
          /\ run'[k].last = run[k].last /\ run'[k].quiet = FALSE
        BY <1>1 DEF Disturbed, RunOK, Run
    <2>2. QED
        BY <2>1 DEF FreshAt, QuietAt
<1>2. CASE run' = [Disturbed EXCEPT ![k].mode = "aborted"]
    <2>1. Disturbed[k] \in Run /\ k \in DOMAIN Disturbed /\ Disturbed[k].quiet = FALSE
        BY DisturbedIs DEF Disturbed
    <2>2. run'[k].mode = "aborted" /\ run'[k].quiet = FALSE
        BY <1>2, <2>1 DEF Run
    <2>3. QED
        BY <2>2 DEF FreshAt, QuietAt, Early
<1>3. QED
    BY <1>1, <1>2

\* The steps of a command that read nothing to render leave the other
\* commands alone; a walk begins undisturbed only if nobody renders.
LEMMA CommandRun ==
    ASSUME RunOK, NEW k \in Command,
           \/ RenderAll(k) \/ (\E overwrite \in BOOLEAN : Ingest(k, overwrite)) \/ Look(k) \/ Unreadable(k) \/ Skip(k)
    PROVE  /\ run[k].mode \in Early /\ \A j \in Command \ {k} : run'[j] = run[j]
           /\ run'[k].cursor = run[k].cursor /\ run'[k].last = run[k].last
           /\ run'[k].quiet => run[k].quiet \/ (Quiet /\ run'[k].mode = "walk")
<1> DEFINE quiet == Quiet
           imported == run[k].imported /\ quiet
           first == First(run[k].left)
           skipped == run[k].left \ {first}
           after == IF run[k].imported THEN "walk" ELSE "over"
           version == pages[first]
<1>1. run \in [Command -> Run] /\ run[k] \in Run
    BY DEF RunOK
<1>2. run[k].mode \in Early
    BY DEF RenderAll, Ingest, Look, Unreadable, Skip, Early
<1>3. quiet \in BOOLEAN /\ imported \in BOOLEAN /\ (imported => quiet /\ after = "walk")
    BY <1>1 DEF Quiet, Run
<1>4. CASE RenderAll(k)
    <2>1. run' = [run EXCEPT ![k] = [run[k] EXCEPT !.mode = "walk", !.quiet = quiet]]
        BY <1>4 DEF RenderAll
    <2> HIDE DEF quiet
    <2>2. run' = [run EXCEPT ![k] = [run[k] EXCEPT !.mode = "walk", !.quiet = quiet]]
        BY <2>1
    <2>3. run'[k].quiet = quiet /\ run'[k].mode = "walk" /\ run'[k].cursor = run[k].cursor /\ run'[k].last = run[k].last
        BY <1>1, <2>2 DEF Run
    <2>4. QED
        BY <1>1, <1>2, <2>2, <2>3 DEF quiet
<1>5. ASSUME NEW overwrite \in BOOLEAN, Ingest(k, overwrite)
      PROVE  /\ \A j \in Command \ {k} : run'[j] = run[j]
             /\ run'[k].cursor = run[k].cursor /\ run'[k].last = run[k].last /\ run'[k].quiet = run[k].quiet
    BY <1>1, <1>5 DEF Ingest, Run
<1>6. CASE Look(k)
    <2>1. \/ run' = [run EXCEPT ![k] = [run[k] EXCEPT !.mode = after, !.quiet = imported]]
          \/ run' = [run EXCEPT ![k] = [run[k] EXCEPT !.left = skipped]]
          \/ run' = [run EXCEPT ![k] = [run[k] EXCEPT !.mode = "write", !.seen = version]]
        BY <1>6 DEF Look
    <2> HIDE DEF imported, skipped, after, version, quiet
    <2>2. /\ \A j \in Command \ {k} : run'[j] = run[j]
          /\ run'[k].cursor = run[k].cursor /\ run'[k].last = run[k].last
          /\ run'[k].quiet = run[k].quiet \/ (run'[k].quiet = imported /\ run'[k].mode = after)
        <3>1. CASE run' = [run EXCEPT ![k] = [run[k] EXCEPT !.mode = after, !.quiet = imported]]
            <4>1. run'[k] = [run[k] EXCEPT !.mode = after, !.quiet = imported] /\ \A j \in Command \ {k} : run'[j] = run[j]
                BY <1>1, <3>1
            <4>2. QED
                BY <1>1, <4>1 DEF Run
        <3>2. CASE run' = [run EXCEPT ![k] = [run[k] EXCEPT !.left = skipped]]
            BY <1>1, <3>2 DEF Run
        <3>3. CASE run' = [run EXCEPT ![k] = [run[k] EXCEPT !.mode = "write", !.seen = version]]
            BY <1>1, <3>3 DEF Run
        <3>4. QED
            BY <2>1, <3>1, <3>2, <3>3
    <2>3. QED
        BY <1>2, <1>3, <2>2 DEF quiet
<1>7. CASE Unreadable(k)
    <2>1. run' = [run EXCEPT ![k] = [run[k] EXCEPT !.mode = "aborted"]]
        BY <1>7 DEF Unreadable
    <2>2. QED
        BY <1>1, <1>2, <2>1 DEF Run
<1>8. CASE Skip(k)
    <2>1. run' = [run EXCEPT ![k] = [run[k] EXCEPT !.mode = "look", !.left = skipped, !.seen = 0]]
        BY <1>8 DEF Skip
    <2> HIDE DEF skipped
    <2>2. QED
        BY <1>1, <1>2, <2>1 DEF Run
<1>9. QED
    BY <1>2, <1>4, <1>5, <1>6, <1>7, <1>8

\* A step that a walk does not notice.
LEMMA QuietKept ==
    ASSUME NEW k \in Command, FreshAt(k), QuietAt(k), UNCHANGED <<pages, file, tmp, fd, full>>,
           run'[k] = run[k], todo'[k] = todo[k]
    PROVE  FreshAt(k)' /\ QuietAt(k)'
<1>1. Left(k)' = Left(k) /\ Target(k)' = Target(k) /\ Present' = Present /\ \A x : Busy(x)' = Busy(x)
    BY LeftKept DEF Present, Busy
<1>2. Sound(k, Target(k))' = Sound(k, Target(k))
    BY <1>1 DEF Sound
<1>3. QED
    BY <1>1, <1>2 DEF FreshAt, QuietAt

\* The steps of a render.
LEMMA OpenQuiet ==
    ASSUME Shape, NEW k \in Command, FreshAt(k), QuietAt(k), NEW x \in Actor, Open(x)
    PROVE  FreshAt(k)' /\ QuietAt(k)'
<1>1. run'[k] = IF k = x THEN run[k] ELSE Disturbed[k]
    BY DEF Open, Noise
<1>2. CASE k # x
    BY <1>1, <1>2, DisturbedFresh DEF Shape
<1>3. CASE k = x
    <2>1. /\ UNCHANGED <<pages, file, todo>> /\ ~full'[k] /\ fd'[k] = "tmp" /\ tmp'[Target(k)] = Empty
          /\ \A y \in Actor \ {k} : fd'[y] = fd[y]
        BY <1>3, OpenIs
    <2>2. Left(k)' = Left(k) /\ Target(k)' = Target(k) /\ Present' = Present
        BY <2>1, LeftKept DEF Present
    <2>3. Sound(k, Target(k))'
        BY <2>1, <2>2 DEF Sound
    <2>4. QED
        BY <1>1, <1>3, <2>1, <2>2, <2>3 DEF FreshAt, QuietAt, Busy
<1>4. QED
    BY <1>2, <1>3

LEMMA FillQuiet ==
    ASSUME Shape, NEW k \in Command, FreshAt(k), QuietAt(k), NEW x \in Actor, Fill(x)
    PROVE  FreshAt(k)' /\ QuietAt(k)'
<1>1. /\ UNCHANGED <<pages, todo, fd, run>> /\ Busy(x) /\ ~full[x] /\ full'[x]
      /\ fd[x] = "tmp" => tmp'[Target(x)] \in Over(tmp[Target(x)], todo[x][Target(x)]) /\ file' = file
    BY FillIs DEF Fill
<1>2. FreshAt(k)'
    BY <1>1 DEF FreshAt
<1>3. ASSUME run[k].quiet PROVE QuietAt(k)'
    <2>1. k = x /\ Sound(k, Target(k))
        BY <1>1, <1>3 DEF QuietAt
    <2>2. Left(k)' = Left(k) /\ Target(k)' = Target(k) /\ Present' = Present
        BY <1>1, LeftKept DEF Present
    <2>3. file' = file /\ tmp'[Target(k)] \in Over(Empty, todo[k][Target(k)])
        BY <1>1, <2>1 DEF Sound
    <2>4. Sound(k, Target(k))'
        BY <1>1, <2>1, <2>2, <2>3 DEF Sound, Over
    <2>5. QED
        BY <1>1, <2>2, <2>3, <2>4 DEF QuietAt, Busy
<1>4. QED
    BY <1>1, <1>2, <1>3 DEF QuietAt

LEMMA RenameQuiet ==
    ASSUME Shape, NEW k \in Command, FreshAt(k), QuietAt(k), NEW x \in Actor, Rename(x)
    PROVE  FreshAt(k)' /\ QuietAt(k)'
<1>1. /\ UNCHANGED <<pages, run>> /\ Busy(x) /\ full[x] /\ Target(x) \in Path /\ Target(x) \in Left(x)
      /\ file'[Target(x)] = tmp[Target(x)] /\ \A q \in Path \ {Target(x)} : file'[q] = file[q]
      /\ ~Busy(x)' /\ \A y \in Actor \ {x} : Busy(y)' <=> Busy(y)
      /\ Rendered(x)
    BY RenameIs
<1>2. FreshAt(k)'
    BY <1>1 DEF FreshAt
<1>3. ASSUME run[k].quiet PROVE QuietAt(k)'
    <2>1. k = x /\ Sound(k, Target(k)) /\ todo[k][Target(k)] = pages[Target(k)]
        BY <1>1, <1>3 DEF QuietAt
    <2>2. Left(k)' = Left(k) \ {Target(k)} /\ \A q \in Path \ {Target(k)} : todo'[k][q] = todo[k][q]
        BY <1>1, <2>1, RenderedIs
    <2>3. \A p \in Left(k)' : p \in Left(k) /\ todo'[k][p] = todo[k][p]
        BY <2>2 DEF Left
    <2>4. file'[Target(k)] = pages[Target(k)] /\ Present' = Present
        BY <1>1, <2>1 DEF Sound, Present
    <2>5. \A p \in Present : file[p] = pages[p] \/ p \in Left(k) => file'[p] = pages[p] \/ p \in Left(k)'
        BY <1>1, <2>1, <2>2, <2>4 DEF Present
    <2>6. QED
        BY <1>1, <1>3, <2>1, <2>2, <2>3, <2>4, <2>5 DEF QuietAt
<1>4. QED
    BY <1>1, <1>2, <1>3 DEF QuietAt

\* A batch: what it does not read and the walk has passed, it has rendered.
LEMMA FetchQuiet ==
    ASSUME Shape, NEW k \in Command, FreshAt(k), QuietAt(k), Fetch(k)
    PROVE  FreshAt(k)' /\ QuietAt(k)'
<1>1. /\ run[k].mode = "walk" /\ Left(k) = {} /\ UNCHANGED <<pages, file, fd>> /\ run'[k].quiet = run[k].quiet
      /\ run'[k].mode \in {"walk", "over"} /\ ~Busy(k) /\ k \in Actor
    BY FetchIs DEF Shape, DiskOK, Actor
<1>2. FreshAt(k)'
    BY <1>1 DEF FreshAt, Early
<1>3. ASSUME run[k].quiet PROVE QuietAt(k)'
    <2>1. /\ \A x \in Actor \ {k} : ~Busy(x)
          /\ \A p \in Present : run[k].last \/ p <= run[k].cursor => file[p] = pages[p]
        BY <1>1, <1>3 DEF QuietAt
    <2>2. Present' = Present /\ \A x : Busy(x)' = Busy(x)
        BY <1>1 DEF Present, Busy
    <2>3. CASE UNCHANGED todo /\ run'[k].mode = "over" /\ (run[k].last \/ \A p \in Present : p <= run[k].cursor)
        <3>1. Left(k)' = {}
            BY <1>1, <2>3, LeftKept
        <3>2. QED
            BY <1>1, <2>1, <2>2, <2>3, <3>1 DEF QuietAt
    <2>4. CASE /\ run'[k].mode = "walk"
               /\ \A p \in Path : todo'[k][p] \in {0, pages[p]}
               /\ \A p \in Present : p > run[k].cursor /\ (run'[k].last \/ p <= run'[k].cursor) => p \in Left(k)'
        <3>1. \A p \in Left(k)' : todo'[k][p] = pages[p]
            BY <2>4 DEF Left
        <3>2. run[k].cursor \in Nat /\ Present \subseteq Nat
            <4>1. run[k].cursor \in {0} \cup Path /\ Present \subseteq Path
                BY DEF Shape, RunOK, Run, Present
            <4>2. 0 \in Nat /\ Path \subseteq Nat
                BY PathsAreNumbers
            <4>3. QED
                BY <4>1, <4>2
        <3>3. \A p \in Present : run'[k].last \/ p <= run'[k].cursor => file[p] = pages[p] \/ p \in Left(k)'
            <4>1. \A p \in Present : p > run[k].cursor \/ p <= run[k].cursor
                BY <3>2
            <4>2. QED
                BY <2>1, <2>4, <4>1
        <3>4. QED
            BY <1>1, <2>1, <2>2, <2>4, <3>1, <3>3 DEF QuietAt
    <2>5. QED
        BY <2>3, <2>4, FetchIs
<1>4. QED
    BY <1>1, <1>2, <1>3 DEF QuietAt

\* Every step keeps Undisturbed.
LEMMA NextQuiet == Shape /\ Undisturbed /\ [RenderingNext]_renderingVars => Undisturbed'
<1> SUFFICES ASSUME Shape, Undisturbed, [RenderingNext]_renderingVars, NEW k \in Command
             PROVE  FreshAt(k)' /\ QuietAt(k)'
    BY DEF Undisturbed
<1>1. FreshAt(k) /\ QuietAt(k) /\ RunOK
    BY DEF Undisturbed, Shape
<1>2. ASSUME NEW x \in Actor, Open(x) \/ Fill(x) \/ Rename(x) PROVE FreshAt(k)' /\ QuietAt(k)'
    BY <1>1, <1>2, OpenQuiet, FillQuiet, RenameQuiet
<1>3. ASSUME NEW x \in Actor, RenameFails(x) \/ RenderFails(x) PROVE FreshAt(k)' /\ QuietAt(k)'
    <2>1. run' = IF x \in Command /\ run[x].mode = "look" THEN [Disturbed EXCEPT ![x].mode = "aborted"] ELSE Disturbed
        BY <1>3 DEF RenameFails, RenderFails, GivenUp
    <2>2. run'[k] = Disturbed[k] \/ run' = [Disturbed EXCEPT ![k].mode = "aborted"]
        BY <2>1 DEF Disturbed
    <2>3. QED
        BY <1>1, <2>2, DisturbedFresh
<1>4. ASSUME run' = Disturbed PROVE FreshAt(k)' /\ QuietAt(k)'
    BY <1>1, <1>4, DisturbedFresh
<1>5. ASSUME NEW j \in Command,
             \/ RenderAll(j) \/ (\E overwrite \in BOOLEAN : Ingest(j, overwrite)) \/ Look(j) \/ Unreadable(j) \/ Skip(j)
      PROVE  FreshAt(k)' /\ QuietAt(k)'
    <2>1. UNCHANGED <<pages, renderVars>>
        BY <1>5, CommandShape
    <2>2. /\ run[j].mode \in Early /\ \A i \in Command \ {j} : run'[i] = run[i]
          /\ run'[j].cursor = run[j].cursor /\ run'[j].last = run[j].last
          /\ run'[j].quiet => run[j].quiet \/ (Quiet /\ run'[j].mode = "walk")
        BY <1>1, <1>5, CommandRun
    <2>3. CASE j # k
        BY <1>1, <2>1, <2>2, <2>3, QuietKept DEF renderVars
    <2>4. CASE j = k
        <3>1. run[k].cursor = 0 /\ ~run[k].last /\ ~run[k].quiet
            BY <1>1, <2>2, <2>4 DEF FreshAt
        <3>2. run'[k].cursor = 0 /\ ~run'[k].last /\ (run'[k].quiet => Quiet /\ run'[k].mode = "walk")
            BY <2>2, <2>4, <3>1
        <3>3. FreshAt(k)'
            BY <3>2 DEF FreshAt, Early
        <3>4. ASSUME Quiet, run'[k].mode = "walk" PROVE QuietAt(k)'
            <4>1. \A x \in Actor : Left(x)' = {} /\ ~Busy(x)'
                BY <2>1, <3>4 DEF Quiet, Left, Busy, Shape, DiskOK, renderVars
            <4>2. \A p \in Present' : ~(p <= 0)
                BY PathsAreNumbers DEF Present
            <4>3. k \in Actor
                BY DEF Actor
            <4>4. QED
                BY <3>2, <3>4, <4>1, <4>2, <4>3 DEF QuietAt
        <3>5. QED
            BY <3>2, <3>3, <3>4 DEF QuietAt
    <2>5. QED
        BY <2>3, <2>4
<1>6. ASSUME NEW j \in Command, Fetch(j) PROVE FreshAt(k)' /\ QuietAt(k)'
    <2>1. CASE j = k
        BY <1>1, <1>6, <2>1, FetchQuiet
    <2>2. CASE j # k
        <3>1. run'[k] = run[k] /\ todo'[k] = todo[k] /\ UNCHANGED <<pages, file, tmp, fd, full>>
            BY <1>6, <2>2, FetchIs DEF Actor
        <3>2. QED
            BY <1>1, <3>1, QuietKept
    <2>3. QED
        BY <2>1, <2>2
<1>7. ASSUME NEW j \in Command, Import(j) PROVE FreshAt(k)' /\ QuietAt(k)'
    <2>1. run[j].mode = "write"
        BY <1>7 DEF Import
    <2>2. CASE pages[First(run[j].left)] = run[j].seen
        <3>1. run' = [Disturbed EXCEPT ![j].mode = "look", ![j].left = @ \ {First(run[j].left)}, ![j].seen = 0,
                                       ![j].imported = TRUE]
            BY <1>7, <2>2 DEF Import
        <3>2. CASE j # k
            <4>1. run'[k] = Disturbed[k]
                BY <3>1, <3>2 DEF Disturbed
            <4>2. QED
                BY <1>1, <4>1, DisturbedFresh
        <3>3. CASE j = k
            <4>1. Disturbed \in [Command -> Run] /\ Disturbed[k].quiet = FALSE
                BY <1>1, DisturbedIs
            <4>2. Disturbed[k].cursor = run[k].cursor /\ Disturbed[k].last = run[k].last
                BY <1>1 DEF Disturbed, RunOK, Run
            <4>3. run[k].cursor = 0 /\ ~run[k].last
                BY <1>1, <2>1, <3>3 DEF FreshAt, Early
            <4>4. run'[k].cursor = 0 /\ ~run'[k].last /\ run'[k].quiet = FALSE
                BY <3>1, <3>3, <4>1, <4>2, <4>3 DEF Run
            <4>5. QED
                BY <4>4 DEF FreshAt, QuietAt
        <3>4. QED
            BY <3>2, <3>3
    <2>3. CASE pages[First(run[j].left)] # run[j].seen
        <3>1. run' = [run EXCEPT ![j].mode = "aborted"] /\ UNCHANGED <<pages, renderVars>>
            BY <1>7, <2>3 DEF Import
        <3>2. CASE j # k
            <4>1. run'[k] = run[k]
                BY <1>1, <3>1, <3>2 DEF RunOK
            <4>2. QED
                BY <1>1, <3>1, <4>1, QuietKept DEF renderVars
        <3>3. CASE j = k
            <4>1. ~run[k].quiet
                BY <1>1, <2>1, <3>3 DEF FreshAt, Early
            <4>2. run'[k].mode = "aborted" /\ ~run'[k].quiet
                BY <1>1, <3>1, <3>3, <4>1 DEF RunOK, Run
            <4>3. QED
                BY <4>2 DEF FreshAt, QuietAt, Early
        <3>4. QED
            BY <3>2, <3>3
    <2>4. QED
        BY <2>2, <2>3
<1>8. CASE UNCHANGED renderingVars
    BY <1>1, <1>8, QuietKept DEF renderingVars, renderVars
<1>9. QED
    BY <1>2, <1>3, <1>4, <1>5, <1>6, <1>7, <1>8 DEF RenderingNext, Render, RunCommand, Write, Embed, Delete

(***************************************************************************)
(* A walk that nothing disturbs leaves a current file for every page, with *)
(* any number of pages and any size of the batches (render-all; the cursor *)
(* of iter_all_pages).                                                     *)
(***************************************************************************)
THEOREM WalksRestore == RenderingSpec => []RenderAllRestores
<1>1. RenderingInit => Undisturbed
    <2> SUFFICES ASSUME RenderingInit, NEW k \in Command PROVE FreshAt(k) /\ QuietAt(k)
        BY DEF Undisturbed
    <2>1. run[k].cursor = 0 /\ run[k].last = FALSE /\ run[k].quiet = FALSE
        BY DEF RenderingInit, NoRun
    <2>2. QED
        BY <2>1 DEF FreshAt, QuietAt
<1>2. Undisturbed => RenderAllRestores
    BY DEF Undisturbed, QuietAt, RenderAllRestores
<1>3. QED
    BY <1>1, <1>2, NextQuiet, ShapeAlways, PTL DEF RenderingSpec

-----------------------------------------------------------------------------
(* The master alone.                                                        *)

\* No render-all and no ingest has been started yet.
Unused == \A k \in Command : run[k].mode = "idle"

AloneInv == Unused => mixed = {} /\ \A k \in Command : Left(k) = {}

\* A command that has been started is never unused again.
LEMMA CommandsAreUsed == ASSUME Shape, NEW k \in Command, RunCommand(k) PROVE run'[k].mode # "idle"
<1>1. run \in [Command -> Run] /\ \A j \in Command : Disturbed[j].mode = run[j].mode
    BY DisturbedIs DEF Shape, RunOK
<1>2. CASE RenderAll(k)
    <2>1. PICK quiet : run' = [run EXCEPT ![k].mode = "walk", ![k].quiet = quiet]
        BY <1>2 DEF RenderAll
    <2>2. QED
        BY <1>1, <2>1 DEF Run
<1>3. ASSUME NEW overwrite \in BOOLEAN, Ingest(k, overwrite) PROVE run'[k].mode # "idle"
    BY <1>1, <1>3 DEF Ingest, Run
<1>4. CASE Unreadable(k) \/ Skip(k)
    BY <1>1, <1>4 DEF Unreadable, Skip, Run
<1>5. CASE Look(k)
    BY <1>1, <1>5 DEF Look, Run
<1>6. CASE Fetch(k)
    BY <1>6, FetchIs
<1>7. CASE Import(k)
    <2>1. run[k].mode = "write"
        BY <1>7 DEF Import
    <2>2. CASE run' = [run EXCEPT ![k].mode = "aborted"]
        BY <1>1, <2>2 DEF Run
    <2>3. ASSUME NEW left, run' = [Disturbed EXCEPT ![k].mode = "look", ![k].left = left, ![k].seen = 0, ![k].imported = TRUE]
          PROVE  run'[k].mode # "idle"
        BY <2>3, DisturbedIs DEF Shape, RunOK, Run
    <2>4. QED
        BY <1>7, <2>2, <2>3 DEF Import
<1>8. QED
    BY <1>2, <1>3, <1>4, <1>5, <1>6, <1>7 DEF RunCommand

\* Every step keeps AloneInv.
LEMMA NextAlone == Shape /\ AloneInv /\ [RenderingNext]_renderingVars => AloneInv'
<1> SUFFICES ASSUME Shape, AloneInv, [RenderingNext]_renderingVars, Unused' PROVE (mixed = {} /\ \A k \in Command : Left(k) = {})'
    BY DEF AloneInv
<1>1. \A j \in Command : Disturbed[j].mode = run[j].mode
    BY DisturbedIs DEF Shape
<1>2. ASSUME Unused, mixed' = {} \/ mixed' = mixed, \A k \in Command : todo'[k] = todo[k]
      PROVE  (mixed = {} /\ \A k \in Command : Left(k) = {})'
    BY <1>2, LeftKept DEF AloneInv
<1>3. ASSUME NEW k \in Command, RunCommand(k) PROVE FALSE
    BY <1>3, CommandsAreUsed DEF Unused
<1>4. ASSUME NEW w \in Writer, NEW p \in Wiki, Write(w, p) PROVE (mixed = {} /\ \A k \in Command : Left(k) = {})'
    <2>1. w \in Actor /\ p \in Path /\ \A k \in Command : k \in Actor \ {w}
        BY RenderingAssumption DEF Actor, Path
    <2>2. CommitBy(w, p) /\ Left(w) = {} /\ UNCHANGED <<file, tmp, fd, full, mixed>> /\ run' = Disturbed
        BY <1>4 DEF Write
    <2>3. \A k \in Command : todo'[k] = todo[k]
        BY <2>1, <2>2, CommitDisk
    <2>4. QED
        BY <1>1, <1>2, <2>2, <2>3 DEF Unused
<1>5. ASSUME NEW p \in Ext, Embed(p) \/ Delete(p) PROVE (mixed = {} /\ \A k \in Command : Left(k) = {})'
    BY <1>1, <1>2, <1>5, ExtShape DEF Unused, renderVars
<1>6. ASSUME NEW x \in Actor, Render(x) PROVE (mixed = {} /\ \A k \in Command : Left(k) = {})'
    <2>1. Left(x) # {}
        BY <1>6 DEF Render, Open, Fill, Rename, RenameFails, RenderFails, Shape, DiskOK
    <2>2. Unused
        <3>1. CASE Open(x)
            BY <1>1, <3>1 DEF Open, Noise, Unused
        <3>2. CASE Fill(x) \/ Rename(x)
            BY <3>2 DEF Fill, Rename, Unused
        <3>3. CASE RenameFails(x) \/ RenderFails(x)
            <4>1. GivenUp(x)
                BY <3>3 DEF RenameFails, RenderFails
            <4>2. CASE run' = Disturbed
                BY <1>1, <4>2 DEF Unused
            <4>3. CASE x \in Command /\ run' = [Disturbed EXCEPT ![x].mode = "aborted"]
                BY <4>3, DisturbedIs DEF Unused, Shape, Run
            <4>4. QED
                BY <4>1, <4>2, <4>3 DEF GivenUp
        <3>4. QED
            BY <1>6, <3>1, <3>2, <3>3 DEF Render
    <2>3. mixed = {} /\ x \notin Command /\ \A k \in Command : Left(k) = {} /\ ~Busy(k)
        BY <2>1, <2>2 DEF AloneInv, Shape, DiskOK, Actor
    <2>4. CASE Open(x)
        <3>1. \A y \in Actor : ~Busy(y)
            BY <2>3, <2>4 DEF Open, Actor
        <3>2. mixed' = mixed /\ todo' = todo
            BY <2>4, <3>1 DEF Open, Opened
        <3>3. QED
            BY <1>2, <2>2, <3>2
    <2>5. CASE Fill(x)
        BY <1>2, <2>2, <2>5 DEF Fill
    <2>6. CASE Rename(x)
        <3>1. mixed' = {}
            BY <2>3, <2>6, RenameIs
        <3>2. \A k \in Command : todo'[k] = todo[k]
            BY <2>3, <2>6, RenameIs DEF Actor
        <3>3. QED
            BY <1>2, <2>2, <3>1, <3>2
    <2>7. CASE RenameFails(x) \/ RenderFails(x)
        <3>1. GivenUp(x) /\ UNCHANGED <<pages, file, tmp, mixed>>
            BY <2>7 DEF RenameFails, RenderFails
        <3>2. \A k \in Command : todo'[k] = todo[k]
            BY <2>1, <2>3, <3>1, GivenUpIs DEF Actor
        <3>3. QED
            BY <1>2, <2>2, <3>1, <3>2
    <2>8. QED
        BY <1>6, <2>4, <2>5, <2>6, <2>7 DEF Render
<1>7. CASE UNCHANGED renderingVars
    BY <1>2, <1>7 DEF renderingVars, renderVars, Unused
<1>8. QED
    BY <1>3, <1>4, <1>5, <1>6, <1>7 DEF RenderingNext

(***************************************************************************)
(* As long as no render-all and no ingest has been started, whatever fails *)
(* and with any number of handlers, every file is a whole version, and it  *)
(* is the page's version where nothing is on its way to the disk, unless a *)
(* write overtook a render or a render failed: only a command beside the   *)
(* master can spoil a file (render_to_disk has one name for the temporary  *)
(* file of a page).                                                        *)
(***************************************************************************)
THEOREM MasterAloneKeepsFiles ==
    RenderingSpec => [](Unused => /\ \A p \in Path : file[p] \notin {Empty, Torn}
                                  /\ \A p \in Wiki \ late : Pending(p) = {} => file[p] = pages[p])
<1>1. RenderingInit => AloneInv
    BY DEF RenderingInit, AloneInv, Left, Nothing, Actor
<1>2. AloneInv /\ FilesAreComplete /\ StaleIsAccountedFor =>
        (Unused => /\ \A p \in Path : file[p] \notin {Empty, Torn}
                   /\ \A p \in Wiki \ late : Pending(p) = {} => file[p] = pages[p])
    BY DEF AloneInv, FilesAreComplete, StaleIsAccountedFor
<1>3. QED
    BY <1>1, <1>2, NextAlone, ShapeAlways, FilesAreWhole, StaleForAReason, PTL DEF RenderingSpec

================================================================================
