----------------------------- MODULE GoldProofs -----------------------------
(***************************************************************************)
(* Theorems about Gold for any reports, limits and contents, any number of    *)
(* seconds and any number of faults.                                         *)
(***************************************************************************)
EXTENDS Gold, FiniteSetTheorems, WellFoundedInduction, TLAPS

(* The order of names ------------------------------------------------------ *)
LEMMA NameFields ==
  ASSUME NEW n \in NameType
  PROVE  /\ n.dir \in Dirs /\ n.kind \in {"part", "compacted"} /\ n.run \in Nat /\ n.batch \in Nat
         /\ n = Name(n.dir, n.kind, n.run, n.batch)
  BY DEF NameType, Name

LEMMA SameName ==
  ASSUME NEW m \in NameType, NEW n \in NameType,
         m.dir = n.dir, m.kind = n.kind, m.run = n.run, m.batch = n.batch
  PROVE  m = n
  BY NameFields

LEMMA BeforeStrict ==
  ASSUME NEW m \in NameType, NEW n \in NameType, Before(m, n)
  PROVE  ~Before(n, m) /\ m # n
  BY NameFields DEF Before

LEMMA BeforeChain ==
  ASSUME NEW l \in NameType, NEW m \in NameType, NEW n \in NameType, Before(l, m), Before(m, n)
  PROVE  Before(l, n)
<1>1. /\ l.run \in Nat /\ m.run \in Nat /\ n.run \in Nat
      /\ l.batch \in Nat /\ m.batch \in Nat /\ n.batch \in Nat
      /\ l.kind \in {"part", "compacted"} /\ m.kind \in {"part", "compacted"}
      /\ n.kind \in {"part", "compacted"}
  BY NameFields
<1>. QED
  BY <1>1 DEF Before

LEMMA BeforeTotal ==
  ASSUME NEW m \in NameType, NEW n \in NameType, m.dir = n.dir
  PROVE  m = n \/ Before(m, n) \/ Before(n, m)
<1>1. /\ m.run \in Nat /\ n.run \in Nat /\ m.batch \in Nat /\ n.batch \in Nat
      /\ m.kind \in {"part", "compacted"} /\ n.kind \in {"part", "compacted"}
  BY NameFields
<1>2. CASE m.kind = n.kind /\ m.run = n.run /\ m.batch = n.batch
  BY <1>2, SameName
<1>3. CASE ~(m.kind = n.kind /\ m.run = n.run /\ m.batch = n.batch)
  BY <1>1, <1>3 DEF Before
<1>. QED
  BY <1>2, <1>3

LEMMA LeastExists ==
  ASSUME NEW S, S \subseteq Nat, S # {}
  PROVE  \E m \in S : \A x \in S : m <= x
<1>1. PICK m \in S : \A x \in S : ~(<<x, m>> \in OpToRel(<, Nat))
  BY WFMin, NatLessThanWellFounded
<1>2. \A x \in S : ~(x < m)
  BY <1>1 DEF OpToRel
<1>. QED
  BY <1>2

(* A finite set of names of one directory has a last name and a first one: the *)
(* name with the least number of names after it, or before it.                *)
Names(S) == S \subseteq NameType /\ IsFiniteSet(S) /\ \A m, n \in S : m.dir = n.dir

LEMMA Extreme ==
  ASSUME NEW S, IsFiniteSet(S), S # {}, NEW R, R \subseteq S \X S,
         \A x, y, z \in S : <<x, y>> \in R /\ <<y, z>> \in R => <<x, z>> \in R,
         \A x \in S : <<x, x>> \notin R
  PROVE  \E x \in S : \A y \in S : <<y, x>> \notin R
<1>. DEFINE Under(x) == {y \in S : <<y, x>> \in R}
            Ranks == {Cardinality(Under(x)) : x \in S}
<1>1. \A x \in S : IsFiniteSet(Under(x)) /\ Cardinality(Under(x)) \in Nat
  BY FS_Subset, FS_CardinalityType
<1>2. PICK x \in S : \A y \in S : Cardinality(Under(x)) <= Cardinality(Under(y))
  <2>. HIDE DEF Under
  <2>1. Ranks \subseteq Nat /\ Ranks # {}
    BY <1>1
  <2>2. PICK m \in Ranks : \A n \in Ranks : m <= n
    <3>. HIDE DEF Ranks
    <3>. QED
      BY <2>1, LeastExists
  <2>. QED
    BY <2>2
<1>3. ASSUME NEW z \in S, <<z, x>> \in R PROVE FALSE
  <2>1. Under(z) \subseteq Under(x) /\ z \in Under(x) /\ z \notin Under(z)
    <3>1. \A y \in S : <<y, z>> \in R => <<y, x>> \in R
      BY <1>3
    <3>2. Under(z) \subseteq Under(x)
      BY <3>1
    <3>3. z \in Under(x) /\ z \notin Under(z)
      BY <1>3
    <3>. QED
      BY <3>2, <3>3
  <2>2. Cardinality(Under(x)) <= Cardinality(Under(z))
    BY <1>2
  <2>. HIDE DEF Under
  <2>3. /\ Cardinality(Under(z)) <= Cardinality(Under(x))
        /\ Cardinality(Under(x)) = Cardinality(Under(z)) => Under(x) = Under(z)
    <3>1. IsFiniteSet(Under(x)) /\ Under(z) \subseteq Under(x)
      BY <1>1, <2>1
    <3>. QED
      BY <3>1, FS_Subset
  <2>. QED
    BY <1>1, <2>1, <2>2, <2>3
<1>. QED
  BY <1>3

LEMMA FirstIs ==
  ASSUME NEW S, Names(S), S # {}
  PROVE  First(S) \in S /\ \A m \in S : m = First(S) \/ Before(First(S), m)
<1>. DEFINE R == {p \in S \X S : Before(p[1], p[2])}
<1>0. \A x \in S : x \in NameType
  BY DEF Names
<1>1. \A x, y \in S : <<x, y>> \in R <=> Before(x, y)
  OBVIOUS
<1>2. R \subseteq S \X S
  OBVIOUS
<1>. HIDE DEF R
<1>3. PICK x \in S : \A y \in S : <<y, x>> \notin R
  <2>1. \A l, m, n \in S : <<l, m>> \in R /\ <<m, n>> \in R => <<l, n>> \in R
    BY <1>0, <1>1, BeforeChain
  <2>2. \A l \in S : <<l, l>> \notin R
    BY <1>0, <1>1, BeforeStrict
  <2>. QED
    BY <1>2, <2>1, <2>2, Extreme DEF Names
<1>4. \A m \in S : m = x \/ Before(x, m)
  BY <1>0, <1>1, <1>3, BeforeTotal DEF Names
<1>. QED
  BY <1>4 DEF First

LEMMA LastIs ==
  ASSUME NEW S, Names(S), S # {}
  PROVE  Last(S) \in S /\ \A m \in S : m = Last(S) \/ Before(m, Last(S))
<1>. DEFINE R == {p \in S \X S : Before(p[2], p[1])}
<1>0. \A x \in S : x \in NameType
  BY DEF Names
<1>1. \A x, y \in S : <<x, y>> \in R <=> Before(y, x)
  OBVIOUS
<1>2. R \subseteq S \X S
  OBVIOUS
<1>. HIDE DEF R
<1>3. PICK x \in S : \A y \in S : <<y, x>> \notin R
  <2>1. \A l, m, n \in S : <<l, m>> \in R /\ <<m, n>> \in R => <<l, n>> \in R
    BY <1>0, <1>1, BeforeChain
  <2>2. \A l \in S : <<l, l>> \notin R
    BY <1>0, <1>1, BeforeStrict
  <2>. QED
    BY <1>2, <2>1, <2>2, Extreme DEF Names
<1>4. \A m \in S : m = x \/ Before(m, x)
  BY <1>0, <1>1, <1>3, BeforeTotal DEF Names
<1>. QED
  BY <1>4 DEF Last

LEMMA LastOnly ==
  ASSUME NEW S, Names(S), NEW n \in S, \A m \in S : m = n \/ Before(m, n)
  PROVE  Last(S) = n
<1>1. Last(S) \in S /\ (n = Last(S) \/ Before(n, Last(S)))
  BY LastIs
<1>. QED
  BY <1>1, BeforeStrict DEF Names

(* The row that counts -------------------------------------------------------- *)
FilesOK == TypeOK /\ IsFiniteSet(files)

LEMMA RowsOf ==
  ASSUME TypeOK, NEW f \in files, NEW r
  PROVE  RowsIn(f.name, r) = f.rows[r]
<1>1. (CHOOSE g \in files : g.name = f.name) = f
  BY DEF TypeOK
<1>. QED
  BY <1>1 DEF RowsIn

LEMMA NamesFinite ==
  ASSUME NEW F, IsFiniteSet(F)
  PROVE  IsFiniteSet({f.name : f \in F})
<1>. DEFINE T == {f.name : f \in F}
            h == [f \in F |-> f.name]
<1>1. h \in Surjection(F, T)
  BY DEF Surjection
<1>. HIDE DEF T, h
<1>. QED
  BY <1>1, FS_Surjection DEF T

OneDir(S) == \A m, n \in S : m.dir = n.dir

LEMMA HoldingIs ==
  ASSUME FilesOK, NEW S, OneDir(S), NEW r
  PROVE  /\ Names(Holding(S, r))
         /\ \A n : n \in Holding(S, r) <=> \E f \in files : f.name = n /\ n \in S /\ f.rows[r] # 0
<1>. DEFINE F == {g \in files : g.name \in S /\ g.rows[r] # 0}
<1>1. IsFiniteSet(F)
  BY FS_Subset DEF FilesOK
<1>2. Holding(S, r) = {f.name : f \in F}
  BY DEF Holding
<1>3. IsFiniteSet(Holding(S, r))
  <2>. HIDE DEF F
  <2>. QED
    BY <1>1, <1>2, NamesFinite
<1>4. \A n : n \in Holding(S, r) <=> \E f \in files : f.name = n /\ n \in S /\ f.rows[r] # 0
  BY <1>2
<1>5. \A f \in files : f.name \in NameType
  BY DEF FilesOK, TypeOK
<1>. QED
  BY <1>3, <1>4, <1>5 DEF Names, OneDir

(* f is the last of the files named in S that hold a row of r.                 *)
Tops(f, S, r) ==
  /\ f \in files /\ f.name \in S /\ f.rows[r] # 0
  /\ \A g \in files : (g.name \in S /\ g.rows[r] # 0) => g = f \/ Before(g.name, f.name)

LEMMA WinnerTop ==
  ASSUME FilesOK, NEW S, OneDir(S), NEW r, NEW f, Tops(f, S, r)
  PROVE  Winner(S, r) = f.rows[r]
<1>1. /\ Names(Holding(S, r))
      /\ \A n : n \in Holding(S, r) <=> \E g \in files : g.name = n /\ n \in S /\ g.rows[r] # 0
  BY HoldingIs
<1>2. f.name \in Holding(S, r) /\ \A n \in Holding(S, r) : n = f.name \/ Before(n, f.name)
  BY <1>1 DEF Tops
<1>3. Last(Holding(S, r)) = f.name
  BY <1>1, <1>2, LastOnly
<1>4. RowsIn(f.name, r) = f.rows[r]
  BY RowsOf DEF FilesOK, Tops
<1>. QED
  BY <1>2, <1>3, <1>4 DEF Winner

LEMMA WinnerCases ==
  ASSUME FilesOK, NEW S, OneDir(S), NEW r
  PROVE  \/ Winner(S, r) = 0 /\ \A g \in files : g.name \in S => g.rows[r] = 0
         \/ \E f \in files : Tops(f, S, r) /\ Winner(S, r) = f.rows[r]
<1>1. /\ Names(Holding(S, r))
      /\ \A n : n \in Holding(S, r) <=> \E g \in files : g.name = n /\ n \in S /\ g.rows[r] # 0
  BY HoldingIs
<1>2. CASE Holding(S, r) = {}
  BY <1>1, <1>2 DEF Winner
<1>3. CASE Holding(S, r) # {}
  <2>1. /\ Last(Holding(S, r)) \in Holding(S, r)
        /\ \A m \in Holding(S, r) : m = Last(Holding(S, r)) \/ Before(m, Last(Holding(S, r)))
    BY <1>1, <1>3, LastIs
  <2>2. PICK f \in files : f.name = Last(Holding(S, r)) /\ f.name \in S /\ f.rows[r] # 0
    BY <1>1, <2>1
  <2>3. ASSUME NEW g \in files, g.name \in S, g.rows[r] # 0
        PROVE  g = f \/ Before(g.name, f.name)
    <3>1. g.name \in Holding(S, r)
      BY <1>1, <2>3
    <3>2. g.name = f.name \/ Before(g.name, f.name)
      BY <2>1, <2>2, <3>1
    <3>. QED
      BY <3>2 DEF FilesOK, TypeOK
  <2>4. Tops(f, S, r)
    BY <2>2, <2>3 DEF Tops
  <2>. QED
    BY <2>4, WinnerTop
<1>. QED
  BY <1>2, <1>3

(* The files, the names and the runs ------------------------------------------- *)
FileNames == {f.name : f \in files}

(* The file that a listed file is merged into.                                 *)
Target(n) == Name(n.dir, "compacted", comp.run, 0)

(* One compaction at a time, of one second each: its files are older than the   *)
(* run or its own, what it listed is there until it deletes it, and of a        *)
(* directory that is still to merge it has listed every compacted file.        *)
CompInv ==
  /\ \A f \in files : f.name.kind = "compacted" =>
       f.name.run <= clock /\ (f.name.run = clock => "compaction" \in started)
  /\ comp.pc # "idle" => comp.run <= clock /\ (comp.run = clock => "compaction" \in started)
  /\ comp.pc = "idle" => comp.listed = {}
  /\ comp.pc # "delete" <=> comp.delete = {}
  /\ comp.listed \cup comp.delete \subseteq FileNames
  /\ \A f \in files : (f.name.kind = "compacted" /\ Listed(f.name.dir) # {}) =>
       f.name \in comp.listed /\ f.name.run < comp.run
  /\ \A n \in comp.delete :
       /\ Target(n) \in FileNames /\ Target(n) \notin comp.delete
       /\ Listed(n.dir) = {} /\ \A m \in comp.delete : m.dir = n.dir
       /\ \A f \in files : (f.name.kind = "compacted" /\ f.name.dir = n.dir) =>
            f.name \in comp.delete \/ f.name = Target(n)

(* A builder for itself, ...                                                  *)
HandOf(b) ==
  /\ at[b].writes \subseteq {Facts, b} /\ at[b].run <= clock
  /\ at[b].todo \cap HeldIn(at[b].rows) = {}
  /\ ~at[b].running => at[b] = Idle
  /\ HeldIn(at[b].rows) = {} => at[b].writes = {}

(* ... and two of them: what both have in hand is in the history.              *)
HandInv ==
  /\ \A b \in Builders : HandOf(b)
  /\ \A b, c \in Builders : b # c => InHand(b) \cap InHand(c) \subseteq shared

SafeInv == FilesOK /\ CompInv /\ HandInv

LEMMA FirstOfIn == \A S, n : FirstOf(S, n) \subseteq S
  BY DEF FirstOf

LEMMA Directories ==
  /\ Facts \in Dirs /\ \A b \in Builders : b \in Dirs /\ b # Facts /\ b \in Modes
  /\ "compaction" \notin Modes
  BY GoldAssumption DEF Dirs, Modes, Facts

LEMMA Empty ==
  /\ NoRows \in RowsType /\ HeldIn(NoRows) = {} /\ Idle \in BuilderType /\ Resting \in CompType
  /\ Idle.running = FALSE /\ Idle.run = 0 /\ Idle.todo = {} /\ Idle.rows = NoRows
  /\ Idle.writes = {}
  /\ Resting.pc = "idle" /\ Resting.listed = {} /\ Resting.delete = {}
<1>1. NoRows \in RowsType /\ HeldIn(NoRows) = {}
  BY DEF NoRows, RowsType, HeldIn
<1>2. Idle \in BuilderType
  BY <1>1 DEF Idle, BuilderType
<1>3. Resting \in CompType
  BY DEF Resting, CompType
<1>. QED
  BY <1>1, <1>2, <1>3 DEF Idle, Resting

LEMMA RowsForIs ==
  ASSUME NEW rows \in RowsType, NEW dir
  PROVE  /\ RowsFor(dir, rows) \in RowsType
         /\ \A r \in Reports : RowsFor(dir, rows)[r] =
              IF dir # Facts /\ r \in Textless THEN 0 ELSE rows[r]
         /\ HeldIn(RowsFor(dir, rows)) \subseteq HeldIn(rows)
         /\ dir = Facts => RowsFor(dir, rows) = rows
  BY DEF RowsFor, RowsType, HeldIn

LEMMA BuilderFields ==
  ASSUME NEW x \in BuilderType
  PROVE  /\ x.running \in BOOLEAN /\ x.run \in Nat /\ x.batch \in Nat /\ x.todo \subseteq Reports
         /\ x.rows \in RowsType /\ x.writes \subseteq Dirs /\ x.due \subseteq Reports
         /\ x.clean \in BOOLEAN
  BY DEF BuilderType

LEMMA CompFields ==
  ASSUME NEW x \in CompType
  PROVE  /\ x.pc \in {"idle", "merge", "delete"} /\ x.run \in Nat
         /\ x.listed \subseteq NameType /\ x.delete \subseteq NameType
  BY DEF CompType

LEMMA OwnStep ==
  ASSUME TypeOK, NEW b \in Builders, NEW x \in BuilderType, at' = [at EXCEPT ![b] = x]
  PROVE  /\ at' \in [Builders -> BuilderType] /\ at'[b] = x
         /\ \A c \in Builders \ {b} : at'[c] = at[c]
  BY DEF TypeOK

(* The steps of a builder ------------------------------------------------------ *)

(* What a step of b leaves of the others.                                     *)
OnlyAt(b) ==
  /\ at' \in [Builders -> BuilderType] /\ comp' = comp
  /\ \A c \in Builders \ {b} : at'[c] = at[c]

LEMMA StartDoes ==
  ASSUME TypeOK, NEW b \in Builders, StartBuild(b)
  PROVE  /\ OnlyAt(b) /\ ~at[b].running /\ at'[b].running /\ at'[b].run = clock
         /\ at'[b].todo = Targets /\ at'[b].rows = NoRows /\ at'[b].writes = {}
         /\ at'[b].due = Pending \ Stuck
         /\ Targets \subseteq Pending /\ Pending \subseteq Reports
         /\ b \notin started /\ started' = started \cup {b} /\ clock' = clock
         /\ shared' = shared \cup (Targets \cap (WrittenNow
                                               \cup UNION {InHand(c) : c \in Builders \ {b}}))
         /\ silver' = silver /\ files' = files /\ done' = done /\ faults' = faults
         /\ newest' = newest /\ torn' = torn
<1>. DEFINE x == [Idle EXCEPT !.running = TRUE, !.run = clock, !.todo = Targets,
                              !.due = Pending \ Stuck]
<1>1. /\ at' = [at EXCEPT ![b] = x] /\ ~at[b].running
      /\ b \notin started /\ started' = started \cup {b} /\ clock' = clock
      /\ shared' = shared \cup (Targets \cap (WrittenNow
                                            \cup UNION {InHand(c) : c \in Builders \ {b}}))
      /\ silver' = silver /\ files' = files /\ done' = done /\ comp' = comp /\ faults' = faults
      /\ newest' = newest /\ torn' = torn
  BY DEF StartBuild, StartsNow
<1>2. Targets \subseteq Pending /\ Pending \subseteq Reports
  BY FirstOfIn DEF Targets, Pending
<1>3. clock \in Nat
  BY GoldAssumption DEF TypeOK
<1>. HIDE DEF x
<1>4. /\ x \in BuilderType /\ x.running /\ x.run = clock /\ x.todo = Targets
      /\ x.rows = NoRows /\ x.writes = {} /\ x.due = Pending \ Stuck
  <2>1. x = [Idle EXCEPT !.running = TRUE, !.run = clock, !.todo = Targets,
                         !.due = Pending \ Stuck]
    BY DEF x
  <2>2. x \in BuilderType
    BY <1>2, <1>3, <2>1, Empty DEF BuilderType
  <2>. QED
    BY <2>1, <2>2, Empty DEF Idle
<1>5. at' \in [Builders -> BuilderType] /\ at'[b] = x /\ \A c \in Builders \ {b} : at'[c] = at[c]
  BY <1>1, <1>4, OwnStep
<1>. QED
  BY <1>1, <1>2, <1>4, <1>5 DEF OnlyAt

LEMMA ReadDoes ==
  ASSUME TypeOK, NEW b \in Builders, NEW failing \in SUBSET Reports, ReadChunk(b, failing)
  PROVE  LET chunk == FirstOf(at[b].todo, ChunkSize)
         IN /\ OnlyAt(b) /\ at[b].running /\ at'[b].running /\ HeldIn(at[b].rows) = {}
            /\ at'[b].run = at[b].run /\ at'[b].batch = at[b].batch + 1
            /\ at'[b].todo = at[b].todo \ chunk
            /\ at'[b].rows = [r \in Reports |->
                 IF r \in chunk \ (Stuck \cup failing) THEN silver[r] ELSE 0]
            /\ at'[b].writes \subseteq {Facts, b}
            /\ \A dir \in {Facts, b} :
                 dir \in at'[b].writes <=> HeldIn(RowsFor(dir, at'[b].rows)) # {}
            /\ HeldIn(at'[b].rows) = {} => at'[b].writes = {}
            /\ HeldIn(at'[b].rows) \subseteq chunk /\ chunk \subseteq at[b].todo
            /\ at'[b].due = at[b].due
            /\ at'[b].clean <=> at[b].clean /\ failing = {}
            /\ silver' = silver /\ files' = files /\ done' = done /\ clock' = clock
            /\ started' = started /\ faults' \in 0 .. MaxFaults
            /\ newest' = newest /\ shared' = shared /\ torn' = torn
<1>. DEFINE chunk == FirstOf(at[b].todo, ChunkSize)
            rows == [r \in Reports |-> IF r \in chunk \ (Stuck \cup failing) THEN silver[r] ELSE 0]
            x == [at[b] EXCEPT !.batch = @ + 1, !.todo = @ \ chunk, !.rows = rows,
                    !.writes = {dir \in {Facts, b} : HeldIn(RowsFor(dir, rows)) # {}},
                    !.clean = @ /\ failing = {}]
<1>1. /\ at' = [at EXCEPT ![b] = x] /\ at[b].running /\ HeldIn(at[b].rows) = {}
      /\ faults + Cardinality(failing) <= MaxFaults /\ faults' = faults + Cardinality(failing)
      /\ silver' = silver /\ files' = files /\ done' = done /\ comp' = comp
      /\ clock' = clock /\ started' = started
      /\ newest' = newest /\ shared' = shared /\ torn' = torn
  BY DEF ReadChunk, time, history
<1>2. at[b] \in BuilderType /\ silver \in RowsType /\ faults \in Nat
  BY GoldAssumption DEF TypeOK
<1>3. faults' \in 0 .. MaxFaults
  <2>1. Cardinality(failing) \in Nat
    BY GoldAssumption, FS_Subset, FS_CardinalityType
  <2>. QED
    BY <1>1, <1>2, <2>1, GoldAssumption
<1>4. chunk \subseteq at[b].todo /\ at[b].todo \subseteq Reports
  BY <1>2, FirstOfIn, BuilderFields
<1>5. rows \in RowsType /\ HeldIn(rows) \subseteq chunk
  BY <1>2 DEF RowsType, HeldIn
<1>6. /\ x \in BuilderType /\ x.running = at[b].running /\ x.run = at[b].run
      /\ x.batch = at[b].batch + 1
      /\ x.todo = at[b].todo \ chunk /\ x.rows = rows /\ x.due = at[b].due
      /\ x.writes = {dir \in {Facts, b} : HeldIn(RowsFor(dir, rows)) # {}}
      /\ x.clean = (at[b].clean /\ failing = {})
  <2>. DEFINE W == {dir \in {Facts, b} : HeldIn(RowsFor(dir, rows)) # {}}
              T == at[b].todo \ chunk
              k == (at[b].clean /\ failing = {})
  <2>1. x = [at[b] EXCEPT !.batch = at[b].batch + 1, !.todo = T, !.rows = rows, !.writes = W,
                          !.clean = k]
    OBVIOUS
  <2>2. W \subseteq Dirs /\ T \subseteq Reports /\ k \in BOOLEAN /\ at[b].batch + 1 \in Nat
    BY <1>2, <1>4, Directories, BuilderFields
  <2>. HIDE DEF rows, W, T, k, x
  <2>3. x \in BuilderType
    BY <1>2, <1>5, <2>1, <2>2 DEF BuilderType
  <2>4. /\ x.running = at[b].running /\ x.run = at[b].run /\ x.batch = at[b].batch + 1
        /\ x.todo = T /\ x.rows = rows /\ x.due = at[b].due /\ x.writes = W /\ x.clean = k
    BY <1>2, <2>1 DEF BuilderType
  <2>. QED
    BY <2>3, <2>4 DEF W, T, k
<1>. HIDE DEF x, rows
<1>7. at' \in [Builders -> BuilderType] /\ at'[b] = x /\ \A c \in Builders \ {b} : at'[c] = at[c]
  BY <1>1, <1>6, OwnStep
<1>8. OnlyAt(b)
  BY <1>1, <1>7 DEF OnlyAt
<1>9. \A dir \in {Facts, b} : dir \in at'[b].writes <=> HeldIn(RowsFor(dir, at'[b].rows)) # {}
  BY <1>6, <1>7
<1>10. HeldIn(at'[b].rows) = {} => at'[b].writes = {}
  <2>1. \A dir : HeldIn(RowsFor(dir, rows)) \subseteq HeldIn(rows)
    BY <1>5, RowsForIs
  <2>. QED
    BY <1>6, <1>7, <2>1
<1>. QED
  BY <1>1, <1>3, <1>4, <1>5, <1>6, <1>7, <1>8, <1>9, <1>10 DEF rows

(* The file that a builder writes.                                            *)
Written(b, dir) ==
  [name |-> Name(dir, "part", at[b].run, at[b].batch), rows |-> RowsFor(dir, at[b].rows)]
Replaced(b, dir) == {f \in files : f.name = Written(b, dir).name}

LEMMA WrittenIs ==
  ASSUME TypeOK, NEW b \in Builders, NEW dir \in Dirs
  PROVE  /\ Written(b, dir).name \in NameType /\ Written(b, dir).rows \in RowsType
         /\ Written(b, dir).name.dir = dir /\ Written(b, dir).name.kind = "part"
         /\ Written(b, dir).name.run = at[b].run /\ Written(b, dir).name.batch = at[b].batch
         /\ \A r \in Reports : Written(b, dir).rows[r] =
              IF dir # Facts /\ r \in Textless THEN 0 ELSE at[b].rows[r]
         /\ HeldIn(Written(b, dir).rows) \subseteq HeldIn(at[b].rows)
<1>1. at[b].run \in Nat /\ at[b].batch \in Nat /\ at[b].rows \in RowsType
  BY BuilderFields DEF TypeOK
<1>. QED
  BY <1>1, RowsForIs DEF Written, Name, NameType

LEMMA WriteDoes ==
  ASSUME TypeOK, NEW b \in Builders, NEW dir \in Dirs, WriteFile(b, dir)
  PROVE  /\ OnlyAt(b) /\ at'[b] \in BuilderType
         /\ dir \in at[b].writes /\ at'[b].writes = at[b].writes \ {dir}
         /\ at'[b].running = at[b].running /\ at'[b].run = at[b].run
         /\ at'[b].batch = at[b].batch
         /\ at'[b].todo = at[b].todo /\ at'[b].rows = at[b].rows
         /\ at'[b].due = at[b].due /\ at'[b].clean = at[b].clean
         /\ files' = (files \ Replaced(b, dir)) \cup {Written(b, dir)}
         /\ newest' \in [Dirs -> RowsType]
         /\ \A d \in Dirs, r \in Reports : newest'[d][r] =
              IF d = dir /\ Written(b, dir).rows[r] # 0 THEN Written(b, dir).rows[r]
              ELSE newest[d][r]
         /\ shared' = IF Replaced(b, dir) = {} THEN shared
              ELSE shared \cup HeldIn(Written(b, dir).rows)
                          \cup UNION {HeldIn(f.rows) : f \in Replaced(b, dir)}
         /\ silver' = silver /\ done' = done /\ clock' = clock /\ started' = started
         /\ faults' = faults /\ torn' = torn
<1>. DEFINE x == [at[b] EXCEPT !.writes = at[b].writes \ {dir}]
            put == RowsFor(dir, at[b].rows)
            new == [r \in Reports |-> IF put[r] # 0 THEN put[r] ELSE newest[dir][r]]
<1>1. /\ at[b] \in BuilderType /\ newest \in [Dirs -> RowsType] /\ at[b].rows \in RowsType
      /\ at \in [Builders -> BuilderType] /\ at[b].writes \subseteq Dirs
  BY BuilderFields DEF TypeOK
<1>2. /\ at' = [at EXCEPT ![b] = x] /\ dir \in at[b].writes
      /\ newest' = [newest EXCEPT ![dir] = new]
      /\ silver' = silver /\ done' = done /\ clock' = clock /\ started' = started
      /\ faults' = faults /\ torn' = torn /\ comp' = comp
  BY <1>1 DEF WriteFile, time
<1>3. /\ files' = (files \ Replaced(b, dir)) \cup {Written(b, dir)}
      /\ shared' = IF Replaced(b, dir) = {} THEN shared
              ELSE shared \cup HeldIn(Written(b, dir).rows)
                          \cup UNION {HeldIn(f.rows) : f \in Replaced(b, dir)}
  BY DEF WriteFile, Replaced, Written
<1>4. /\ x \in BuilderType /\ x.writes = at[b].writes \ {dir}
      /\ x.running = at[b].running /\ x.run = at[b].run
      /\ x.batch = at[b].batch
      /\ x.todo = at[b].todo /\ x.rows = at[b].rows
      /\ x.due = at[b].due /\ x.clean = at[b].clean
  BY <1>1 DEF BuilderType
<1>. HIDE DEF x
<1>5. at' \in [Builders -> BuilderType] /\ at'[b] = x /\ \A c \in Builders \ {b} : at'[c] = at[c]
  BY <1>2, <1>4, OwnStep
<1>6. /\ new \in RowsType /\ Written(b, dir).rows = put
      /\ \A r \in Reports : new[r] = IF put[r] # 0 THEN put[r] ELSE newest[dir][r]
  <2>1. put \in RowsType
    BY <1>1, RowsForIs
  <2>2. Written(b, dir).rows = put
    BY DEF Written
  <2>. HIDE DEF put
  <2>. QED
    BY <1>1, <2>1, <2>2 DEF RowsType
<1>. HIDE DEF new, put
<1>7. /\ newest' \in [Dirs -> RowsType]
      /\ \A d \in Dirs : newest'[d] = IF d = dir THEN new ELSE newest[d]
  BY <1>1, <1>2, <1>6
<1>8. \A d \in Dirs, r \in Reports : newest'[d][r] =
        IF d = dir /\ Written(b, dir).rows[r] # 0 THEN Written(b, dir).rows[r]
              ELSE newest[d][r]
  BY <1>6, <1>7
<1>. QED
  BY <1>2, <1>3, <1>4, <1>5, <1>7, <1>8 DEF OnlyAt

LEMMA MarkDoes ==
  ASSUME TypeOK, NEW b \in Builders, NEW r \in Reports, MarkDone(b, r)
  PROVE  /\ OnlyAt(b) /\ at'[b] \in BuilderType
         /\ at[b].writes = {} /\ at'[b].writes = {} /\ r \in HeldIn(at[b].rows)
         /\ at'[b].running = at[b].running /\ at'[b].run = at[b].run
         /\ at'[b].batch = at[b].batch
         /\ at'[b].todo = at[b].todo
         /\ HeldIn(at'[b].rows) = HeldIn(at[b].rows) \ {r}
         /\ \A q \in Reports \ {r} : at'[b].rows[q] = at[b].rows[q]
         /\ at'[b].due = at[b].due /\ at'[b].clean = at[b].clean
         /\ done' = done \cup {r}
         /\ silver' = silver /\ files' = files /\ clock' = clock /\ started' = started
         /\ faults' = faults /\ newest' = newest /\ shared' = shared /\ torn' = torn
<1>. DEFINE rows == [at[b].rows EXCEPT ![r] = 0]
            x == [at[b] EXCEPT !.rows = rows]
<1>1. /\ at[b] \in BuilderType /\ at[b].rows \in RowsType /\ at \in [Builders -> BuilderType]
  BY BuilderFields DEF TypeOK
<1>2. /\ at' = [at EXCEPT ![b] = x] /\ at[b].writes = {}
      /\ FirstOf(HeldIn(at[b].rows), 1) = {r} /\ done' = done \cup {r}
      /\ silver' = silver /\ files' = files /\ clock' = clock /\ started' = started /\ comp' = comp
      /\ faults' = faults /\ newest' = newest /\ shared' = shared /\ torn' = torn
  BY <1>1 DEF MarkDone, time, history
<1>3. r \in HeldIn(at[b].rows)
  BY <1>2, FirstOfIn
<1>4. /\ rows \in RowsType /\ HeldIn(rows) = HeldIn(at[b].rows) \ {r}
      /\ \A q \in Reports \ {r} : rows[q] = at[b].rows[q]
  BY <1>1 DEF RowsType, HeldIn
<1>. HIDE DEF rows
<1>5. /\ x \in BuilderType /\ x.writes = at[b].writes
      /\ x.running = at[b].running /\ x.run = at[b].run
      /\ x.batch = at[b].batch
      /\ x.todo = at[b].todo /\ x.rows = rows
      /\ x.due = at[b].due /\ x.clean = at[b].clean
  BY <1>1, <1>4 DEF BuilderType
<1>. HIDE DEF x
<1>6. at' \in [Builders -> BuilderType] /\ at'[b] = x /\ \A c \in Builders \ {b} : at'[c] = at[c]
  BY <1>2, <1>5, OwnStep
<1>. QED
  BY <1>2, <1>3, <1>4, <1>5, <1>6 DEF OnlyAt

LEMMA EndDoes ==
  ASSUME TypeOK, NEW b \in Builders, EndBuild(b) \/ CrashBuild(b)
  PROVE  /\ OnlyAt(b) /\ at'[b] = Idle /\ at[b].running
         /\ EndBuild(b) => /\ HeldIn(at[b].rows) = {} /\ torn' = torn /\ faults' = faults
         /\ torn' \in {torn, torn \cup HeldIn(at[b].rows)}
         /\ HeldIn(at[b].rows) \subseteq torn'
         /\ faults' \in 0 .. MaxFaults
         /\ silver' = silver /\ files' = files /\ done' = done
         /\ clock' = clock /\ started' = started /\ newest' = newest /\ shared' = shared
<1>1. at' \in [Builders -> BuilderType] /\ at'[b] = Idle /\ \A c \in Builders \ {b} : at'[c] = at[c]
  BY Empty, OwnStep DEF EndBuild, CrashBuild
<1>2. faults' \in 0 .. MaxFaults
  BY GoldAssumption DEF EndBuild, CrashBuild, TypeOK
<1>. QED
  BY <1>1, <1>2 DEF EndBuild, CrashBuild, OnlyAt, time, history

(* The steps of the compaction ------------------------------------------------- *)

(* The file that a directory is merged into.                                   *)
MergedFile(dir) ==
  [name |-> Name(dir, "compacted", comp.run, 0), rows |-> Merged(Listed(dir))]

LEMMA ListedIs ==
  ASSUME TypeOK, NEW dir
  PROVE  /\ OneDir(Listed(dir)) /\ Listed(dir) \subseteq comp.listed
         /\ \A n \in Listed(dir) : n \in NameType /\ n.dir = dir
  BY CompFields DEF Listed, OneDir, TypeOK

LEMMA MergedIs ==
  ASSUME FilesOK, NEW dir \in Dirs
  PROVE  /\ MergedFile(dir).name \in NameType /\ MergedFile(dir).rows \in RowsType
         /\ MergedFile(dir).name.dir = dir /\ MergedFile(dir).name.kind = "compacted"
         /\ MergedFile(dir).name.run = comp.run
         /\ MergedFile(dir).name = Name(dir, "compacted", comp.run, 0)
         /\ \A r \in Reports : MergedFile(dir).rows[r] = Winner(Listed(dir), r)
<1>1. comp.run \in Nat
  BY CompFields DEF FilesOK, TypeOK
<1>2. \A r \in Reports : Winner(Listed(dir), r) \in Nat
  <2>1. TAKE r \in Reports
  <2>2. OneDir(Listed(dir))
    BY ListedIs DEF FilesOK
  <2>3. \A f \in files : f.rows[r] \in Nat
    BY DEF FilesOK, TypeOK, RowsType
  <2>. QED
    BY <2>2, <2>3, WinnerCases
<1>3. Merged(Listed(dir)) \in RowsType /\ \A r \in Reports : Merged(Listed(dir))[r] = Winner(Listed(dir), r)
  BY <1>2 DEF Merged, RowsType
<1>. QED
  BY <1>1, <1>3 DEF MergedFile, Name, NameType

LEMMA RestDoes ==
  ASSUME TypeOK, StartCompaction \/ EndCompaction \/ CrashCompaction
  PROVE  /\ comp' \in CompType /\ comp'.delete = {}
         /\ StartCompaction =>
              /\ comp'.pc = "merge" /\ comp'.run = clock /\ comp'.listed = FileNames
              /\ "compaction" \notin started /\ started' = started \cup {"compaction"}
              /\ torn' = torn /\ comp.pc = "idle" /\ comp.delete = comp.delete
         /\ ~StartCompaction => comp' = Resting /\ started' = started /\ comp.pc # "idle"
         /\ EndCompaction => comp.pc = "merge" /\ torn' = torn
         /\ torn \subseteq torn' /\ torn' \subseteq Reports
         /\ comp.pc = "delete" => \A f \in files : f.name \in comp.delete => HeldIn(f.rows) \subseteq torn'
         /\ faults' \in 0 .. MaxFaults /\ clock' = clock
         /\ silver' = silver /\ files' = files /\ done' = done /\ at' = at
         /\ newest' = newest /\ shared' = shared
<1>0. /\ clock \in Nat /\ faults \in 0 .. MaxFaults /\ MaxFaults \in Nat /\ FileNames \subseteq NameType
      /\ torn \subseteq Reports
  BY GoldAssumption DEF TypeOK, FileNames
<1>1. CASE StartCompaction
  <2>1. /\ comp' = [Resting EXCEPT !.pc = "merge", !.run = clock, !.listed = FileNames]
        /\ comp.pc = "idle"
        /\ "compaction" \notin started /\ started' = started \cup {"compaction"}
        /\ clock' = clock /\ torn' = torn /\ faults' = faults
        /\ silver' = silver /\ files' = files /\ done' = done /\ at' = at
        /\ newest' = newest /\ shared' = shared
    BY <1>1 DEF StartCompaction, StartsNow, FileNames, history
  <2>2. comp' \in CompType
    BY <1>0, <2>1, Empty DEF CompType
  <2>3. comp'.pc = "merge" /\ comp'.run = clock /\ comp'.listed = FileNames /\ comp'.delete = {}
    BY <2>1 DEF Resting
  <2>4. ~EndCompaction /\ ~CrashCompaction
    BY <2>1 DEF EndCompaction, CrashCompaction
  <2>. QED
    BY <1>0, <1>1, <2>1, <2>2, <2>3, <2>4
<1>2. CASE EndCompaction
  <2>1. ~StartCompaction
    BY <1>2 DEF EndCompaction, StartCompaction
  <2>. QED
    BY <1>0, <1>2, <2>1, Empty DEF EndCompaction, time, history
<1>3. CASE CrashCompaction
  <2>1. ~StartCompaction /\ ~EndCompaction
    <3>1. ~StartCompaction
      BY <1>3 DEF CrashCompaction, StartCompaction
    <3>2. faults' # faults
      BY <1>0, <1>3 DEF CrashCompaction
    <3>. QED
      BY <3>1, <3>2 DEF EndCompaction
  <2>2. UNION {HeldIn(f.rows) : f \in {g \in files : g.name \in comp.delete}} \subseteq Reports
    BY DEF HeldIn
  <2>3. faults' \in 0 .. MaxFaults
    BY <1>0, <1>3 DEF CrashCompaction
  <2>. QED
    BY <1>0, <1>3, <2>1, <2>2, <2>3, Empty DEF CrashCompaction, time
<1>. QED
  BY <1>1, <1>2, <1>3

LEMMA MergeDoes ==
  ASSUME TypeOK, NEW dir \in Dirs, MergeDir(dir)
  PROVE  /\ comp.pc = "merge" /\ Listed(dir) # {} /\ files' = files \cup {MergedFile(dir)}
         /\ comp' \in CompType /\ comp'.pc = "delete" /\ comp'.run = comp.run
         /\ comp'.delete = Listed(dir) /\ comp'.listed = comp.listed \ Listed(dir)
         /\ silver' = silver /\ done' = done /\ at' = at /\ clock' = clock
         /\ started' = started /\ faults' = faults
         /\ newest' = newest /\ shared' = shared /\ torn' = torn
<1>1. /\ comp.pc = "merge" /\ dir \in ToMerge /\ files' = files \cup {MergedFile(dir)}
      /\ comp' = [comp EXCEPT !.pc = "delete", !.delete = Listed(dir),
                              !.listed = comp.listed \ Listed(dir)]
      /\ silver' = silver /\ done' = done /\ at' = at /\ clock' = clock
      /\ started' = started /\ faults' = faults
      /\ newest' = newest /\ shared' = shared /\ torn' = torn
  BY DEF MergeDir, MergedFile, time, history
<1>2. Listed(dir) # {}
  <2>1. Cardinality({}) = 0
    BY FS_EmptySet
  <2>. QED
    BY <1>1, <2>1 DEF ToMerge
<1>3. comp \in CompType /\ Listed(dir) \subseteq NameType /\ comp.listed \subseteq NameType
  BY ListedIs, CompFields DEF TypeOK
<1>4. comp' \in CompType
  BY <1>1, <1>3 DEF CompType
<1>5. /\ comp'.pc = "delete" /\ comp'.run = comp.run
      /\ comp'.delete = Listed(dir) /\ comp'.listed = comp.listed \ Listed(dir)
  BY <1>1, <1>3 DEF CompType
<1>. QED
  BY <1>1, <1>2, <1>4, <1>5

LEMMA DeleteDoes ==
  ASSUME FilesOK, CompInv, DeleteMerged
  PROVE  \E d \in comp.delete :
           /\ \A m \in comp.delete : m = d \/ Before(d, m)
           /\ files' = {f \in files : f.name # d}
           /\ comp.pc = "delete" /\ comp' \in CompType
           /\ comp'.pc = IF comp.delete = {d} THEN "merge" ELSE "delete"
           /\ comp'.run = comp.run /\ comp'.listed = comp.listed
           /\ comp'.delete = comp.delete \ {d}
           /\ silver' = silver /\ done' = done /\ at' = at /\ clock' = clock
           /\ started' = started /\ faults' = faults
           /\ newest' = newest /\ shared' = shared /\ torn' = torn
<1>. DEFINE d == ToDelete
<1>1. /\ comp.pc = "delete" /\ files' = {f \in files : f.name # d}
      /\ comp' = IF comp.delete = {d} THEN [comp EXCEPT !.pc = "merge", !.delete = {}]
                 ELSE [comp EXCEPT !.delete = comp.delete \ {d}]
      /\ silver' = silver /\ done' = done /\ at' = at /\ clock' = clock
      /\ started' = started /\ faults' = faults
      /\ newest' = newest /\ shared' = shared /\ torn' = torn
  BY DEF DeleteMerged, time, history
<1>2. comp \in CompType /\ comp.delete \subseteq NameType
  BY CompFields DEF FilesOK, TypeOK
<1>3. comp.delete # {} /\ \A m, n \in comp.delete : m.dir = n.dir
  BY <1>1 DEF CompInv
<1>4. IsFiniteSet(comp.delete)
  <2>1. IsFiniteSet(FileNames)
    BY NamesFinite DEF FilesOK, FileNames
  <2>. QED
    BY <2>1, FS_Subset DEF CompInv
<1>5. d \in comp.delete /\ \A m \in comp.delete : m = d \/ Before(d, m)
  BY <1>2, <1>3, <1>4, FirstIs DEF Names, ToDelete
<1>. HIDE DEF d
<1>6. comp' \in CompType
  BY <1>1, <1>2 DEF CompType
<1>7. /\ comp'.pc = IF comp.delete = {d} THEN "merge" ELSE "delete"
      /\ comp'.run = comp.run /\ comp'.listed = comp.listed
      /\ comp'.delete = comp.delete \ {d}
  BY <1>1, <1>2 DEF CompType
<1>. QED
  BY <1>1, <1>5, <1>6, <1>7

(* Types, names and hands are an inductive invariant ---------------------------- *)
LEMMA CompGrows ==
  ASSUME TypeOK, CompInv, comp' = comp, FileNames \subseteq FileNames',
         \A f \in files' : f.name.kind = "compacted" => f \in files,
         (clock' = clock /\ started \subseteq started') \/ clock' = clock + 1
  PROVE  CompInv'
<1>1. /\ comp.run \in Nat /\ clock \in Nat
      /\ \A f \in files : f.name.run \in Nat
  <2>1. clock \in Nat
    BY GoldAssumption DEF TypeOK
  <2>. QED
    BY <2>1, CompFields, NameFields DEF TypeOK
<1>2. \A f \in files' : f.name.kind = "compacted" =>
        f.name.run <= clock' /\ (f.name.run = clock' => "compaction" \in started')
  BY <1>1 DEF CompInv
<1>3. comp'.pc # "idle" => comp'.run <= clock' /\ (comp'.run = clock' => "compaction" \in started')
  BY <1>1 DEF CompInv
<1>4. \A n : Listed(n)' = Listed(n) /\ Target(n)' = Target(n)
  BY DEF Listed, Target
<1>5. comp'.listed \cup comp'.delete \subseteq FileNames'
  BY DEF CompInv
<1>6. \A f \in files' : (f.name.kind = "compacted" /\ Listed(f.name.dir)' # {}) =>
        f.name \in comp'.listed /\ f.name.run < comp'.run
  BY <1>4 DEF CompInv
<1>7. \A n \in comp'.delete :
        /\ Target(n)' \in FileNames' /\ Target(n)' \notin comp'.delete
        /\ Listed(n.dir)' = {} /\ \A m \in comp'.delete : m.dir = n.dir
        /\ \A f \in files' : (f.name.kind = "compacted" /\ f.name.dir = n.dir) =>
             f.name \in comp'.delete \/ f.name = Target(n)'
  BY <1>4 DEF CompInv
<1>8. /\ comp'.pc = "idle" => comp'.listed = {}
      /\ comp'.pc # "delete" <=> comp'.delete = {}
  BY DEF CompInv
<1>. QED
  BY <1>2, <1>3, <1>5, <1>6, <1>7, <1>8 DEF CompInv

LEMMA HandFrame ==
  ASSUME TypeOK, HandInv, at' = at, clock <= clock', clock' \in Nat, shared \subseteq shared'
  PROVE  HandInv'
<1>1. \A b \in Builders : at[b].run \in Nat
  BY BuilderFields DEF TypeOK
<1>2. clock \in Nat
  BY GoldAssumption DEF TypeOK
<1>3. \A b \in Builders : HandOf(b)'
  BY <1>1, <1>2 DEF HandInv, HandOf
<1>4. \A b, c \in Builders : b # c => InHand(b)' \cap InHand(c)' \subseteq shared'
  BY DEF HandInv, InHand
<1>. QED
  BY <1>3, <1>4 DEF HandInv

LEMMA HandStep ==
  ASSUME TypeOK, HandInv, NEW b \in Builders, OnlyAt(b), clock' = clock, shared \subseteq shared',
         HandOf(b)',
         \A c \in Builders \ {b} : InHand(b)' \cap InHand(c) \subseteq shared'
  PROVE  HandInv'
<1>1. \A c \in Builders \ {b} : at'[c] = at[c]
  BY DEF OnlyAt
<1>2. \A c \in Builders \ {b} : HandOf(c)' /\ InHand(c)' = InHand(c)
  BY <1>1 DEF HandInv, HandOf, InHand
<1>3. \A c, d \in Builders : c # d => InHand(c)' \cap InHand(d)' \subseteq shared'
  BY <1>2 DEF HandInv
<1>. QED
  BY <1>2, <1>3 DEF HandInv

LEMMA TypeStep ==
  ASSUME TypeOK,
         silver' = silver \/ silver' \in RowsType, files' = files, done' \subseteq Reports,
         at' \in [Builders -> BuilderType], comp' \in CompType,
         clock' \in 0 .. MaxClock, started' \subseteq Modes \cup {"compaction"},
         faults' \in 0 .. MaxFaults, newest' = newest \/ newest' \in [Dirs -> RowsType],
         shared' \subseteq Reports, torn' \subseteq Reports
  PROVE  TypeOK'
  BY DEF TypeOK

LEMMA StartSafe ==
  ASSUME SafeInv, NEW b \in Builders, StartBuild(b)
  PROVE  SafeInv'
<1>. USE DEF SafeInv, FilesOK
<1>1. /\ OnlyAt(b) /\ at'[b].running /\ at'[b].run = clock
      /\ at'[b].todo = Targets /\ at'[b].rows = NoRows /\ at'[b].writes = {}
      /\ Targets \subseteq Reports
      /\ started' = started \cup {b} /\ clock' = clock
      /\ shared' = shared \cup (Targets \cap (WrittenNow
                                            \cup UNION {InHand(c) : c \in Builders \ {b}}))
      /\ silver' = silver /\ files' = files /\ done' = done /\ faults' = faults
      /\ newest' = newest /\ torn' = torn
  BY StartDoes
<1>2. TypeOK'
  <2>1. comp' \in CompType /\ at' \in [Builders -> BuilderType]
    BY <1>1 DEF OnlyAt, TypeOK
  <2>2. shared' \subseteq Reports /\ started' \subseteq Modes \cup {"compaction"}
    BY <1>1, Directories DEF TypeOK
  <2>. QED
    BY <1>1, <2>1, <2>2, TypeStep DEF TypeOK
<1>3. CompInv'
  BY <1>1, CompGrows DEF FileNames, OnlyAt
<1>4. HandOf(b)'
  <2>1. clock \in Nat
    BY GoldAssumption DEF TypeOK
  <2>2. HeldIn(at'[b].rows) = {}
    BY <1>1, Empty
  <2>. QED
    BY <1>1, <2>1, <2>2 DEF HandOf
<1>5. \A c \in Builders \ {b} : InHand(b)' \cap InHand(c) \subseteq shared'
  <2>1. InHand(b)' = Targets
    BY <1>1, Empty DEF InHand
  <2>. QED
    BY <1>1, <2>1
<1>. QED
  BY <1>1, <1>2, <1>3, <1>4, <1>5, HandStep

LEMMA ReadSafe ==
  ASSUME SafeInv, NEW b \in Builders, NEW failing \in SUBSET Reports, ReadChunk(b, failing)
  PROVE  SafeInv'
<1>. USE DEF SafeInv, FilesOK
<1>. DEFINE chunk == FirstOf(at[b].todo, ChunkSize)
<1>1. /\ OnlyAt(b) /\ at[b].running /\ at'[b].running /\ HeldIn(at[b].rows) = {}
      /\ at'[b].run = at[b].run /\ at'[b].todo = at[b].todo \ chunk
      /\ at'[b].writes \subseteq {Facts, b}
      /\ HeldIn(at'[b].rows) = {} => at'[b].writes = {}
      /\ HeldIn(at'[b].rows) \subseteq chunk /\ chunk \subseteq at[b].todo
      /\ silver' = silver /\ files' = files /\ done' = done /\ clock' = clock
      /\ started' = started /\ faults' \in 0 .. MaxFaults
      /\ newest' = newest /\ shared' = shared /\ torn' = torn
  BY ReadDoes
<1>. HIDE DEF chunk
<1>2. TypeOK'
  <2>1. comp' \in CompType /\ at' \in [Builders -> BuilderType]
    BY <1>1 DEF OnlyAt, TypeOK
  <2>. QED
    BY <1>1, <2>1, TypeStep DEF TypeOK
<1>3. CompInv'
  BY <1>1, CompGrows DEF FileNames, OnlyAt
<1>4. HandOf(b)'
  BY <1>1 DEF HandOf, HandInv
<1>5. \A c \in Builders \ {b} : InHand(b)' \cap InHand(c) \subseteq shared'
  <2>1. InHand(b)' \subseteq InHand(b)
    BY <1>1 DEF InHand
  <2>. QED
    BY <1>1, <2>1 DEF HandInv
<1>. QED
  BY <1>1, <1>2, <1>3, <1>4, <1>5, HandStep

LEMMA MarkSafe ==
  ASSUME SafeInv, NEW b \in Builders, NEW r \in Reports, MarkDone(b, r)
  PROVE  SafeInv'
<1>. USE DEF SafeInv, FilesOK
<1>1. /\ OnlyAt(b) /\ at[b].writes = {} /\ at'[b].writes = {} /\ r \in HeldIn(at[b].rows)
      /\ at'[b].running = at[b].running /\ at'[b].run = at[b].run
      /\ at'[b].todo = at[b].todo /\ HeldIn(at'[b].rows) = HeldIn(at[b].rows) \ {r}
      /\ done' = done \cup {r}
      /\ silver' = silver /\ files' = files /\ clock' = clock /\ started' = started
      /\ faults' = faults /\ newest' = newest /\ shared' = shared /\ torn' = torn
  BY MarkDoes
<1>2. TypeOK'
  <2>1. comp' \in CompType /\ at' \in [Builders -> BuilderType] /\ done' \subseteq Reports
    BY <1>1 DEF OnlyAt, TypeOK
  <2>. QED
    BY <1>1, <2>1, TypeStep DEF TypeOK
<1>3. CompInv'
  BY <1>1, CompGrows DEF FileNames, OnlyAt
<1>4. HandOf(b)'
  <2>1. at[b].running
    BY <1>1, Empty DEF HandOf, HandInv
  <2>. QED
    BY <1>1, <2>1 DEF HandOf, HandInv
<1>5. \A c \in Builders \ {b} : InHand(b)' \cap InHand(c) \subseteq shared'
  <2>1. InHand(b)' \subseteq InHand(b)
    BY <1>1 DEF InHand
  <2>. QED
    BY <1>1, <2>1 DEF HandInv
<1>. QED
  BY <1>1, <1>2, <1>3, <1>4, <1>5, HandStep

LEMMA EndSafe ==
  ASSUME SafeInv, NEW b \in Builders, EndBuild(b) \/ CrashBuild(b)
  PROVE  SafeInv'
<1>. USE DEF SafeInv, FilesOK
<1>1. /\ OnlyAt(b) /\ at'[b] = Idle
      /\ torn' \in {torn, torn \cup HeldIn(at[b].rows)}
      /\ faults' \in 0 .. MaxFaults
      /\ silver' = silver /\ files' = files /\ done' = done
      /\ clock' = clock /\ started' = started /\ newest' = newest /\ shared' = shared
  BY EndDoes
<1>2. TypeOK'
  <2>1. comp' \in CompType /\ at' \in [Builders -> BuilderType]
    BY <1>1 DEF OnlyAt, TypeOK
  <2>2. torn' \subseteq Reports
    BY <1>1 DEF TypeOK, HeldIn
  <2>. QED
    BY <1>1, <2>1, <2>2, TypeStep DEF TypeOK
<1>3. CompInv'
  BY <1>1, CompGrows DEF FileNames, OnlyAt
<1>4. HandOf(b)' /\ InHand(b)' = {}
  <2>1. clock \in Nat
    BY GoldAssumption DEF TypeOK
  <2>. QED
    BY <1>1, <2>1, Empty DEF HandOf, InHand
<1>. QED
  BY <1>1, <1>2, <1>3, <1>4, HandStep

LEMMA WriteSafe ==
  ASSUME SafeInv, NEW b \in Builders, NEW dir \in Dirs, WriteFile(b, dir)
  PROVE  SafeInv'
<1>. USE DEF SafeInv, FilesOK
<1>1. /\ OnlyAt(b) /\ dir \in at[b].writes /\ at'[b].writes = at[b].writes \ {dir}
      /\ at'[b].running = at[b].running /\ at'[b].run = at[b].run
      /\ at'[b].todo = at[b].todo /\ at'[b].rows = at[b].rows
      /\ files' = (files \ Replaced(b, dir)) \cup {Written(b, dir)}
      /\ newest' \in [Dirs -> RowsType]
      /\ shared' = IF Replaced(b, dir) = {} THEN shared
           ELSE shared \cup HeldIn(Written(b, dir).rows)
                       \cup UNION {HeldIn(f.rows) : f \in Replaced(b, dir)}
      /\ silver' = silver /\ done' = done /\ clock' = clock /\ started' = started
      /\ faults' = faults /\ torn' = torn
  BY WriteDoes
<1>2. /\ Written(b, dir).name \in NameType /\ Written(b, dir).rows \in RowsType
      /\ Written(b, dir).name.kind = "part"
  BY WrittenIs
<1>3. \A f \in Replaced(b, dir) : f \in files /\ f.name = Written(b, dir).name
  BY DEF Replaced
<1>4. TypeOK'
  <2>1. comp' \in CompType /\ at' \in [Builders -> BuilderType]
    BY <1>1 DEF OnlyAt, TypeOK
  <2>2. shared \subseteq shared' /\ shared' \subseteq Reports
    BY <1>1 DEF TypeOK, HeldIn
  <2>3. \A f \in files' : f.name \in NameType /\ f.rows \in RowsType
    BY <1>1, <1>2 DEF TypeOK
  <2>4. \A f, g \in files' : f.name = g.name => f = g
    <3>1. \A f \in files \ Replaced(b, dir) : f.name # Written(b, dir).name
      BY DEF Replaced
    <3>. QED
      BY <1>1, <3>1 DEF TypeOK
  <2>. QED
    BY <1>1, <2>1, <2>2, <2>3, <2>4 DEF TypeOK
<1>5. IsFiniteSet(files')
  BY <1>1, FS_Subset, FS_AddElement
<1>6. CompInv'
  <2>1. FileNames \subseteq FileNames'
    <3>1. SUFFICES ASSUME NEW n \in FileNames PROVE n \in FileNames'
      OBVIOUS
    <3>2. PICK f \in files : f.name = n
      BY DEF FileNames
    <3>3. CASE f \in Replaced(b, dir)
      BY <1>1, <1>3, <3>2, <3>3 DEF FileNames
    <3>4. CASE f \notin Replaced(b, dir)
      BY <1>1, <3>2, <3>4 DEF FileNames
    <3>. QED
      BY <3>3, <3>4
  <2>2. \A f \in files' : f.name.kind = "compacted" => f \in files
    BY <1>1, <1>2
  <2>3. comp' = comp
    BY <1>1 DEF OnlyAt
  <2>. QED
    BY <1>1, <2>1, <2>2, <2>3, CompGrows
<1>7. HandOf(b)'
  <2>1. at[b].running
    BY <1>1, Empty DEF HandOf, HandInv
  <2>. QED
    BY <1>1, <2>1 DEF HandOf, HandInv
<1>8. \A c \in Builders \ {b} : InHand(b)' \cap InHand(c) \subseteq shared'
  <2>1. InHand(b)' = InHand(b)
    BY <1>1 DEF InHand
  <2>. QED
    BY <1>1, <2>1 DEF HandInv
<1>9. HandInv'
  BY <1>1, <1>7, <1>8, HandStep
<1>. QED
  BY <1>4, <1>5, <1>6, <1>9

LEMMA RestSafe ==
  ASSUME SafeInv, StartCompaction \/ EndCompaction \/ CrashCompaction
  PROVE  SafeInv'
<1>. USE DEF SafeInv, FilesOK
<1>1. /\ comp' \in CompType /\ comp'.delete = {}
      /\ StartCompaction =>
           /\ comp'.pc = "merge" /\ comp'.run = clock /\ comp'.listed = FileNames
           /\ "compaction" \notin started /\ started' = started \cup {"compaction"}
      /\ ~StartCompaction => comp' = Resting /\ started' = started
      /\ torn' \subseteq Reports
      /\ faults' \in 0 .. MaxFaults /\ clock' = clock
      /\ silver' = silver /\ files' = files /\ done' = done /\ at' = at
      /\ newest' = newest /\ shared' = shared
  BY RestDoes
<1>2. started \subseteq started' /\ started' \subseteq Modes \cup {"compaction"}
  BY <1>1 DEF TypeOK
<1>3. TypeOK'
  BY <1>1, <1>2, TypeStep DEF TypeOK
<1>4. clock \in Nat
  BY GoldAssumption DEF TypeOK
<1>5. HandInv'
  BY <1>1, <1>4, HandFrame
<1>6. \A f \in files' : f.name.kind = "compacted" =>
        f.name.run <= clock' /\ (f.name.run = clock' => "compaction" \in started')
  BY <1>1, <1>2 DEF CompInv
<1>7. ASSUME StartCompaction PROVE CompInv'
  <2>1. /\ comp'.pc = "merge" /\ comp'.run = clock /\ comp'.listed = FileNames
        /\ "compaction" \notin started /\ started' = started \cup {"compaction"}
    BY <1>1, <1>7
  <2>2. \A f \in files' : (f.name.kind = "compacted" /\ Listed(f.name.dir)' # {}) =>
          f.name \in comp'.listed /\ f.name.run < comp'.run
    <3>1. \A f \in files : f.name.run \in Nat
      BY NameFields DEF TypeOK
    <3>2. \A f \in files : f.name \in FileNames
      BY DEF FileNames
    <3>. QED
      BY <1>1, <1>4, <2>1, <3>1, <3>2 DEF CompInv
  <2>3. comp'.listed \cup comp'.delete \subseteq FileNames'
    BY <1>1, <2>1 DEF FileNames
  <2>4. \A n \in comp'.delete : FALSE
    BY <1>1
  <2>5. comp'.pc # "idle" => comp'.run <= clock' /\ (comp'.run = clock' => "compaction" \in started')
    BY <1>1, <1>4, <2>1
  <2>6. /\ comp'.pc = "idle" => comp'.listed = {}
        /\ comp'.pc # "delete" <=> comp'.delete = {}
    BY <1>1, <2>1
  <2>. QED
    BY <1>6, <2>2, <2>3, <2>4, <2>5, <2>6 DEF CompInv
<1>8. ASSUME ~StartCompaction PROVE CompInv'
  <2>1. comp'.pc = "idle" /\ comp'.listed = {} /\ comp'.delete = {}
    BY <1>1, <1>8, Empty
  <2>2. \A n : Listed(n)' = {}
    BY <2>1 DEF Listed
  <2>3. /\ comp'.listed \cup comp'.delete \subseteq FileNames'
        /\ \A n \in comp'.delete : FALSE
        /\ comp'.pc = "idle" => comp'.listed = {}
        /\ comp'.pc # "delete" <=> comp'.delete = {}
        /\ comp'.pc # "idle" => comp'.run <= clock' /\ (comp'.run = clock' => "compaction" \in started')
    BY <2>1
  <2>4. \A f \in files' : (f.name.kind = "compacted" /\ Listed(f.name.dir)' # {}) =>
          f.name \in comp'.listed /\ f.name.run < comp'.run
    BY <2>2
  <2>. QED
    BY <1>6, <2>3, <2>4 DEF CompInv
<1>. QED
  BY <1>1, <1>3, <1>5, <1>7, <1>8

LEMMA MergeSafe ==
  ASSUME SafeInv, NEW dir \in Dirs, MergeDir(dir)
  PROVE  SafeInv'
<1>. USE DEF SafeInv, FilesOK
<1>1. /\ comp.pc = "merge" /\ Listed(dir) # {} /\ files' = files \cup {MergedFile(dir)}
      /\ comp' \in CompType /\ comp'.pc = "delete" /\ comp'.run = comp.run
      /\ comp'.delete = Listed(dir) /\ comp'.listed = comp.listed \ Listed(dir)
      /\ silver' = silver /\ done' = done /\ at' = at /\ clock' = clock
      /\ started' = started /\ faults' = faults
      /\ newest' = newest /\ shared' = shared /\ torn' = torn
  BY MergeDoes
<1>2. /\ MergedFile(dir).name \in NameType /\ MergedFile(dir).rows \in RowsType
      /\ MergedFile(dir).name.dir = dir /\ MergedFile(dir).name.kind = "compacted"
      /\ MergedFile(dir).name.run = comp.run
      /\ MergedFile(dir).name = Name(dir, "compacted", comp.run, 0)
  BY MergedIs
<1>3. \A f \in files : f.name # MergedFile(dir).name
  <2>1. \A f \in files : (f.name.kind = "compacted" /\ f.name.dir = dir) => f.name.run < comp.run
    BY <1>1 DEF CompInv
  <2>2. comp.run \in Nat
    BY CompFields DEF TypeOK
  <2>. QED
    BY <1>2, <2>1, <2>2
<1>4. TypeOK'
  <2>1. \A f \in files' : f.name \in NameType /\ f.rows \in RowsType
    BY <1>1, <1>2 DEF TypeOK
  <2>2. \A f, g \in files' : f.name = g.name => f = g
    BY <1>1, <1>3 DEF TypeOK
  <2>. QED
    BY <1>1, <2>1, <2>2 DEF TypeOK
<1>5. IsFiniteSet(files')
  BY <1>1, FS_AddElement
<1>6. clock \in Nat
  BY GoldAssumption DEF TypeOK
<1>7. HandInv'
  BY <1>1, <1>6, HandFrame
<1>8. CompInv'
  <2>1. /\ FileNames \subseteq FileNames' /\ MergedFile(dir).name \in FileNames'
        /\ Listed(dir) \subseteq FileNames /\ comp.listed \subseteq FileNames
        /\ MergedFile(dir).name \notin FileNames
    BY <1>1, <1>3, ListedIs DEF FileNames, CompInv
  <2>2. /\ Listed(dir)' = {}
        /\ \A d : d # dir => Listed(d)' = Listed(d)
    BY <1>1 DEF Listed
  <2>3. \A n \in comp'.delete : n.dir = dir /\ Target(n)' = MergedFile(dir).name
    BY <1>1, <1>2, ListedIs DEF Target
  <2>4. \A f \in files' : f.name.kind = "compacted" =>
          f.name.run <= clock' /\ (f.name.run = clock' => "compaction" \in started')
    BY <1>1, <1>2 DEF CompInv
  <2>5. comp'.pc # "idle" => comp'.run <= clock' /\ (comp'.run = clock' => "compaction" \in started')
    BY <1>1 DEF CompInv
  <2>6. comp'.listed \cup comp'.delete \subseteq FileNames'
    BY <1>1, <2>1
  <2>7. \A f \in files' : (f.name.kind = "compacted" /\ Listed(f.name.dir)' # {}) =>
          f.name \in comp'.listed /\ f.name.run < comp'.run
    <3>1. SUFFICES ASSUME NEW f \in files', f.name.kind = "compacted", Listed(f.name.dir)' # {}
                   PROVE  f.name \in comp'.listed /\ f.name.run < comp'.run
      OBVIOUS
    <3>2. f.name.dir # dir /\ Listed(f.name.dir) # {}
      BY <2>2, <3>1
    <3>3. f \in files
      BY <1>1, <1>2, <3>2
    <3>4. f.name \in comp.listed /\ f.name.run < comp.run
      BY <3>1, <3>2, <3>3 DEF CompInv
    <3>. QED
      BY <1>1, <3>2, <3>4 DEF Listed
  <2>8. \A n \in comp'.delete :
          /\ Target(n)' \in FileNames' /\ Target(n)' \notin comp'.delete
          /\ Listed(n.dir)' = {} /\ \A m \in comp'.delete : m.dir = n.dir
          /\ \A f \in files' : (f.name.kind = "compacted" /\ f.name.dir = n.dir) =>
               f.name \in comp'.delete \/ f.name = Target(n)'
    <3>1. \A f \in files : (f.name.kind = "compacted" /\ f.name.dir = dir) => f.name \in Listed(dir)
      BY <1>1 DEF CompInv, Listed
    <3>2. \A f \in files' : (f.name.kind = "compacted" /\ f.name.dir = dir) =>
               f.name \in comp'.delete \/ f.name = MergedFile(dir).name
      BY <1>1, <3>1
    <3>3. MergedFile(dir).name \notin comp'.delete
      BY <1>1, <2>1
    <3>. QED
      BY <2>1, <2>2, <2>3, <3>2, <3>3
  <2>9. /\ comp'.pc = "idle" => comp'.listed = {}
        /\ comp'.pc # "delete" <=> comp'.delete = {}
    BY <1>1
  <2>. QED
    BY <2>4, <2>5, <2>6, <2>7, <2>8, <2>9 DEF CompInv
<1>. QED
  BY <1>4, <1>5, <1>7, <1>8

LEMMA DeleteSafe ==
  ASSUME SafeInv, DeleteMerged
  PROVE  SafeInv'
<1>. USE DEF SafeInv, FilesOK
<1>1. PICK d \in comp.delete :
        /\ files' = {f \in files : f.name # d}
        /\ comp.pc = "delete" /\ comp' \in CompType
        /\ comp'.pc = IF comp.delete = {d} THEN "merge" ELSE "delete"
        /\ comp'.run = comp.run /\ comp'.listed = comp.listed
        /\ comp'.delete = comp.delete \ {d}
        /\ silver' = silver /\ done' = done /\ at' = at /\ clock' = clock
        /\ started' = started /\ faults' = faults
        /\ newest' = newest /\ shared' = shared /\ torn' = torn
  BY DeleteDoes
<1>2. TypeOK'
  BY <1>1 DEF TypeOK
<1>3. IsFiniteSet(files')
  BY <1>1, FS_Subset
<1>4. clock \in Nat
  BY GoldAssumption DEF TypeOK
<1>5. HandInv'
  BY <1>1, <1>4, HandFrame
<1>6. CompInv'
  <2>1. FileNames' = FileNames \ {d}
    BY <1>1 DEF FileNames
  <2>2. \A n : Listed(n)' = Listed(n) /\ Target(n)' = Target(n)
    BY <1>1 DEF Listed, Target
  <2>3. d \notin comp.listed
    <3>1. Listed(d.dir) = {}
      BY <1>1 DEF CompInv
    <3>. QED
      BY <3>1 DEF Listed
  <2>4. comp'.listed \cup comp'.delete \subseteq FileNames'
    BY <1>1, <2>1, <2>3 DEF CompInv
  <2>5. \A n \in comp'.delete :
          /\ Target(n)' \in FileNames' /\ Target(n)' \notin comp'.delete
          /\ Listed(n.dir)' = {} /\ \A m \in comp'.delete : m.dir = n.dir
          /\ \A f \in files' : (f.name.kind = "compacted" /\ f.name.dir = n.dir) =>
               f.name \in comp'.delete \/ f.name = Target(n)'
    BY <1>1, <2>1, <2>2 DEF CompInv
  <2>6. \A f \in files' : (f.name.kind = "compacted" /\ Listed(f.name.dir)' # {}) =>
          f.name \in comp'.listed /\ f.name.run < comp'.run
    BY <1>1, <2>2 DEF CompInv
  <2>7. /\ \A f \in files' : f.name.kind = "compacted" =>
             f.name.run <= clock' /\ (f.name.run = clock' => "compaction" \in started')
        /\ comp'.pc # "idle" => comp'.run <= clock' /\ (comp'.run = clock' => "compaction" \in started')
    BY <1>1 DEF CompInv
  <2>8. /\ comp'.pc = "idle" => comp'.listed = {}
        /\ comp'.pc # "delete" <=> comp'.delete = {}
    BY <1>1
  <2>. QED
    BY <2>4, <2>5, <2>6, <2>7, <2>8 DEF CompInv
<1>. QED
  BY <1>2, <1>3, <1>5, <1>6

LEMMA SilverDoes ==
  ASSUME TypeOK, NEW r \in Reports, SilverWrites(r)
  PROVE  /\ silver' \in RowsType /\ \A q \in Reports : silver[q] # 0 => silver'[q] # 0
         /\ files' = files /\ done' = done /\ at' = at /\ comp' = comp /\ clock' = clock
         /\ started' = started /\ faults' = faults
         /\ newest' = newest /\ shared' = shared /\ torn' = torn
<1>1. silver' = [silver EXCEPT ![r] = silver[r] + 1] /\ silver \in RowsType
  BY DEF SilverWrites, TypeOK
<1>2. silver' \in RowsType /\ \A q \in Reports : silver[q] # 0 => silver'[q] # 0
  BY <1>1 DEF RowsType
<1>. QED
  BY <1>2 DEF SilverWrites, process, time, history

LEMMA TickDoes ==
  ASSUME TypeOK, Tick
  PROVE  /\ clock' \in 0 .. MaxClock /\ clock' = clock + 1 /\ clock \in Nat /\ clock' \in Nat
         /\ started' = {} /\ silver' = silver /\ files' = files /\ done' = done /\ at' = at
         /\ comp' = comp /\ faults' = faults
         /\ newest' = newest /\ shared' = shared /\ torn' = torn
<1>1. clock \in 0 .. MaxClock /\ MaxClock \in Nat /\ clock < MaxClock /\ clock' = clock + 1
  BY GoldAssumption DEF Tick, TypeOK
<1>. QED
  BY <1>1 DEF Tick, process, history

LEMMA InitSafe == Init => SafeInv
<1>. SUFFICES ASSUME Init PROVE SafeInv
  OBVIOUS
<1>1. silver \in RowsType
  BY DEF Init, RowsType
<1>2. newest \in [Dirs -> RowsType] /\ at \in [Builders -> BuilderType]
  BY Empty DEF Init
<1>3. clock \in 0 .. MaxClock /\ faults \in 0 .. MaxFaults
  BY GoldAssumption DEF Init
<1>4. TypeOK
  BY <1>1, <1>2, <1>3, Empty DEF Init, TypeOK
<1>5. IsFiniteSet(files)
  BY FS_EmptySet DEF Init
<1>6. CompInv
  BY Empty DEF Init, CompInv, Listed
<1>7. HandInv
  <2>1. \A b \in Builders : at[b] = Idle
    BY DEF Init
  <2>2. \A b \in Builders : HandOf(b) /\ InHand(b) = {}
    BY <2>1, Empty DEF HandOf, InHand, Init
  <2>. QED
    BY <2>2 DEF HandInv
<1>. QED
  BY <1>4, <1>5, <1>6, <1>7 DEF SafeInv, FilesOK

(* Next, by what a step changes.                                              *)
LEMMA Steps ==
  ASSUME Next
  PROVE  \/ \E r \in Reports : SilverWrites(r)
         \/ Tick
         \/ \E b \in Builders : StartBuild(b)
         \/ \E b \in Builders, failing \in SUBSET Reports : ReadChunk(b, failing)
         \/ \E b \in Builders, dir \in Dirs : WriteFile(b, dir)
         \/ \E b \in Builders, r \in Reports : MarkDone(b, r)
         \/ \E b \in Builders : EndBuild(b) \/ CrashBuild(b)
         \/ StartCompaction \/ EndCompaction \/ CrashCompaction
         \/ \E dir \in Dirs : MergeDir(dir)
         \/ DeleteMerged
  BY DEF Next, BuildStep, CompactionStep

LEMMA SafeStep == SafeInv /\ [Next]_vars => SafeInv'
<1>. SUFFICES ASSUME SafeInv, [Next]_vars PROVE SafeInv'
  OBVIOUS
<1>0. TypeOK /\ CompInv /\ HandInv /\ IsFiniteSet(files)
  BY DEF SafeInv, FilesOK
<1>1. ASSUME NEW r \in Reports, SilverWrites(r) PROVE SafeInv'
  <2>1. /\ silver' \in RowsType /\ files' = files /\ done' = done /\ at' = at /\ comp' = comp
        /\ clock' = clock /\ started' = started /\ faults' = faults
        /\ newest' = newest /\ shared' = shared /\ torn' = torn
    BY <1>0, <1>1, SilverDoes
  <2>2. TypeOK'
    BY <1>0, <2>1, TypeStep DEF TypeOK
  <2>3. CompInv'
    BY <1>0, <2>1, CompGrows DEF FileNames
  <2>4. HandInv'
    <3>1. clock \in Nat
      BY <1>0, GoldAssumption DEF TypeOK
    <3>. QED
      BY <1>0, <2>1, <3>1, HandFrame
  <2>. QED
    BY <1>0, <2>1, <2>2, <2>3, <2>4 DEF SafeInv, FilesOK
<1>2. ASSUME Tick PROVE SafeInv'
  <2>1. /\ clock' \in 0 .. MaxClock /\ clock' = clock + 1 /\ clock \in Nat /\ clock' \in Nat
        /\ started' = {} /\ silver' = silver /\ files' = files /\ done' = done /\ at' = at
        /\ comp' = comp /\ faults' = faults
        /\ newest' = newest /\ shared' = shared /\ torn' = torn
    BY <1>0, <1>2, TickDoes
  <2>2. TypeOK'
    BY <1>0, <2>1, TypeStep DEF TypeOK
  <2>3. CompInv'
    BY <1>0, <2>1, CompGrows DEF FileNames
  <2>4. HandInv'
    BY <1>0, <2>1, HandFrame
  <2>. QED
    BY <1>0, <2>1, <2>2, <2>3, <2>4 DEF SafeInv, FilesOK
<1>3. CASE UNCHANGED vars
  <2>1. /\ silver' = silver /\ files' = files /\ done' = done /\ at' = at /\ comp' = comp
        /\ clock' = clock /\ started' = started /\ faults' = faults
        /\ newest' = newest /\ shared' = shared /\ torn' = torn
    BY <1>3 DEF vars, process, time, history
  <2>2. TypeOK'
    BY <1>0, <2>1, TypeStep DEF TypeOK
  <2>3. CompInv'
    BY <1>0, <2>1, CompGrows DEF FileNames
  <2>4. HandInv'
    <3>1. clock \in Nat
      BY <1>0, GoldAssumption DEF TypeOK
    <3>. QED
      BY <1>0, <2>1, <3>1, HandFrame
  <2>. QED
    BY <1>0, <2>1, <2>2, <2>3, <2>4 DEF SafeInv, FilesOK
<1>4. CASE Next
  BY <1>1, <1>2, <1>4, Steps, StartSafe, ReadSafe, WriteSafe, MarkSafe, EndSafe, RestSafe,
     MergeSafe, DeleteSafe
<1>. QED
  BY <1>3, <1>4

LEMMA SafeAlways == Spec => []SafeInv
  BY InitSafe, SafeStep, PTL DEF Spec

(* No two files ever have one name, and every variable has its type.           *)
THEOREM TypeCorrect == Spec => []TypeOK
<1>1. SafeInv => TypeOK
  BY DEF SafeInv, FilesOK
<1>. QED
  BY <1>1, SafeAlways, PTL

(* The newest row is the one that counts ---------------------------------------- *)
Holds(f, dir, r) == f.name.dir = dir /\ f.rows[r] # 0

(* A report that is still to come, or to be written into a directory, has older  *)
(* files only: names follow the order of the runs.                            *)
OrderInv ==
  \A f \in files : f.name.kind = "part" =>
    /\ f.name.run <= clock
    /\ \A b \in Builders, r \in HeldIn(f.rows) \ shared :
         (r \in at[b].todo \/ (r \in HeldIn(at[b].rows) /\ f.name.dir \in at[b].writes))
         => f.name.run < at[b].run

(* v is the row of r in the last of the files F that hold one, 0 if none does.   *)
Shows(F, dir, r, v) ==
  IF v = 0 THEN \A f \in F : ~Holds(f, dir, r)
  ELSE \E f \in F : /\ Holds(f, dir, r) /\ f.rows[r] = v
                    /\ \A g \in F : Holds(g, dir, r) => g = f \/ Before(g.name, f.name)

NewestInv == \A dir \in Dirs, r \in Reports \ shared : Shows(files, dir, r, newest[dir][r])

(* What the compaction did not list was written after what it listed, ...        *)
OldNames == comp.listed \cup comp.delete

LaterInv ==
  \A f, g \in files :
    (f.name \in OldNames /\ g.name \notin OldNames /\ g.name.kind = "part" /\ f.name.dir = g.name.dir)
    => \A r \in (HeldIn(f.rows) \cap HeldIn(g.rows)) \ shared : Before(f.name, g.name)

(* ... and the merged file has the last rows of the files that are not deleted. *)
Uppermost(f, r) ==
  \A g \in files : (g.name \in comp.delete /\ g.rows[r] # 0) => g = f \/ Before(g.name, f.name)

MergedInv ==
  \A f \in files : f.name \in comp.delete =>
    \A r \in HeldIn(f.rows) \ shared :
      Uppermost(f, r) => \E c \in files : c.name = Target(f.name) /\ c.rows[r] = f.rows[r]

LEMMA ShowsSame ==
  ASSUME NEW F, NEW G, NEW dir, NEW r, NEW v, Shows(F, dir, r, v),
         \A f : Holds(f, dir, r) => (f \in F <=> f \in G)
  PROVE  Shows(G, dir, r, v)
  BY DEF Shows

LEMMA HeldIs ==
  ASSUME TypeOK, NEW f \in files, NEW r
  PROVE  r \in HeldIn(f.rows) <=> r \in Reports /\ f.rows[r] # 0
  BY DEF HeldIn

(* Steps that change no file, no newest row and no compaction.                   *)
LEMMA KeptFrame ==
  ASSUME files' = files, newest' = newest, comp' = comp, shared \subseteq shared',
         NewestInv, LaterInv, MergedInv
  PROVE  NewestInv' /\ LaterInv' /\ MergedInv'
<1>1. NewestInv'
  BY DEF NewestInv
<1>2. LaterInv'
  BY DEF LaterInv, OldNames
<1>3. MergedInv'
  BY DEF MergedInv, Uppermost, Target
<1>. QED
  BY <1>1, <1>2, <1>3

(* What WriteFile leaves of the reports that are not in the history.             *)
LEMMA WriteLeaves ==
  ASSUME SafeInv, OrderInv, NEW b \in Builders, NEW dir \in Dirs, WriteFile(b, dir),
         NEW r \in Reports \ shared'
  PROVE  LET N == Written(b, dir)
         IN /\ \A g \in files : g.rows[r] # 0 => g \in files' /\ g # N
            /\ \A g \in files' : g \in files \/ g = N
            /\ N.rows[r] # 0 => \A g \in files : g.name # N.name
            /\ N.rows[r] # 0 => \A g \in files :
                 (g.name.dir = dir /\ g.rows[r] # 0) => Before(g.name, N.name)
<1>. DEFINE N == Written(b, dir)
<1>. USE DEF SafeInv, FilesOK
<1>1. /\ files' = (files \ Replaced(b, dir)) \cup {N} /\ dir \in at[b].writes
      /\ shared' = IF Replaced(b, dir) = {} THEN shared
           ELSE shared \cup HeldIn(N.rows)
                       \cup UNION {HeldIn(f.rows) : f \in Replaced(b, dir)}
  BY WriteDoes
<1>2. /\ N.name \in NameType /\ N.name.kind = "part" /\ N.name.run = at[b].run
      /\ HeldIn(N.rows) \subseteq HeldIn(at[b].rows)
  BY WrittenIs
<1>. HIDE DEF N
<1>3. \A g : g \in Replaced(b, dir) <=> g \in files /\ g.name = N.name
  BY DEF Replaced, N
<1>4. \A g \in files : g.rows[r] # 0 => g \notin Replaced(b, dir)
  <2>1. SUFFICES ASSUME NEW g \in files, g.rows[r] # 0, g \in Replaced(b, dir) PROVE FALSE
    OBVIOUS
  <2>2. r \in HeldIn(g.rows)
    BY <2>1 DEF HeldIn
  <2>. QED
    BY <1>1, <2>1, <2>2
<1>5. ASSUME N.rows[r] # 0 PROVE Replaced(b, dir) = {}
  <2>1. r \in HeldIn(N.rows)
    BY <1>5 DEF HeldIn
  <2>. QED
    BY <1>1, <2>1
<1>6. ASSUME N.rows[r] # 0, NEW g \in files, g.name.dir = dir, g.rows[r] # 0
      PROVE  Before(g.name, N.name)
  <2>1. g.name.kind \in {"part", "compacted"}
    BY NameFields DEF TypeOK
  <2>2. CASE g.name.kind = "part"
    <3>1. r \in HeldIn(g.rows) \ shared /\ r \in HeldIn(at[b].rows)
      BY <1>1, <1>2, <1>6 DEF HeldIn
    <3>2. g.name.run < at[b].run
      BY <1>1, <1>6, <2>2, <3>1 DEF OrderInv
    <3>. QED
      BY <1>2, <2>2, <3>2 DEF Before
  <2>3. CASE g.name.kind = "compacted"
    BY <1>2, <2>3 DEF Before
  <2>. QED
    BY <2>1, <2>2, <2>3
<1>7. \A g \in files : g.rows[r] # 0 => g \in files' /\ g # N
  <2>1. SUFFICES ASSUME NEW g \in files, g.rows[r] # 0 PROVE g \in files' /\ g # N
    OBVIOUS
  <2>2. g \notin Replaced(b, dir)
    BY <1>4, <2>1
  <2>. QED
    BY <1>1, <1>3, <2>2
<1>8. N.rows[r] # 0 => \A g \in files : g.name # N.name
  BY <1>3, <1>5
<1>. QED
  BY <1>1, <1>6, <1>7, <1>8 DEF N

KeptInv == OrderInv /\ NewestInv /\ LaterInv /\ MergedInv

LEMMA WriteKeeps ==
  ASSUME SafeInv, KeptInv, NEW b \in Builders, NEW dir \in Dirs, WriteFile(b, dir)
  PROVE  KeptInv'
<1>. DEFINE N == Written(b, dir)
<1>. USE DEF SafeInv, FilesOK, KeptInv
<1>1. /\ OnlyAt(b) /\ dir \in at[b].writes /\ at'[b].writes = at[b].writes \ {dir}
      /\ at'[b].run = at[b].run /\ at'[b].todo = at[b].todo /\ at'[b].rows = at[b].rows
      /\ files' = (files \ Replaced(b, dir)) \cup {N}
      /\ \A d \in Dirs, r \in Reports : newest'[d][r] =
           IF d = dir /\ N.rows[r] # 0 THEN N.rows[r] ELSE newest[d][r]
      /\ shared \subseteq shared' /\ clock' = clock
  BY WriteDoes
<1>2. /\ N.name \in NameType /\ N.name.kind = "part" /\ N.name.run = at[b].run
      /\ N.name.dir = dir /\ N.rows \in RowsType
      /\ HeldIn(N.rows) \subseteq HeldIn(at[b].rows)
  BY WrittenIs
<1>3. \A r \in Reports \ shared' :
        /\ \A g \in files : g.rows[r] # 0 => g \in files' /\ g # N
        /\ \A g \in files' : g \in files \/ g = N
        /\ N.rows[r] # 0 => \A g \in files : g.name # N.name
        /\ N.rows[r] # 0 => \A g \in files :
             (g.name.dir = dir /\ g.rows[r] # 0) => Before(g.name, N.name)
  BY WriteLeaves
<1>4. \A g \in files' : g \in files \/ g = N
  BY <1>1
<1>. HIDE DEF N
<1>5. comp' = comp /\ \A c \in Builders \ {b} : at'[c] = at[c]
  BY <1>1 DEF OnlyAt
<1>6. OrderInv'
  <2>1. SUFFICES ASSUME NEW f \in files', f.name.kind = "part"
                 PROVE  /\ f.name.run <= clock'
                        /\ \A c \in Builders, r \in HeldIn(f.rows) \ shared' :
                             (r \in at'[c].todo \/ (r \in HeldIn(at'[c].rows) /\ f.name.dir \in at'[c].writes))
                             => f.name.run < at'[c].run
    BY DEF OrderInv
  <2>2. CASE f \in files
    <3>1. f.name.run <= clock'
      BY <1>1, <2>1, <2>2 DEF OrderInv
    <3>2. ASSUME NEW c \in Builders, NEW r \in HeldIn(f.rows) \ shared',
                 r \in at'[c].todo \/ (r \in HeldIn(at'[c].rows) /\ f.name.dir \in at'[c].writes)
          PROVE  f.name.run < at'[c].run
      <4>1. /\ at'[c].run = at[c].run /\ at'[c].todo = at[c].todo /\ at'[c].rows = at[c].rows
            /\ at'[c].writes \subseteq at[c].writes
        BY <1>1, <1>5
      <4>2. r \in HeldIn(f.rows) \ shared
        BY <1>1, <3>2
      <4>. QED
        BY <2>1, <2>2, <3>2, <4>1, <4>2 DEF OrderInv
    <3>. QED
      BY <3>1, <3>2
  <2>3. CASE f = N
    <3>1. f.name.run <= clock'
      BY <1>1, <1>2, <2>3 DEF HandInv, HandOf
    <3>2. ASSUME NEW c \in Builders, NEW r \in HeldIn(f.rows) \ shared',
                 r \in at'[c].todo \/ (r \in HeldIn(at'[c].rows) /\ f.name.dir \in at'[c].writes)
          PROVE  FALSE
      <4>1. r \in HeldIn(at[b].rows) /\ r \notin shared
        BY <1>1, <1>2, <2>3, <3>2
      <4>2. CASE c = b
        BY <1>1, <1>2, <2>3, <3>2, <4>1, <4>2 DEF HandInv, HandOf
      <4>3. CASE c # b
        BY <1>5, <3>2, <4>1, <4>3 DEF HandInv, InHand
      <4>. QED
        BY <4>2, <4>3
    <3>. QED
      BY <3>1, <3>2
  <2>. QED
    BY <1>4, <2>2, <2>3
<1>7. NewestInv'
  <2>1. SUFFICES ASSUME NEW d \in Dirs, NEW r \in Reports \ shared'
                 PROVE  Shows(files', d, r, newest'[d][r])
    BY DEF NewestInv
  <2>2. Shows(files, d, r, newest[d][r])
    BY <1>1 DEF NewestInv
  <2>3. CASE d = dir /\ N.rows[r] # 0
    <3>1. newest'[d][r] = N.rows[r] /\ N.rows[r] # 0 /\ N \in files' /\ Holds(N, d, r)
      BY <1>1, <1>2, <2>3 DEF Holds
    <3>2. \A g \in files' : Holds(g, d, r) => g = N \/ Before(g.name, N.name)
      BY <1>3, <2>3, <3>1 DEF Holds
    <3>. QED
      BY <3>1, <3>2 DEF Shows
  <2>4. CASE ~(d = dir /\ N.rows[r] # 0)
    <3>1. newest'[d][r] = newest[d][r] /\ ~Holds(N, d, r)
      BY <1>1, <1>2, <2>4 DEF Holds
    <3>2. \A f : Holds(f, d, r) => (f \in files <=> f \in files')
      BY <1>3, <3>1 DEF Holds
    <3>. QED
      BY <2>2, <3>1, <3>2, ShowsSame
  <2>. QED
    BY <2>3, <2>4
<1>8. LaterInv'
  <2>1. SUFFICES ASSUME NEW f \in files', NEW g \in files',
                        f.name \in OldNames, g.name \notin OldNames, g.name.kind = "part",
                        f.name.dir = g.name.dir,
                        NEW r \in (HeldIn(f.rows) \cap HeldIn(g.rows)) \ shared'
                 PROVE  Before(f.name, g.name)
    BY <1>5 DEF LaterInv, OldNames
  <2>2. r \in Reports \ shared' /\ f.rows[r] # 0 /\ g.rows[r] # 0
    BY <2>1 DEF HeldIn
  <2>3. f \in files
    <3>1. CASE f = N
      <4>1. \A h \in files : h.name # N.name
        BY <1>3, <2>2, <3>1
      <4>2. N.name \in FileNames
        BY <2>1, <3>1 DEF CompInv, OldNames
      <4>. QED
        BY <4>1, <4>2 DEF FileNames
    <3>. QED
      BY <1>4, <3>1
  <2>4. CASE g \in files
    BY <1>1, <2>1, <2>3, <2>4 DEF LaterInv
  <2>5. CASE g = N
    BY <1>2, <1>3, <2>1, <2>2, <2>3, <2>5
  <2>. QED
    BY <1>4, <2>4, <2>5
<1>9. MergedInv'
  <2>1. SUFFICES ASSUME NEW f \in files', f.name \in comp.delete,
                        NEW r \in HeldIn(f.rows) \ shared',
                        \A g \in files' : (g.name \in comp.delete /\ g.rows[r] # 0)
                                          => g = f \/ Before(g.name, f.name)
                 PROVE  \E c \in files' : c.name = Target(f.name) /\ c.rows[r] = f.rows[r]
    BY <1>5 DEF MergedInv, Uppermost, Target
  <2>2. r \in Reports \ shared' /\ f.rows[r] # 0
    BY <2>1 DEF HeldIn
  <2>3. f \in files
    <3>1. CASE f = N
      <4>1. \A h \in files : h.name # N.name
        BY <1>3, <2>2, <3>1
      <4>2. N.name \in FileNames
        BY <2>1, <3>1 DEF CompInv
      <4>. QED
        BY <4>1, <4>2 DEF FileNames
    <3>. QED
      BY <1>4, <3>1
  <2>4. Uppermost(f, r)
    BY <1>3, <2>1, <2>2 DEF Uppermost
  <2>5. PICK c \in files : c.name = Target(f.name) /\ c.rows[r] = f.rows[r]
    BY <1>1, <2>1, <2>3, <2>4 DEF MergedInv
  <2>6. c \in files'
    BY <1>3, <2>2, <2>5
  <2>. QED
    BY <2>5, <2>6
<1>. QED
  BY <1>6, <1>7, <1>8, <1>9

LEMMA MergeKeeps ==
  ASSUME SafeInv, KeptInv, NEW dir \in Dirs, MergeDir(dir)
  PROVE  KeptInv'
<1>. DEFINE N == MergedFile(dir)
            L == Listed(dir)
<1>. USE DEF SafeInv, FilesOK, KeptInv
<1>1. /\ comp.pc = "merge" /\ L # {} /\ files' = files \cup {N}
      /\ comp'.run = comp.run /\ comp'.delete = L /\ comp'.listed = comp.listed \ L
      /\ at' = at /\ clock' = clock /\ newest' = newest /\ shared' = shared
  BY MergeDoes
<1>2. /\ N.name \in NameType /\ N.name.dir = dir /\ N.name.kind = "compacted"
      /\ N.name.run = comp.run /\ N.name = Name(dir, "compacted", comp.run, 0)
      /\ \A r \in Reports : N.rows[r] = Winner(L, r)
  BY MergedIs
<1>3. L \subseteq comp.listed /\ (\A n \in L : n.dir = dir) /\ OneDir(L)
      /\ \A n \in comp.listed : n.dir = dir => n \in L
  BY ListedIs DEF Listed
<1>4. \A g \in files : (g.name.kind = "compacted" /\ g.name.dir = dir) =>
        g.name \in L /\ g.name.run < comp.run
  BY <1>1, <1>3 DEF CompInv
<1>5. /\ \A g \in files : g.name \in NameType /\ g.name.kind \in {"part", "compacted"}
                          /\ g.name.run \in Nat
      /\ comp.run \in Nat
  BY CompFields, NameFields DEF TypeOK
<1>6. N \notin files /\ \A g \in files : g.name # N.name
  BY <1>2, <1>4, <1>5
<1>. HIDE DEF N, L
<1>7. OrderInv'
  BY <1>1, <1>2 DEF OrderInv
<1>8. NewestInv'
  <2>1. SUFFICES ASSUME NEW d \in Dirs, NEW r \in Reports \ shared
                 PROVE  Shows(files', d, r, newest[d][r])
    BY <1>1 DEF NewestInv
  <2>2. Shows(files, d, r, newest[d][r])
    BY DEF NewestInv
  <2>3. CASE ~Holds(N, d, r)
    <3>1. \A f : Holds(f, d, r) => (f \in files <=> f \in files')
      BY <1>1, <2>3
    <3>. QED
      BY <2>2, <3>1, ShowsSame
  <2>4. CASE Holds(N, d, r)
    <3>0. d = dir /\ N.rows[r] # 0 /\ N.rows[r] = Winner(L, r)
      BY <1>2, <2>4 DEF Holds
    <3>1. PICK t \in files : Tops(t, L, r) /\ Winner(L, r) = t.rows[r]
      BY <1>3, <3>0, WinnerCases
    <3>2. Holds(t, d, r)
      BY <1>3, <3>0, <3>1 DEF Tops, Holds
    <3>3. newest[d][r] # 0
      BY <2>2, <3>2 DEF Shows
    <3>4. PICK f \in files : /\ Holds(f, d, r) /\ f.rows[r] = newest[d][r]
                             /\ \A g \in files : Holds(g, d, r) => g = f \/ Before(g.name, f.name)
      BY <2>2, <3>3 DEF Shows
    <3>5. CASE f.name.kind = "part"
      <4>1. Before(N.name, f.name)
        BY <1>2, <3>5 DEF Before
      <4>. QED
        BY <1>1, <3>3, <3>4, <4>1 DEF Shows
    <3>6. CASE f.name.kind = "compacted"
      <4>1. f.name \in L /\ f.name.run < comp.run
        BY <1>4, <3>0, <3>4, <3>6 DEF Holds
      <4>2. Before(f.name, N.name)
        BY <1>2, <3>6, <4>1 DEF Before
      <4>3. f = t
        <5>1. t = f \/ Before(t.name, f.name)
          BY <3>2, <3>4
        <5>2. f = t \/ Before(f.name, t.name)
          BY <3>1, <3>4, <4>1 DEF Tops, Holds
        <5>. QED
          BY <1>5, <5>1, <5>2, BeforeStrict
      <4>4. \A g \in files' : Holds(g, d, r) => g = N \/ Before(g.name, N.name)
        <5>1. SUFFICES ASSUME NEW g \in files, Holds(g, d, r) PROVE Before(g.name, N.name)
          BY <1>1
        <5>2. g = f \/ Before(g.name, f.name)
          BY <3>4, <5>1
        <5>. QED
          BY <1>2, <1>5, <4>2, <5>2, BeforeChain
      <4>5. N \in files' /\ N.rows[r] = newest[d][r]
        BY <1>1, <3>0, <3>1, <3>4, <4>3
      <4>. QED
        BY <2>4, <3>3, <4>4, <4>5 DEF Shows
    <3>. QED
      BY <1>5, <3>5, <3>6
  <2>. QED
    BY <2>3, <2>4
<1>9. LaterInv'
  <2>1. comp.delete = {}
    BY <1>1 DEF CompInv
  <2>2. OldNames' = OldNames
    BY <1>1, <1>3, <2>1 DEF OldNames
  <2>3. N.name \notin OldNames
    <3>1. OldNames \subseteq FileNames
      BY DEF CompInv, OldNames
    <3>. QED
      BY <1>6, <3>1 DEF FileNames
  <2>. QED
    BY <1>1, <1>2, <2>2, <2>3 DEF LaterInv
<1>10. MergedInv'
  <2>1. SUFFICES ASSUME NEW f \in files', f.name \in L, NEW r \in HeldIn(f.rows) \ shared,
                        \A g \in files' : (g.name \in L /\ g.rows[r] # 0)
                                          => g = f \/ Before(g.name, f.name)
                 PROVE  \E c \in files' : c.name = Target(f.name)' /\ c.rows[r] = f.rows[r]
    BY <1>1 DEF MergedInv, Uppermost
  <2>2. Target(f.name)' = N.name
    BY <1>1, <1>2, <1>3, <2>1 DEF Target
  <2>3. f \in files
    <3>1. L \subseteq FileNames
      BY <1>3 DEF CompInv
    <3>2. f # N
      BY <1>6, <2>1, <3>1 DEF FileNames
    <3>. QED
      BY <1>1, <3>2
  <2>4. r \in Reports /\ Tops(f, L, r)
    BY <1>1, <2>1, <2>3 DEF Tops, HeldIn
  <2>5. N.rows[r] = f.rows[r]
    BY <1>2, <1>3, <2>4, WinnerTop
  <2>. QED
    BY <1>1, <2>2, <2>5
<1>. QED
  BY <1>7, <1>8, <1>9, <1>10

LEMMA DeleteKeeps ==
  ASSUME SafeInv, KeptInv, DeleteMerged
  PROVE  KeptInv'
<1>. USE DEF SafeInv, FilesOK, KeptInv
<1>1. PICK d \in comp.delete :
        /\ \A m \in comp.delete : m = d \/ Before(d, m)
        /\ files' = {f \in files : f.name # d}
        /\ comp'.run = comp.run /\ comp'.listed = comp.listed /\ comp'.delete = comp.delete \ {d}
        /\ at' = at /\ clock' = clock /\ newest' = newest /\ shared' = shared
  BY DeleteDoes
<1>2. PICK e \in files : e.name = d
  BY DEF CompInv, FileNames
<1>3. \A g \in files : g \in files' <=> g # e
  BY <1>1, <1>2 DEF TypeOK
<1>4. files' \subseteq files
  BY <1>1
<1>5. \A g \in files : g.name \in NameType /\ g.name.kind \in {"part", "compacted"}
  BY NameFields DEF TypeOK
<1>6. d \notin comp.listed
  BY DEF CompInv, Listed
<1>7. OrderInv'
  BY <1>1, <1>4 DEF OrderInv
<1>8. NewestInv'
  <2>1. SUFFICES ASSUME NEW dir \in Dirs, NEW r \in Reports \ shared
                 PROVE  Shows(files', dir, r, newest[dir][r])
    BY <1>1 DEF NewestInv
  <2>2. Shows(files, dir, r, newest[dir][r])
    BY DEF NewestInv
  <2>3. CASE ~Holds(e, dir, r)
    <3>1. \A f : Holds(f, dir, r) => (f \in files <=> f \in files')
      BY <1>3, <1>4, <2>3
    <3>. QED
      BY <2>2, <3>1, ShowsSame
  <2>4. CASE Holds(e, dir, r)
    <3>1. newest[dir][r] # 0
      BY <2>2, <2>4 DEF Shows
    <3>2. PICK f \in files : /\ Holds(f, dir, r) /\ f.rows[r] = newest[dir][r]
                             /\ \A g \in files : Holds(g, dir, r) => g = f \/ Before(g.name, f.name)
      BY <2>2, <3>1 DEF Shows
    <3>3. CASE f # e
      BY <1>3, <1>4, <3>1, <3>2, <3>3 DEF Shows
    <3>4. CASE f = e
      <4>1. r \in HeldIn(e.rows) \ shared /\ e.name.dir = dir /\ e.rows[r] # 0
        BY <2>4 DEF Holds, HeldIn
      <4>2. Uppermost(e, r)
        <5>1. \A g \in files : g.name \in comp.delete => g.name.dir = dir
          BY <1>2, <4>1 DEF CompInv
        <5>. QED
          BY <3>2, <3>4, <5>1 DEF Uppermost, Holds
      <4>3. PICK c \in files : c.name = Target(e.name) /\ c.rows[r] = e.rows[r]
        BY <1>2, <4>1, <4>2 DEF MergedInv
      <4>4. c # e /\ Holds(c, dir, r)
        <5>1. c.name \notin comp.delete
          BY <1>2, <4>3 DEF CompInv
        <5>2. c.name.dir = dir
          BY <4>1, <4>3 DEF Target, Name
        <5>. QED
          BY <1>2, <4>1, <4>3, <5>1, <5>2 DEF Holds
      <4>5. ASSUME NEW g \in files', Holds(g, dir, r) PROVE g = c
        <5>1. g \in files /\ g # e /\ Before(g.name, e.name)
          BY <1>3, <1>4, <3>2, <3>4, <4>5
        <5>2. g.name \notin comp.delete
          <6>1. g.name # d
            BY <1>1, <4>5
          <6>. QED
            BY <1>1, <1>2, <1>5, <5>1, <6>1, BeforeStrict
        <5>3. CASE g.name.kind = "compacted"
          <6>1. g.name = Target(d)
            BY <1>2, <4>1, <4>5, <5>1, <5>2, <5>3 DEF CompInv, Holds
          <6>. QED
            BY <1>2, <4>3, <5>1, <6>1 DEF TypeOK
        <5>4. CASE g.name.kind = "part"
          <6>1. Listed(dir) = {}
            BY <1>2, <4>1 DEF CompInv
          <6>2. g.name \notin OldNames /\ e.name \in OldNames
            BY <1>2, <4>5, <5>2, <6>1 DEF OldNames, Listed, Holds
          <6>3. r \in (HeldIn(e.rows) \cap HeldIn(g.rows)) \ shared
            BY <4>1, <4>5 DEF Holds, HeldIn
          <6>4. Before(e.name, g.name)
            BY <4>1, <4>5, <5>1, <5>4, <6>2, <6>3 DEF LaterInv, Holds
          <6>. QED
            BY <1>5, <5>1, <6>4, BeforeStrict
        <5>. QED
          BY <1>5, <5>1, <5>3, <5>4
      <4>6. c \in files' /\ c.rows[r] = newest[dir][r]
        BY <1>3, <3>2, <3>4, <4>3, <4>4
      <4>. QED
        BY <3>1, <4>4, <4>5, <4>6 DEF Shows
    <3>. QED
      BY <3>3, <3>4
  <2>. QED
    BY <2>3, <2>4
<1>9. LaterInv'
  <2>1. SUFFICES ASSUME NEW f \in files', NEW g \in files',
                        f.name \in OldNames', g.name \notin OldNames', g.name.kind = "part",
                        f.name.dir = g.name.dir,
                        NEW r \in (HeldIn(f.rows) \cap HeldIn(g.rows)) \ shared
                 PROVE  Before(f.name, g.name)
    BY <1>1 DEF LaterInv
  <2>2. f.name \in OldNames /\ g.name \notin OldNames
    BY <1>1, <2>1 DEF OldNames
  <2>. QED
    BY <1>4, <2>1, <2>2 DEF LaterInv
<1>10. MergedInv'
  <2>1. SUFFICES ASSUME NEW f \in files', f.name \in comp.delete \ {d},
                        NEW r \in HeldIn(f.rows) \ shared,
                        \A g \in files' : (g.name \in comp.delete \ {d} /\ g.rows[r] # 0)
                                          => g = f \/ Before(g.name, f.name)
                 PROVE  \E c \in files' : c.name = Target(f.name) /\ c.rows[r] = f.rows[r]
    BY <1>1 DEF MergedInv, Uppermost, Target
  <2>2. Uppermost(f, r)
    <3>1. Before(d, f.name)
      BY <1>1, <2>1
    <3>. QED
      BY <1>2, <1>3, <2>1, <3>1 DEF Uppermost
  <2>3. PICK c \in files : c.name = Target(f.name) /\ c.rows[r] = f.rows[r]
    BY <1>4, <2>1, <2>2 DEF MergedInv
  <2>4. c \in files'
    BY <1>1, <2>1, <2>3 DEF CompInv
  <2>. QED
    BY <2>3, <2>4
<1>. QED
  BY <1>7, <1>8, <1>9, <1>10

(* The steps of a builder that write no file.                                  *)
LEMMA BuildKeeps ==
  ASSUME SafeInv, KeptInv, NEW b \in Builders,
         \/ StartBuild(b)
         \/ \E failing \in SUBSET Reports : ReadChunk(b, failing)
         \/ \E r \in Reports : MarkDone(b, r)
         \/ EndBuild(b) \/ CrashBuild(b)
  PROVE  KeptInv'
<1>. USE DEF SafeInv, FilesOK, KeptInv
<1>1. /\ OnlyAt(b) /\ files' = files /\ newest' = newest /\ clock' = clock
      /\ shared \subseteq shared'
  <2>1. CASE StartBuild(b)
    BY <2>1, StartDoes
  <2>2. ASSUME NEW failing \in SUBSET Reports, ReadChunk(b, failing)
        PROVE  /\ OnlyAt(b) /\ files' = files /\ newest' = newest /\ clock' = clock
               /\ shared \subseteq shared'
    BY <2>2, ReadDoes
  <2>3. ASSUME NEW r \in Reports, MarkDone(b, r)
        PROVE  /\ OnlyAt(b) /\ files' = files /\ newest' = newest /\ clock' = clock
               /\ shared \subseteq shared'
    BY <2>3, MarkDoes
  <2>4. CASE EndBuild(b) \/ CrashBuild(b)
    BY <2>4, EndDoes
  <2>. QED
    BY <2>1, <2>2, <2>3, <2>4
<1>2. NewestInv' /\ LaterInv' /\ MergedInv'
  BY <1>1, KeptFrame DEF OnlyAt
<1>3. ASSUME NEW f \in files, f.name.kind = "part", NEW r \in HeldIn(f.rows) \ shared',
             r \in at'[b].todo \/ (r \in HeldIn(at'[b].rows) /\ f.name.dir \in at'[b].writes)
      PROVE  f.name.run < at'[b].run
  <2>1. r \in HeldIn(f.rows) \ shared
    BY <1>1, <1>3
  <2>2. CASE StartBuild(b)
    <3>. DEFINE U == UNION {InHand(c) : c \in Builders \ {b}}
    <3>1. /\ at'[b].run = clock /\ at'[b].todo = Targets /\ at'[b].writes = {}
          /\ shared' = shared \cup (Targets \cap (WrittenNow \cup U))
      BY <2>2, StartDoes
    <3>. HIDE DEF U
    <3>2. ASSUME f.name.run = clock PROVE FALSE
      <4>1. r \in WrittenNow
        BY <1>3, <3>2 DEF WrittenNow
      <4>. QED
        BY <1>3, <3>1, <4>1
    <3>3. f.name.run <= clock /\ f.name.run \in Nat /\ clock \in Nat
      BY <1>3, NameFields, GoldAssumption DEF OrderInv, TypeOK
    <3>. QED
      BY <3>1, <3>2, <3>3
  <2>3. ASSUME NEW failing \in SUBSET Reports, ReadChunk(b, failing)
        PROVE  f.name.run < at'[b].run
    <3>. DEFINE chunk == FirstOf(at[b].todo, ChunkSize)
    <3>1. /\ at'[b].run = at[b].run /\ at'[b].todo = at[b].todo \ chunk
          /\ HeldIn(at'[b].rows) \subseteq chunk /\ chunk \subseteq at[b].todo
      BY <2>3, ReadDoes
    <3>. HIDE DEF chunk
    <3>. QED
      BY <1>3, <2>1, <3>1 DEF OrderInv
  <2>4. ASSUME NEW q \in Reports, MarkDone(b, q)
        PROVE  f.name.run < at'[b].run
    <3>1. at'[b].run = at[b].run /\ at'[b].todo = at[b].todo /\ at'[b].writes = {}
      BY <2>4, MarkDoes
    <3>. QED
      BY <1>3, <2>1, <3>1 DEF OrderInv
  <2>5. CASE EndBuild(b) \/ CrashBuild(b)
    <3>1. at'[b] = Idle
      BY <2>5, EndDoes
    <3>. QED
      BY <1>3, <3>1, Empty
  <2>. QED
    BY <2>2, <2>3, <2>4, <2>5
<1>4. OrderInv'
  <2>1. SUFFICES ASSUME NEW f \in files, f.name.kind = "part"
                 PROVE  /\ f.name.run <= clock
                        /\ \A c \in Builders, r \in HeldIn(f.rows) \ shared' :
                             (r \in at'[c].todo \/ (r \in HeldIn(at'[c].rows) /\ f.name.dir \in at'[c].writes))
                             => f.name.run < at'[c].run
    BY <1>1 DEF OrderInv
  <2>2. \A c \in Builders \ {b} : at'[c] = at[c]
    BY <1>1 DEF OnlyAt
  <2>3. \A c \in Builders \ {b} : \A r \in HeldIn(f.rows) \ shared' :
          (r \in at'[c].todo \/ (r \in HeldIn(at'[c].rows) /\ f.name.dir \in at'[c].writes))
          => f.name.run < at'[c].run
    BY <1>1, <2>1, <2>2 DEF OrderInv
  <2>4. f.name.run <= clock
    BY <2>1 DEF OrderInv
  <2>. QED
    BY <1>3, <2>1, <2>3, <2>4
<1>. QED
  BY <1>2, <1>4

(* The compaction's first and last steps, Silver and the clock.                 *)
LEMMA RestKeeps ==
  ASSUME SafeInv, KeptInv,
         \/ StartCompaction \/ EndCompaction \/ CrashCompaction
         \/ \E r \in Reports : SilverWrites(r)
         \/ Tick \/ UNCHANGED vars
  PROVE  KeptInv'
<1>. USE DEF SafeInv, FilesOK, KeptInv
<1>1. /\ files' = files /\ newest' = newest /\ shared' = shared /\ at' = at
      /\ clock' \in {clock, clock + 1}
      /\ comp' = comp \/ (comp'.delete = {} /\ comp'.listed \in {{}, FileNames})
  <2>1. CASE StartCompaction \/ EndCompaction \/ CrashCompaction
    BY <2>1, RestDoes, Empty
  <2>2. ASSUME NEW r \in Reports, SilverWrites(r)
        PROVE  /\ files' = files /\ newest' = newest /\ shared' = shared /\ at' = at
               /\ clock' = clock /\ comp' = comp
    BY <2>2, SilverDoes
  <2>3. CASE Tick
    BY <2>3, TickDoes
  <2>4. CASE UNCHANGED vars
    BY <2>4 DEF vars, process, time, history
  <2>. QED
    BY <2>1, <2>2, <2>3, <2>4
<1>2. OrderInv'
  <2>1. clock \in Nat
    BY GoldAssumption DEF TypeOK
  <2>2. \A f \in files : f.name.run \in Nat
    BY NameFields DEF TypeOK
  <2>3. \A f \in files : f.name.kind = "part" => f.name.run <= clock'
    BY <1>1, <2>1, <2>2 DEF OrderInv
  <2>. QED
    BY <1>1, <2>3 DEF OrderInv
<1>3. CASE comp' = comp
  <2>1. NewestInv' /\ LaterInv' /\ MergedInv'
    BY <1>1, <1>3, KeptFrame
  <2>. QED
    BY <1>2, <2>1
<1>4. CASE comp'.delete = {} /\ comp'.listed \in {{}, FileNames}
  <2>1. NewestInv'
    BY <1>1 DEF NewestInv
  <2>2. LaterInv'
    BY <1>1, <1>4 DEF LaterInv, OldNames, FileNames
  <2>3. MergedInv'
    BY <1>4 DEF MergedInv
  <2>. QED
    BY <1>2, <2>1, <2>2, <2>3
<1>. QED
  BY <1>1, <1>3, <1>4

LEMMA InitKept == Init => KeptInv
<1>. SUFFICES ASSUME Init PROVE KeptInv
  OBVIOUS
<1>1. files = {}
  BY DEF Init
<1>2. \A d \in Dirs, r \in Reports : newest[d][r] = 0
  BY DEF Init, NoRows
<1>. QED
  BY <1>1, <1>2 DEF KeptInv, OrderInv, NewestInv, LaterInv, MergedInv, Shows

LEMMA KeptStep == SafeInv /\ KeptInv /\ [Next]_vars => KeptInv'
<1>. SUFFICES ASSUME SafeInv, KeptInv, [Next]_vars PROVE KeptInv'
  OBVIOUS
<1>1. CASE UNCHANGED vars
  BY <1>1, RestKeeps
<1>2. CASE Next
  BY <1>2, Steps, BuildKeeps, WriteKeeps, RestKeeps, MergeKeeps, DeleteKeeps
<1>. QED
  BY <1>1, <1>2

LEMMA KeptAlways == Spec => [](SafeInv /\ KeptInv)
  BY InitSafe, SafeStep, InitKept, KeptStep, PTL DEF Spec

(* What a reader of a directory finds.                                         *)
LEMMA ShownIs ==
  ASSUME FilesOK, NEW dir, NEW r, NEW v, Shows(files, dir, r, v)
  PROVE  Shown(dir, r) = v
<1>. DEFINE held == {f \in files : f.name.dir = dir /\ f.rows[r] # 0}
            Is(f) == \A g \in held : g = f \/ Before(g.name, f.name)
            top == CHOOSE f \in held : Is(f)
<1>1. Shown(dir, r) = IF held = {} THEN 0 ELSE top.rows[r]
  BY DEF Shown
<1>2. \A f : f \in held <=> f \in files /\ Holds(f, dir, r)
  BY DEF Holds
<1>3. \A f \in held : f.name \in NameType
  BY DEF FilesOK, TypeOK
<1>. HIDE DEF held
<1>4. CASE v = 0
  <2>1. held = {}
    BY <1>2, <1>4 DEF Shows
  <2>. QED
    BY <1>1, <1>4, <2>1
<1>5. CASE v # 0
  <2>1. PICK f \in files : Holds(f, dir, r) /\ f.rows[r] = v
                           /\ \A g \in files : Holds(g, dir, r) => g = f \/ Before(g.name, f.name)
    BY <1>5 DEF Shows
  <2>2. f \in held /\ Is(f)
    BY <1>2, <2>1
  <2>3. top \in held /\ Is(top)
    BY <2>2
  <2>. HIDE DEF top
  <2>4. top = f
    <3>1. (top = f \/ Before(top.name, f.name)) /\ (f = top \/ Before(f.name, top.name))
      BY <2>2, <2>3
    <3>. QED
      BY <1>3, <2>2, <2>3, <3>1, BeforeStrict
  <2>. QED
    BY <1>1, <2>1, <2>2, <2>4
<1>. QED
  BY <1>4, <1>5

LEMMA ShownNewest == SafeInv /\ KeptInv => NewestKept
  BY ShownIs DEF NewestKept, SafeInv, KeptInv, NewestInv

(* The newest row of a report is the one that counts, whichever steps of a       *)
(* compaction, of builds and of crashes come between, unless it is shared.      *)
THEOREM NewestCorrect == Spec => []NewestKept
  BY ShownNewest, KeptAlways, PTL

(* A row is in one file ---------------------------------------------------------- *)

(* What a file holds is marked, or its run has it in hand and has written it; and *)
(* nobody has in hand what is marked.                                         *)
Settled(f, r) ==
  r \in done \/ \E b \in Builders : r \in HeldIn(at[b].rows) /\ f.name.dir \notin at[b].writes

OnceInv ==
  /\ \A f \in files : \A r \in HeldIn(f.rows) \ (shared \cup torn) : Settled(f, r)
  /\ \A b \in Builders : InHand(b) \cap done \subseteq shared

Once(f, g) ==
  \/ HeldIn(f.rows) \cap HeldIn(g.rows) \subseteq shared \cup torn
  \/ comp.pc = "delete" /\ {f.name, g.name} \cap comp.delete # {}

LEMMA OnceIs ==
  /\ OnceUnlessInterrupted
     <=> \A f, g \in files : (f # g /\ f.name.dir = g.name.dir) => Once(f, g)
  BY DEF OnceUnlessInterrupted, Once

BothInv == OnceInv /\ \A f, g \in files : (f # g /\ f.name.dir = g.name.dir) => Once(f, g)

(* Steps that change no file and not the compaction.                            *)
LEMMA BothFrame ==
  ASSUME SafeInv, BothInv, files' = files, comp' = comp,
         shared \subseteq shared', torn \subseteq torn', done \subseteq done',
         \A f \in files, r \in Reports \ (shared' \cup torn') : Settled(f, r) => Settled(f, r)',
         \A b \in Builders : InHand(b)' \cap done' \subseteq shared'
  PROVE  BothInv'
<1>1. \A f \in files' : \A r \in HeldIn(f.rows) \ (shared' \cup torn') : Settled(f, r)'
  BY DEF BothInv, OnceInv, HeldIn
<1>2. OnceInv'
  BY <1>1 DEF OnceInv
<1>3. \A f, g \in files' : (f # g /\ f.name.dir = g.name.dir) => Once(f, g)'
  BY DEF BothInv, Once
<1>. QED
  BY <1>2, <1>3 DEF BothInv

LEMMA WriteOnce ==
  ASSUME SafeInv, BothInv, NEW b \in Builders, NEW dir \in Dirs, WriteFile(b, dir)
  PROVE  BothInv'
<1>. DEFINE N == Written(b, dir)
<1>. USE DEF SafeInv, FilesOK
<1>1. /\ OnlyAt(b) /\ dir \in at[b].writes /\ at'[b].writes = at[b].writes \ {dir}
      /\ at'[b].todo = at[b].todo /\ at'[b].rows = at[b].rows
      /\ files' = (files \ Replaced(b, dir)) \cup {N}
      /\ shared \subseteq shared' /\ done' = done /\ torn' = torn
  BY WriteDoes
<1>2. N.name.dir = dir /\ HeldIn(N.rows) \subseteq HeldIn(at[b].rows)
  BY WrittenIs
<1>. HIDE DEF N
<1>3. comp' = comp /\ \A c \in Builders \ {b} : at'[c] = at[c]
  BY <1>1 DEF OnlyAt
<1>4. \A c \in Builders : InHand(c)' = InHand(c)
  BY <1>1, <1>3 DEF InHand
<1>5. \A f \in files' : f \in files \/ f = N
  BY <1>1
<1>6. ASSUME NEW f \in files', NEW r \in HeldIn(f.rows) \ (shared' \cup torn') PROVE Settled(f, r)'
  <2>1. CASE f \in files
    <3>1. Settled(f, r)
      BY <1>1, <1>6, <2>1 DEF BothInv, OnceInv
    <3>2. CASE r \in done
      BY <1>1, <3>2 DEF Settled
    <3>3. ASSUME NEW c \in Builders, r \in HeldIn(at[c].rows), f.name.dir \notin at[c].writes
          PROVE  Settled(f, r)'
      <4>1. r \in HeldIn(at'[c].rows) /\ f.name.dir \notin at'[c].writes
        BY <1>1, <1>3, <3>3
      <4>. QED
        BY <4>1 DEF Settled
    <3>. QED
      BY <3>1, <3>2, <3>3 DEF Settled
  <2>2. CASE f = N
    <3>1. r \in HeldIn(at'[b].rows) /\ f.name.dir \notin at'[b].writes
      BY <1>1, <1>2, <1>6, <2>2
    <3>. QED
      BY <3>1 DEF Settled
  <2>. QED
    BY <1>5, <2>1, <2>2
<1>7. OnceInv'
  <2>1. \A c \in Builders : InHand(c)' \cap done' \subseteq shared'
    BY <1>1, <1>4 DEF BothInv, OnceInv
  <2>. QED
    BY <1>6, <2>1 DEF OnceInv
<1>8. ASSUME NEW f \in files, f.name.dir = dir, NEW r \in HeldIn(f.rows), r \in HeldIn(N.rows),
             r \notin shared' \cup torn'
      PROVE  FALSE
  <2>1. Settled(f, r) /\ r \in InHand(b) /\ r \notin shared /\ r \notin torn
    BY <1>1, <1>2, <1>8 DEF BothInv, OnceInv, InHand
  <2>2. r \notin done
    BY <2>1 DEF BothInv, OnceInv
  <2>3. PICK c \in Builders : r \in HeldIn(at[c].rows) /\ f.name.dir \notin at[c].writes
    BY <2>1, <2>2 DEF Settled
  <2>4. c # b
    BY <1>1, <1>8, <2>3
  <2>. QED
    BY <2>1, <2>3, <2>4 DEF HandInv, InHand
<1>9. ASSUME NEW f \in files', NEW g \in files', f # g, f.name.dir = g.name.dir PROVE Once(f, g)'
  <2>1. CASE f \in files /\ g \in files
    <3>1. Once(f, g)
      BY <1>9, <2>1 DEF BothInv
    <3>. QED
      BY <1>1, <1>3, <3>1 DEF Once
  <2>2. CASE f = N /\ g \in files
    <3>1. HeldIn(f.rows) \cap HeldIn(g.rows) \subseteq shared' \cup torn'
      BY <1>2, <1>8, <1>9, <2>2
    <3>. QED
      BY <3>1 DEF Once
  <2>3. CASE g = N /\ f \in files
    <3>1. HeldIn(f.rows) \cap HeldIn(g.rows) \subseteq shared' \cup torn'
      BY <1>2, <1>8, <1>9, <2>3
    <3>. QED
      BY <3>1 DEF Once
  <2>. QED
    BY <1>5, <1>9, <2>1, <2>2, <2>3
<1>. QED
  BY <1>7, <1>9 DEF BothInv

LEMMA MergeOnce ==
  ASSUME SafeInv, BothInv, NEW dir \in Dirs, MergeDir(dir)
  PROVE  BothInv'
<1>. DEFINE N == MergedFile(dir)
            L == Listed(dir)
<1>. USE DEF SafeInv, FilesOK
<1>1. /\ comp.pc = "merge" /\ L # {} /\ files' = files \cup {N}
      /\ comp'.pc = "delete" /\ comp'.delete = L
      /\ at' = at /\ done' = done /\ shared' = shared /\ torn' = torn
  BY MergeDoes
<1>2. /\ N.name.dir = dir /\ N.rows \in RowsType
      /\ \A r \in Reports : N.rows[r] = Winner(L, r)
  BY MergedIs
<1>3. OneDir(L) /\ \A n \in L : n.dir = dir
  BY ListedIs
<1>. HIDE DEF N, L
<1>4. ASSUME NEW r \in HeldIn(N.rows)
      PROVE  \E t \in files : t.name \in L /\ t.name.dir = dir /\ r \in HeldIn(t.rows)
  <2>1. r \in Reports /\ N.rows[r] # 0
    BY DEF HeldIn
  <2>2. PICK t \in files : Tops(t, L, r)
    BY <1>2, <1>3, <2>1, WinnerCases
  <2>. QED
    BY <1>3, <2>1, <2>2 DEF Tops, HeldIn
<1>5. OnceInv'
  <2>1. ASSUME NEW f \in files', NEW r \in HeldIn(f.rows) \ (shared \cup torn) PROVE Settled(f, r)
    <3>1. CASE f \in files
      BY <2>1, <3>1 DEF BothInv, OnceInv
    <3>2. CASE f = N
      <4>1. PICK t \in files : t.name.dir = dir /\ r \in HeldIn(t.rows)
        BY <1>4, <2>1, <3>2
      <4>2. Settled(t, r)
        BY <2>1, <4>1 DEF BothInv, OnceInv
      <4>. QED
        BY <1>2, <3>2, <4>1, <4>2 DEF Settled
    <3>. QED
      BY <1>1, <3>1, <3>2
  <2>2. \A f \in files' : \A r \in HeldIn(f.rows) \ (shared' \cup torn') : Settled(f, r)'
    BY <1>1, <2>1 DEF Settled
  <2>3. \A b \in Builders : InHand(b)' \cap done' \subseteq shared'
    BY <1>1 DEF BothInv, OnceInv, InHand
  <2>. QED
    BY <2>2, <2>3 DEF OnceInv
<1>6. ASSUME NEW f \in files, f.name.dir = dir, f.name \notin L
      PROVE  HeldIn(f.rows) \cap HeldIn(N.rows) \subseteq shared \cup torn
  <2>1. SUFFICES ASSUME NEW r \in HeldIn(f.rows), r \in HeldIn(N.rows) PROVE r \in shared \cup torn
    OBVIOUS
  <2>2. PICK t \in files : t.name \in L /\ t.name.dir = dir /\ r \in HeldIn(t.rows)
    BY <1>4, <2>1
  <2>3. Once(f, t)
    BY <1>6, <2>2 DEF BothInv
  <2>. QED
    BY <1>1, <2>1, <2>2, <2>3 DEF Once
<1>7. ASSUME NEW f \in files', NEW g \in files', f # g, f.name.dir = g.name.dir PROVE Once(f, g)'
  <2>1. CASE f \in files /\ g \in files
    <3>1. Once(f, g)
      BY <1>7, <2>1 DEF BothInv
    <3>. QED
      BY <1>1, <3>1 DEF Once
  <2>2. CASE f = N /\ g \in files
    BY <1>1, <1>2, <1>6, <1>7, <2>2 DEF Once
  <2>3. CASE g = N /\ f \in files
    BY <1>1, <1>2, <1>6, <1>7, <2>3 DEF Once
  <2>. QED
    BY <1>1, <1>7, <2>1, <2>2, <2>3
<1>. QED
  BY <1>5, <1>7 DEF BothInv

LEMMA DeleteOnce ==
  ASSUME SafeInv, BothInv, DeleteMerged
  PROVE  BothInv'
<1>. USE DEF SafeInv, FilesOK
<1>1. PICK d \in comp.delete :
        /\ files' = {f \in files : f.name # d} /\ comp.pc = "delete"
        /\ comp'.pc = IF comp.delete = {d} THEN "merge" ELSE "delete"
        /\ comp'.delete = comp.delete \ {d}
        /\ at' = at /\ done' = done /\ shared' = shared /\ torn' = torn
  BY DeleteDoes
<1>2. OnceInv'
  BY <1>1 DEF BothInv, OnceInv, InHand, Settled
<1>3. ASSUME NEW f \in files', NEW g \in files', f # g, f.name.dir = g.name.dir PROVE Once(f, g)'
  <2>1. Once(f, g) /\ f.name # d /\ g.name # d
    BY <1>1, <1>3 DEF BothInv
  <2>2. CASE HeldIn(f.rows) \cap HeldIn(g.rows) \subseteq shared \cup torn
    BY <1>1, <2>2 DEF Once
  <2>3. CASE {f.name, g.name} \cap comp.delete # {}
    <3>1. {f.name, g.name} \cap comp'.delete # {} /\ comp.delete # {d}
      BY <1>1, <2>1, <2>3
    <3>. QED
      BY <1>1, <3>1 DEF Once
  <2>. QED
    BY <2>1, <2>2, <2>3 DEF Once
<1>. QED
  BY <1>2, <1>3 DEF BothInv

LEMMA RestOnce ==
  ASSUME SafeInv, BothInv, StartCompaction \/ EndCompaction \/ CrashCompaction
  PROVE  BothInv'
<1>. USE DEF SafeInv, FilesOK
<1>1. /\ torn \subseteq torn'
      /\ comp.pc = "delete" => \A f \in files : f.name \in comp.delete => HeldIn(f.rows) \subseteq torn'
      /\ files' = files /\ done' = done /\ at' = at /\ shared' = shared
  BY RestDoes
<1>2. OnceInv'
  BY <1>1 DEF BothInv, OnceInv, InHand, Settled
<1>3. ASSUME NEW f \in files, NEW g \in files, f # g, f.name.dir = g.name.dir PROVE Once(f, g)'
  <2>1. Once(f, g)
    BY <1>3 DEF BothInv
  <2>2. CASE HeldIn(f.rows) \cap HeldIn(g.rows) \subseteq shared \cup torn
    BY <1>1, <2>2 DEF Once
  <2>3. CASE comp.pc = "delete" /\ {f.name, g.name} \cap comp.delete # {}
    <3>1. HeldIn(f.rows) \subseteq torn' \/ HeldIn(g.rows) \subseteq torn'
      BY <1>1, <2>3
    <3>. QED
      BY <3>1 DEF Once
  <2>. QED
    BY <2>1, <2>2, <2>3 DEF Once
<1>. QED
  BY <1>1, <1>2, <1>3 DEF BothInv

LEMMA BuildOnce ==
  ASSUME SafeInv, BothInv, NEW b \in Builders,
         \/ StartBuild(b)
         \/ \E failing \in SUBSET Reports : ReadChunk(b, failing)
         \/ \E r \in Reports : MarkDone(b, r)
         \/ EndBuild(b) \/ CrashBuild(b)
  PROVE  BothInv'
<1>. USE DEF SafeInv, FilesOK
<1>0. \A c \in Builders : InHand(c) \cap done \subseteq shared
  BY DEF BothInv, OnceInv
<1>1. ASSUME OnlyAt(b), done' = done, HeldIn(at[b].rows) \subseteq torn', NEW f \in files,
             NEW r \in Reports \ (shared' \cup torn'), Settled(f, r)
      PROVE  Settled(f, r)'
  <2>1. r \notin HeldIn(at[b].rows)
    BY <1>1
  <2>. QED
    BY <1>1, <2>1 DEF Settled, OnlyAt
<1>2. ASSUME OnlyAt(b), done' = done, shared \subseteq shared',
             InHand(b)' \cap done \subseteq shared'
      PROVE  \A c \in Builders : InHand(c)' \cap done' \subseteq shared'
  <2>1. \A c \in Builders \ {b} : InHand(c)' = InHand(c)
    BY <1>2 DEF OnlyAt, InHand
  <2>. QED
    BY <1>0, <1>2, <2>1
<1>3. CASE StartBuild(b)
  <2>1. /\ OnlyAt(b) /\ ~at[b].running /\ at'[b].todo = Targets /\ at'[b].rows = NoRows
        /\ Targets \subseteq Pending /\ files' = files /\ done' = done /\ torn' = torn
        /\ shared \subseteq shared'
    BY <1>3, StartDoes
  <2>2. HeldIn(at[b].rows) = {}
    BY <2>1, Empty DEF HandInv, HandOf
  <2>3. InHand(b)' \cap done = {}
    BY <2>1, Empty DEF InHand, Pending
  <2>. QED
    BY <1>1, <1>2, <2>1, <2>2, <2>3, BothFrame DEF OnlyAt
<1>4. ASSUME NEW failing \in SUBSET Reports, ReadChunk(b, failing) PROVE BothInv'
  <2>. DEFINE chunk == FirstOf(at[b].todo, ChunkSize)
  <2>1. /\ OnlyAt(b) /\ HeldIn(at[b].rows) = {} /\ at'[b].todo = at[b].todo \ chunk
        /\ HeldIn(at'[b].rows) \subseteq chunk /\ chunk \subseteq at[b].todo
        /\ files' = files /\ done' = done /\ torn' = torn /\ shared' = shared
    BY <1>4, ReadDoes
  <2>. HIDE DEF chunk
  <2>2. InHand(b)' \subseteq InHand(b)
    BY <2>1 DEF InHand
  <2>. QED
    BY <1>0, <1>1, <1>2, <2>1, <2>2, BothFrame DEF OnlyAt
<1>5. ASSUME NEW q \in Reports, MarkDone(b, q) PROVE BothInv'
  <2>1. /\ OnlyAt(b) /\ q \in HeldIn(at[b].rows) /\ at[b].writes = {} /\ at'[b].writes = {}
        /\ at'[b].todo = at[b].todo /\ HeldIn(at'[b].rows) = HeldIn(at[b].rows) \ {q}
        /\ done' = done \cup {q} /\ files' = files /\ torn' = torn /\ shared' = shared
    BY <1>5, MarkDoes
  <2>2. ASSUME NEW c \in Builders PROVE InHand(c)' \cap done' \subseteq shared'
    <3>1. CASE c = b
      <4>1. InHand(b)' \subseteq InHand(b) \ {q}
        BY <2>1 DEF InHand, HandInv, HandOf
      <4>. QED
        BY <1>0, <2>1, <3>1, <4>1
    <3>2. CASE c # b
      <4>1. InHand(c)' = InHand(c) /\ q \in InHand(b)
        BY <2>1, <3>2 DEF InHand, OnlyAt
      <4>. QED
        BY <1>0, <2>1, <3>2, <4>1 DEF HandInv
    <3>. QED
      BY <3>1, <3>2
  <2>3. ASSUME NEW f \in files, NEW r \in Reports, Settled(f, r) PROVE Settled(f, r)'
    <3>1. CASE r \in done \/ r = q
      BY <2>1, <3>1 DEF Settled
    <3>2. CASE r \notin done /\ r # q
      <4>1. PICK c \in Builders : r \in HeldIn(at[c].rows) /\ f.name.dir \notin at[c].writes
        BY <2>3, <3>2 DEF Settled
      <4>2. r \in HeldIn(at'[c].rows) /\ f.name.dir \notin at'[c].writes
        BY <2>1, <3>2, <4>1 DEF OnlyAt
      <4>. QED
        BY <4>2 DEF Settled
    <3>. QED
      BY <3>1, <3>2
  <2>. QED
    BY <2>1, <2>2, <2>3, BothFrame DEF OnlyAt
<1>6. CASE EndBuild(b) \/ CrashBuild(b)
  <2>1. /\ OnlyAt(b) /\ at'[b] = Idle /\ HeldIn(at[b].rows) \subseteq torn' /\ torn \subseteq torn'
        /\ files' = files /\ done' = done /\ shared' = shared
    BY <1>6, EndDoes
  <2>2. InHand(b)' = {}
    BY <2>1, Empty DEF InHand
  <2>. QED
    BY <1>1, <1>2, <2>1, <2>2, BothFrame DEF OnlyAt
<1>. QED
  BY <1>3, <1>4, <1>5, <1>6

LEMMA BothStep == SafeInv /\ BothInv /\ [Next]_vars => BothInv'
<1>. SUFFICES ASSUME SafeInv, BothInv, [Next]_vars PROVE BothInv'
  OBVIOUS
<1>0. TypeOK
  BY DEF SafeInv, FilesOK
<1>1. ASSUME files' = files, comp' = comp, at' = at, done' = done, shared' = shared, torn' = torn
      PROVE  BothInv'
  BY <1>1, BothFrame DEF BothInv, OnceInv, Settled, InHand
<1>2. CASE UNCHANGED vars
  BY <1>1, <1>2 DEF vars, process, history
<1>3. ASSUME NEW r \in Reports, SilverWrites(r) PROVE BothInv'
  BY <1>0, <1>1, <1>3, SilverDoes
<1>4. CASE Tick
  BY <1>0, <1>1, <1>4, TickDoes
<1>5. CASE Next
  BY <1>3, <1>4, <1>5, Steps, BuildOnce, WriteOnce, RestOnce, MergeOnce, DeleteOnce
<1>. QED
  BY <1>2, <1>5

LEMMA BothAlways == Spec => []BothInv
<1>1. Init => BothInv
  <2>1. Init => \A b \in Builders : InHand(b) = {}
    BY Empty DEF Init, InHand
  <2>. QED
    BY <2>1 DEF Init, BothInv, OnceInv
<1>. QED
  BY <1>1, SafeAlways, BothStep, PTL DEF Spec

(* A row is in two files of a directory only while the compaction deletes, or after *)
(* an interruption.                                                           *)
THEOREM OnceCorrect == Spec => []OnceUnlessInterrupted
<1>1. BothInv => OnceUnlessInterrupted
  BY OnceIs DEF BothInv
<1>. QED
  BY <1>1, BothAlways, PTL

(* A clean run makes progress ---------------------------------------------------- *)
CleanInv ==
  \A b \in Builders :
    /\ \A r \in at[b].todo : silver[r] # 0
    /\ (at[b].running /\ at[b].clean /\ at[b].due # {} /\ Cardinality(Stuck) < Limit)
       => \E r \in at[b].due \ Stuck : r \in at[b].todo \cup HeldIn(at[b].rows) \cup done

(* The first of the sound reports that are pending is among the targets: only    *)
(* stuck ones come before it.                                                 *)
LEMMA SoundIsTarget ==
  ASSUME TypeOK, Pending \ Stuck # {}, Cardinality(Stuck) < Limit
  PROVE  \E r \in Pending \ Stuck : r \in Targets
<1>1. /\ Pending \subseteq Nat /\ IsFiniteSet(Stuck) /\ Limit \in Nat
      /\ Cardinality(Stuck) \in Nat
  BY GoldAssumption, FS_Subset, FS_CardinalityType DEF Pending
<1>2. PICK r \in Pending \ Stuck : \A q \in Pending \ Stuck : r <= q
  BY <1>1, LeastExists
<1>3. {q \in Pending : q < r} \subseteq Stuck
  <2>1. ASSUME NEW q \in Pending, q < r, q \notin Stuck PROVE FALSE
    <3>1. q \in Nat /\ r \in Nat /\ r <= q
      BY <1>1, <1>2, <2>1
    <3>. QED
      BY <2>1, <3>1
  <2>. QED
    BY <2>1
<1>4. Cardinality({q \in Pending : q < r}) <= Cardinality(Stuck)
      /\ Cardinality({q \in Pending : q < r}) \in Nat
  BY <1>1, <1>3, FS_Subset, FS_CardinalityType
<1>5. Cardinality({q \in Pending : q < r}) < Limit
  BY <1>1, <1>4
<1>. QED
  BY <1>2, <1>5 DEF Targets, FirstOf

LEMMA CleanFrame ==
  ASSUME CleanInv, done \subseteq done',
         \A r \in Reports : silver[r] # 0 => silver'[r] # 0, TypeOK,
         \A b \in Builders :
           \/ at'[b] = at[b]
           \/ /\ \A r \in at'[b].todo : silver'[r] # 0
              /\ (at'[b].running /\ at'[b].clean /\ at'[b].due # {} /\ Cardinality(Stuck) < Limit)
                 => \E r \in at'[b].due \ Stuck : r \in at'[b].todo \cup HeldIn(at'[b].rows) \cup done'
  PROVE  CleanInv'
<1>1. \A b \in Builders : at[b].todo \subseteq Reports
  BY BuilderFields DEF TypeOK
<1>2. ASSUME NEW b \in Builders, at'[b] = at[b]
      PROVE  /\ \A r \in at'[b].todo : silver'[r] # 0
             /\ (at'[b].running /\ at'[b].clean /\ at'[b].due # {} /\ Cardinality(Stuck) < Limit)
                => \E r \in at'[b].due \ Stuck : r \in at'[b].todo \cup HeldIn(at'[b].rows) \cup done'
  BY <1>1, <1>2 DEF CleanInv
<1>. QED
  BY <1>2 DEF CleanInv

LEMMA CleanStep == SafeInv /\ CleanInv /\ [Next]_vars => CleanInv'
<1>. SUFFICES ASSUME SafeInv, CleanInv, [Next]_vars PROVE CleanInv'
  OBVIOUS
<1>0. TypeOK /\ HandInv
  BY DEF SafeInv, FilesOK
<1>1. ASSUME at' = at, done' = done, \A r \in Reports : silver[r] # 0 => silver'[r] # 0
      PROVE  CleanInv'
  BY <1>0, <1>1, CleanFrame
<1>2. CASE UNCHANGED vars
  BY <1>1, <1>2 DEF vars, process
<1>3. ASSUME NEW r \in Reports, SilverWrites(r) PROVE CleanInv'
  BY <1>0, <1>1, <1>3, SilverDoes
<1>4. CASE Tick
  BY <1>0, <1>1, <1>4, TickDoes
<1>5. CASE StartCompaction \/ EndCompaction \/ CrashCompaction
  BY <1>0, <1>1, <1>5, RestDoes
<1>6. ASSUME NEW dir \in Dirs, MergeDir(dir) PROVE CleanInv'
  BY <1>0, <1>1, <1>6, MergeDoes
<1>7. CASE DeleteMerged
  BY <1>1, <1>7, DeleteDoes DEF SafeInv
<1>8. ASSUME NEW b \in Builders, NEW dir \in Dirs, WriteFile(b, dir) PROVE CleanInv'
  <2>1. /\ OnlyAt(b) /\ at'[b].running = at[b].running /\ at'[b].todo = at[b].todo
        /\ at'[b].rows = at[b].rows /\ at'[b].due = at[b].due /\ at'[b].clean = at[b].clean
        /\ silver' = silver /\ done' = done
    BY <1>0, <1>8, WriteDoes
  <2>. QED
    BY <2>1 DEF CleanInv, OnlyAt
<1>9. ASSUME NEW b \in Builders, StartBuild(b) PROVE CleanInv'
  <2>1. /\ OnlyAt(b) /\ at'[b].todo = Targets /\ at'[b].due = Pending \ Stuck
        /\ Targets \subseteq Pending /\ silver' = silver /\ done' = done
    BY <1>0, <1>9, StartDoes
  <2>2. \A r \in at'[b].todo : silver'[r] # 0
    BY <2>1 DEF Pending
  <2>3. (at'[b].due # {} /\ Cardinality(Stuck) < Limit)
        => \E r \in at'[b].due \ Stuck : r \in at'[b].todo
    BY <1>0, <2>1, SoundIsTarget
  <2>. QED
    BY <1>0, <2>1, <2>2, <2>3, CleanFrame DEF OnlyAt
<1>10. ASSUME NEW b \in Builders, EndBuild(b) \/ CrashBuild(b) PROVE CleanInv'
  <2>1. OnlyAt(b) /\ at'[b] = Idle /\ silver' = silver /\ done' = done
    BY <1>0, <1>10, EndDoes
  <2>. QED
    BY <1>0, <2>1, Empty, CleanFrame DEF OnlyAt
<1>11. ASSUME NEW b \in Builders, NEW q \in Reports, MarkDone(b, q) PROVE CleanInv'
  <2>1. /\ OnlyAt(b) /\ at'[b].running = at[b].running /\ at'[b].todo = at[b].todo
        /\ HeldIn(at'[b].rows) = HeldIn(at[b].rows) \ {q}
        /\ at'[b].due = at[b].due /\ at'[b].clean = at[b].clean
        /\ silver' = silver /\ done' = done \cup {q}
    BY <1>0, <1>11, MarkDoes
  <2>2. at'[b].todo \cup HeldIn(at'[b].rows) \cup done'
        = at[b].todo \cup HeldIn(at[b].rows) \cup done \cup {q}
    BY <2>1
  <2>3. /\ \A r \in at'[b].todo : silver'[r] # 0
        /\ (at'[b].running /\ at'[b].clean /\ at'[b].due # {} /\ Cardinality(Stuck) < Limit)
           => \E r \in at'[b].due \ Stuck : r \in at'[b].todo \cup HeldIn(at'[b].rows) \cup done'
    BY <2>1, <2>2 DEF CleanInv
  <2>. QED
    BY <1>0, <2>1, <2>3, CleanFrame DEF OnlyAt
<1>12. ASSUME NEW b \in Builders, NEW failing \in SUBSET Reports, ReadChunk(b, failing)
       PROVE  CleanInv'
  <2>. DEFINE chunk == FirstOf(at[b].todo, ChunkSize)
  <2>1. /\ OnlyAt(b) /\ at[b].running /\ HeldIn(at[b].rows) = {}
        /\ at'[b].todo = at[b].todo \ chunk
        /\ at'[b].rows = [r \in Reports |->
             IF r \in chunk \ (Stuck \cup failing) THEN silver[r] ELSE 0]
        /\ at'[b].due = at[b].due
        /\ at'[b].clean <=> at[b].clean /\ failing = {}
        /\ silver' = silver /\ done' = done
    BY <1>0, <1>12, ReadDoes
  <2>. HIDE DEF chunk
  <2>2. at[b].todo \subseteq Reports
    BY <1>0, BuilderFields DEF TypeOK
  <2>3. \A r \in at'[b].todo : silver'[r] # 0
    BY <2>1 DEF CleanInv
  <2>4. ASSUME at'[b].running, at'[b].clean, at'[b].due # {}, Cardinality(Stuck) < Limit
        PROVE  \E r \in at'[b].due \ Stuck : r \in at'[b].todo \cup HeldIn(at'[b].rows) \cup done'
    <3>1. PICK r \in at[b].due \ Stuck : r \in at[b].todo \cup done
      BY <2>1, <2>4 DEF CleanInv
    <3>2. CASE r \in at[b].todo /\ r \in chunk
      <4>1. r \in Reports /\ at'[b].rows[r] = silver[r] /\ silver[r] # 0
        BY <2>1, <2>2, <2>4, <3>1, <3>2 DEF CleanInv
      <4>. QED
        BY <2>1, <3>1, <4>1 DEF HeldIn
    <3>. QED
      BY <2>1, <3>1, <3>2
  <2>. QED
    BY <1>0, <2>1, <2>3, <2>4, CleanFrame DEF OnlyAt
<1>13. CASE Next
  BY <1>3, <1>4, <1>5, <1>6, <1>7, <1>8, <1>9, <1>10, <1>11, <1>12, <1>13, Steps
<1>. QED
  BY <1>2, <1>13

(* A run in which nothing fails builds one of the sound reports that were pending, *)
(* unless the stuck ones fill the limit.                                       *)
THEOREM CleanCorrect == Spec => CleanRunBuilds
<1>1. Init => CleanInv
  <2>1. Init => \A b \in Builders : at[b] = Idle
    BY DEF Init
  <2>. QED
    BY <2>1, Empty DEF CleanInv
<1>2. ASSUME CleanInv, NEW b \in Builders, EndBuild(b), at[b].todo = {}, at[b].clean,
             at[b].due # {}, Cardinality(Stuck) < Limit
      PROVE  at[b].due \cap done # {}
  <2>1. at[b].running /\ HeldIn(at[b].rows) = {}
    BY <1>2 DEF EndBuild
  <2>2. PICK r \in at[b].due \ Stuck : r \in at[b].todo \cup HeldIn(at[b].rows) \cup done
    BY <1>2, <2>1 DEF CleanInv
  <2>. QED
    BY <1>2, <2>1, <2>2
<1>3. CleanInv => [\A b \in Builders :
       (EndBuild(b) /\ at[b].todo = {} /\ at[b].clean /\ at[b].due # {}
        /\ Cardinality(Stuck) < Limit)
       => at[b].due \cap done # {}]_vars
  BY <1>2
<1>4. Spec => []CleanInv
  BY <1>1, SafeAlways, CleanStep, PTL DEF Spec
<1>. QED
  BY <1>3, <1>4, PTL DEF CleanRunBuilds

(* A batch is of one version ----------------------------------------------------- *)

(* No row is newer than its report; what a builder has in hand is not older than  *)
(* the facts that are there, and is what it has written so far.                  *)
InBatch(b, r) ==
  /\ newest[Facts][r] <= at[b].rows[r]
  /\ Facts \notin at[b].writes => newest[Facts][r] = at[b].rows[r]
  /\ b \notin at[b].writes /\ r \notin Textless => newest[b][r] = at[b].rows[r]

BuiltInv ==
  /\ \A dir \in Dirs, r \in Reports : newest[dir][r] <= silver[r]
  /\ \A b \in Builders, r \in Reports : at[b].rows[r] <= silver[r]
  /\ \A b \in Builders : \A r \in HeldIn(at[b].rows) \ shared : InBatch(b, r)

(* Steps that write nothing: each builder keeps its batch or a part of it, or has  *)
(* none.                                                                      *)
LEMMA BuiltFrame ==
  ASSUME TypeOK, BuiltInv, newest' = newest, shared \subseteq shared',
         silver' \in RowsType, \A r \in Reports : silver[r] <= silver'[r],
         \A b \in Builders :
           \/ at'[b] = at[b]
           \/ at'[b].rows = NoRows
           \/ /\ at'[b].writes = at[b].writes /\ HeldIn(at'[b].rows) \subseteq HeldIn(at[b].rows)
              /\ \A r \in Reports : at'[b].rows[r] \in {at[b].rows[r], 0}
  PROVE  BuiltInv'
<1>1. \A r \in Reports : silver[r] \in Nat /\ silver'[r] \in Nat
  BY DEF TypeOK, RowsType
<1>2. \A dir \in Dirs, r \in Reports : newest[dir][r] \in Nat
  BY DEF TypeOK, RowsType
<1>3. \A b \in Builders, r \in Reports : at[b].rows[r] \in Nat
  BY BuilderFields DEF TypeOK, RowsType
<1>4. \A dir \in Dirs, r \in Reports : newest'[dir][r] <= silver'[r]
  BY <1>1, <1>2 DEF BuiltInv
<1>5. ASSUME NEW b \in Builders
      PROVE  /\ \A r \in Reports : at'[b].rows[r] <= silver'[r]
             /\ \A r \in HeldIn(at'[b].rows) \ shared' : InBatch(b, r)'
  <2>1. CASE at'[b] = at[b]
    <3>1. \A r \in Reports : at'[b].rows[r] <= silver'[r]
      BY <1>1, <1>3, <2>1 DEF BuiltInv
    <3>2. \A r \in HeldIn(at'[b].rows) \ shared' : InBatch(b, r)'
      BY <2>1 DEF BuiltInv, InBatch
    <3>. QED
      BY <3>1, <3>2
  <2>2. CASE at'[b].rows = NoRows
    BY <1>1, <2>2, Empty DEF NoRows
  <2>3. CASE /\ at'[b].writes = at[b].writes /\ HeldIn(at'[b].rows) \subseteq HeldIn(at[b].rows)
             /\ \A r \in Reports : at'[b].rows[r] \in {at[b].rows[r], 0}
    <3>1. \A r \in Reports : at'[b].rows[r] <= silver'[r]
      BY <1>1, <1>3, <2>3 DEF BuiltInv
    <3>2. \A r \in HeldIn(at'[b].rows) \ shared' : InBatch(b, r)'
      <4>1. TAKE r \in HeldIn(at'[b].rows) \ shared'
      <4>2. r \in HeldIn(at[b].rows) \ shared /\ at'[b].rows[r] = at[b].rows[r]
        BY <2>3 DEF HeldIn
      <4>. QED
        BY <2>3, <4>2 DEF BuiltInv, InBatch
    <3>. QED
      BY <3>1, <3>2
  <2>. QED
    BY <1>5, <2>1, <2>2, <2>3
<1>. QED
  BY <1>4, <1>5 DEF BuiltInv

(* A batch is read as the reports are.                                         *)
LEMMA ReadBuilt ==
  ASSUME SafeInv, BuiltInv, NEW b \in Builders, NEW failing \in SUBSET Reports,
         ReadChunk(b, failing)
  PROVE  BuiltInv'
<1>. USE DEF SafeInv, FilesOK
<1>. DEFINE chunk == FirstOf(at[b].todo, ChunkSize) \ (Stuck \cup failing)
<1>1. /\ OnlyAt(b) /\ newest' = newest /\ silver' = silver /\ shared' = shared
      /\ at'[b].rows = [r \in Reports |-> IF r \in chunk THEN silver[r] ELSE 0]
      /\ \A dir \in {Facts, b} : dir \in at'[b].writes <=> HeldIn(RowsFor(dir, at'[b].rows)) # {}
      /\ at'[b].rows \in RowsType
  BY ReadDoes, BuilderFields DEF OnlyAt
<1>. HIDE DEF chunk
<1>2. \A r \in Reports : silver[r] \in Nat
  BY DEF TypeOK, RowsType
<1>3. ASSUME NEW c \in Builders
      PROVE  /\ \A r \in Reports : at'[c].rows[r] <= silver'[r]
             /\ \A r \in HeldIn(at'[c].rows) \ shared' : InBatch(c, r)'
  <2>1. CASE c # b
    BY <1>1, <2>1 DEF OnlyAt, BuiltInv, InBatch
  <2>2. CASE c = b
    <3>1. \A r \in Reports : at'[b].rows[r] <= silver'[r]
      BY <1>1, <1>2
    <3>2. \A r \in HeldIn(at'[b].rows) \ shared' : InBatch(b, r)'
      <4>1. TAKE r \in HeldIn(at'[b].rows) \ shared'
      <4>2. r \in Reports /\ at'[b].rows[r] = silver[r] /\ at'[b].rows[r] # 0
        BY <1>1 DEF HeldIn
      <4>a. Facts \in at'[b].writes
        <5>1. RowsFor(Facts, at'[b].rows) = at'[b].rows
          BY <1>1, RowsForIs
        <5>. QED
          BY <1>1, <5>1
      <4>b. r \notin Textless => b \in at'[b].writes
        <5>1. r \notin Textless => RowsFor(b, at'[b].rows)[r] # 0
          BY <1>1, <4>2, RowsForIs
        <5>. QED
          BY <1>1, <4>2, <5>1 DEF HeldIn
      <4>3. newest'[Facts][r] <= at'[b].rows[r]
        BY <1>1, <4>2, Directories DEF BuiltInv
      <4>. QED
        BY <4>2, <4>a, <4>b, <4>3 DEF InBatch
    <3>. QED
      BY <2>2, <3>1, <3>2
  <2>. QED
    BY <2>1, <2>2
<1>. QED
  BY <1>1, <1>3 DEF BuiltInv

(* Nobody else has in hand what is written, unless it is shared.                  *)
LEMMA WriteBuilt ==
  ASSUME SafeInv, BuiltInv, NEW b \in Builders, NEW dir \in Dirs, WriteFile(b, dir)
  PROVE  BuiltInv'
<1>. DEFINE N == Written(b, dir)
<1>. USE DEF SafeInv, FilesOK
<1>1. /\ OnlyAt(b) /\ dir \in at[b].writes /\ at'[b].writes = at[b].writes \ {dir}
      /\ at'[b].rows = at[b].rows /\ silver' = silver /\ shared \subseteq shared'
      /\ \A d \in Dirs, r \in Reports : newest'[d][r] =
           IF d = dir /\ N.rows[r] # 0 THEN N.rows[r] ELSE newest[d][r]
      /\ \A r \in Reports : N.rows[r] = IF dir # Facts /\ r \in Textless THEN 0 ELSE at[b].rows[r]
  BY WriteDoes, WrittenIs
<1>. HIDE DEF N
<1>2. /\ at[b].writes \subseteq {Facts, b}
      /\ \A c \in Builders \ {b} : HeldIn(at[b].rows) \cap HeldIn(at[c].rows) \subseteq shared
  BY DEF HandInv, HandOf, InHand
<1>3. dir = Facts \/ Facts \notin at[b].writes
  BY DEF WriteFile
<1>4. \A d \in Dirs, r \in Reports : newest'[d][r] <= silver'[r]
  BY <1>1 DEF BuiltInv
<1>5. /\ \A r \in Reports : at[b].rows[r] \in Nat
      /\ Facts \in Dirs /\ \A c \in Builders : c \in Dirs /\ c # Facts
  BY BuilderFields, Directories DEF TypeOK, RowsType
<1>6. ASSUME NEW c \in Builders
      PROVE  /\ \A r \in Reports : at'[c].rows[r] <= silver'[r]
             /\ \A r \in HeldIn(at'[c].rows) \ shared' : InBatch(c, r)'
  <2>1. at'[c].rows = at[c].rows
    BY <1>1 DEF OnlyAt
  <2>2. \A r \in Reports : at'[c].rows[r] <= silver'[r]
    BY <1>1, <2>1 DEF BuiltInv
  <2>3. ASSUME NEW r \in HeldIn(at'[c].rows) \ shared' PROVE InBatch(c, r)'
    <3>1. r \in HeldIn(at[c].rows) \ shared /\ r \in Reports /\ at[c].rows[r] # 0
      BY <1>1, <2>1, <2>3 DEF HeldIn
    <3>2. InBatch(c, r)
      BY <3>1 DEF BuiltInv
    <3>3. CASE c # b
      <4>1. at[b].rows[r] = 0
        BY <1>2, <3>1, <3>3 DEF HeldIn
      <4>2. newest'[Facts][r] = newest[Facts][r] /\ newest'[c][r] = newest[c][r]
        BY <1>1, <1>5, <3>1, <4>1
      <4>. QED
        BY <1>1, <3>2, <3>3, <4>2 DEF OnlyAt, InBatch
    <3>4. CASE c = b /\ dir = Facts
      <4>1. newest'[Facts][r] = at[b].rows[r] /\ newest'[b][r] = newest[b][r]
        BY <1>1, <1>5, <3>1, <3>4
      <4>. QED
        BY <1>1, <1>5, <3>1, <3>2, <3>4, <4>1 DEF InBatch
    <3>5. CASE c = b /\ dir # Facts
      <4>1. dir = b
        BY <1>1, <1>2, <3>5
      <4>2. /\ newest'[Facts][r] = newest[Facts][r]
            /\ r \notin Textless => newest'[b][r] = at[b].rows[r]
        BY <1>1, <1>5, <3>1, <3>5, <4>1
      <4>. QED
        BY <1>1, <1>3, <3>2, <3>5, <4>1, <4>2 DEF InBatch
    <3>. QED
      BY <3>3, <3>4, <3>5
  <2>. QED
    BY <2>2, <2>3
<1>. QED
  BY <1>4, <1>6 DEF BuiltInv

LEMMA BuiltStep == SafeInv /\ BuiltInv /\ [Next]_vars => BuiltInv'
<1>. SUFFICES ASSUME SafeInv, BuiltInv, [Next]_vars PROVE BuiltInv'
  OBVIOUS
<1>. USE DEF SafeInv, FilesOK
<1>0. silver \in RowsType /\ \A r \in Reports : silver[r] \in Nat /\ silver[r] <= silver[r]
  BY DEF TypeOK, RowsType
<1>1. ASSUME newest' = newest, shared' = shared, silver' = silver, at' = at PROVE BuiltInv'
  BY <1>0, <1>1, BuiltFrame
<1>2. CASE UNCHANGED vars
  BY <1>1, <1>2 DEF vars, process, history
<1>3. ASSUME NEW r \in Reports, SilverWrites(r) PROVE BuiltInv'
  <2>1. /\ silver' \in RowsType /\ newest' = newest /\ shared' = shared /\ at' = at
    BY <1>3, SilverDoes
  <2>2. silver' = [silver EXCEPT ![r] = silver[r] + 1]
    BY <1>3 DEF SilverWrites
  <2>3. \A q \in Reports : silver[q] <= silver'[q]
    BY <1>0, <2>2 DEF RowsType
  <2>. QED
    BY <2>1, <2>3, BuiltFrame
<1>4. CASE Tick
  BY <1>1, <1>4, TickDoes
<1>5. ASSUME NEW b \in Builders, StartBuild(b) \/ EndBuild(b) \/ CrashBuild(b) PROVE BuiltInv'
  <2>1. /\ OnlyAt(b) /\ newest' = newest /\ silver' = silver /\ shared \subseteq shared'
        /\ at'[b].rows = NoRows
    <3>1. Idle.rows = NoRows
      BY DEF Idle
    <3>. QED
      BY <1>5, <3>1, StartDoes, EndDoes
  <2>. QED
    BY <1>0, <2>1, BuiltFrame DEF OnlyAt
<1>6. ASSUME NEW b \in Builders, NEW r \in Reports, MarkDone(b, r) PROVE BuiltInv'
  <2>1. /\ OnlyAt(b) /\ newest' = newest /\ silver' = silver /\ shared' = shared
        /\ at'[b].writes = at[b].writes /\ HeldIn(at'[b].rows) = HeldIn(at[b].rows) \ {r}
        /\ \A q \in Reports \ {r} : at'[b].rows[q] = at[b].rows[q]
    BY <1>6, MarkDoes
  <2>2. at'[b].rows[r] = 0
    BY <2>1 DEF HeldIn
  <2>. QED
    BY <1>0, <2>1, <2>2, BuiltFrame DEF OnlyAt
<1>7. CASE StartCompaction \/ EndCompaction \/ CrashCompaction
  BY <1>1, <1>7, RestDoes
<1>8. ASSUME NEW dir \in Dirs, MergeDir(dir) PROVE BuiltInv'
  BY <1>1, <1>8, MergeDoes
<1>9. CASE DeleteMerged
  BY <1>1, <1>9, DeleteDoes
<1>10. CASE Next
  BY <1>3, <1>4, <1>5, <1>6, <1>7, <1>8, <1>9, <1>10, Steps, ReadBuilt, WriteBuilt
<1>. QED
  BY <1>2, <1>10

LEMMA BuiltAlways == Spec => []BuiltInv
<1>1. Init => BuiltInv
  <2>1. SUFFICES ASSUME Init PROVE BuiltInv
    OBVIOUS
  <2>2. \A b \in Builders : HeldIn(at[b].rows) = {} /\ at[b].rows = NoRows
    BY <2>1, Empty DEF Init, Idle
  <2>3. \A r \in Reports : 0 <= silver[r]
    BY <2>1 DEF Init
  <2>. QED
    BY <2>1, <2>2, <2>3 DEF Init, BuiltInv, NoRows
<1>. QED
  BY <1>1, SafeAlways, BuiltStep, PTL DEF Spec

(* Without a second builder nothing is shared ------------------------------------- *)

(* The file f was there before what the running builder b is to write.           *)
Past(f, b) ==
  \/ f.name.run < at[b].run
  \/ /\ f.name.run = at[b].run
     /\ f.name.batch < at[b].batch \/ (f.name.batch = at[b].batch /\ f.name.dir \notin at[b].writes)

PartsPast ==
  \A f \in files : f.name.kind = "part" =>
    /\ f.name.run <= clock /\ (f.name.run = clock => Builders \subseteq started)
    /\ \A b \in Builders : at[b].running => Past(f, b)

Solo ==
  /\ shared = {}
  /\ PartsPast
  /\ \A b \in Builders : (at[b].running /\ at[b].run = clock) => b \in started

Single == \A b, c \in Builders : b = c

SoloInv == Single => Solo

LEMMA SoloFrame ==
  ASSUME Solo, shared' = shared, clock' = clock, started \subseteq started',
         \A f \in files' : f.name.kind = "part" => f \in files,
         \A b \in Builders :
           \/ at'[b] = at[b] \/ ~at'[b].running
           \/ /\ at'[b].running = at[b].running /\ at'[b].run = at[b].run
              /\ at'[b].batch = at[b].batch /\ at'[b].writes = at[b].writes
  PROVE  Solo'
<1>1. \A b \in Builders : at'[b].running => /\ at[b].running /\ at'[b].run = at[b].run
                                           /\ at'[b].batch = at[b].batch
                                           /\ at'[b].writes = at[b].writes
  OBVIOUS
<1>2. ASSUME NEW f \in files', f.name.kind = "part"
      PROVE  /\ f.name.run <= clock' /\ (f.name.run = clock' => Builders \subseteq started')
             /\ \A b \in Builders : at'[b].running => Past(f, b)'
  <2>1. f \in files
    BY <1>2
  <2>2. \A b \in Builders : at'[b].running => Past(f, b)'
    BY <1>1, <1>2, <2>1 DEF Solo, PartsPast, Past
  <2>. QED
    BY <1>2, <2>1, <2>2 DEF Solo, PartsPast
<1>3. \A b \in Builders : (at'[b].running /\ at'[b].run = clock') => b \in started'
  BY <1>1 DEF Solo
<1>. QED
  BY <1>2, <1>3 DEF Solo, PartsPast

LEMMA StartSolo ==
  ASSUME SafeInv, Single, Solo, NEW b \in Builders, StartBuild(b)
  PROVE  Solo'
<1>. USE DEF SafeInv, FilesOK
<1>. DEFINE U == UNION {InHand(c) : c \in Builders \ {b}}
<1>1. /\ at'[b].run = clock /\ b \notin started /\ started' = started \cup {b}
      /\ clock' = clock /\ files' = files
      /\ shared' = shared \cup (Targets \cap (WrittenNow \cup U))
  BY StartDoes
<1>2. U = {}
  BY DEF Single
<1>. HIDE DEF U
<1>3. \A f \in files : f.name.kind = "part" => f.name.run < clock
  <2>1. clock \in Nat /\ \A f \in files : f.name.run \in Nat
    BY NameFields, GoldAssumption DEF TypeOK
  <2>. QED
    BY <1>1, <2>1 DEF Solo, PartsPast
<1>4. WrittenNow = {}
  <2>1. {g \in files : g.name.kind = "part" /\ g.name.run = clock} = {}
    <3>1. clock \in Nat
      BY GoldAssumption DEF TypeOK
    <3>. QED
      BY <1>3, <3>1
  <2>. QED
    BY <2>1 DEF WrittenNow
<1>5. shared' = {}
  BY <1>1, <1>2, <1>4 DEF Solo
<1>6. PartsPast'
  <2>1. \A f \in files : f.name.kind = "part" => Past(f, b)'
    BY <1>1, <1>3 DEF Past
  <2>. QED
    BY <1>1, <2>1 DEF Single, Solo, PartsPast
<1>7. \A c \in Builders : c \in started'
  BY <1>1 DEF Single
<1>. QED
  BY <1>5, <1>6, <1>7 DEF Solo

LEMMA ReadSolo ==
  ASSUME SafeInv, Single, Solo, NEW b \in Builders, NEW failing \in SUBSET Reports,
         ReadChunk(b, failing)
  PROVE  Solo'
<1>. USE DEF SafeInv, FilesOK
<1>1. /\ at[b].running /\ at'[b].run = at[b].run /\ at'[b].batch = at[b].batch + 1
      /\ files' = files /\ shared' = shared /\ clock' = clock /\ started' = started
  BY ReadDoes
<1>2. at[b].batch \in Nat /\ \A f \in files : f.name.batch \in Nat
  BY BuilderFields, NameFields DEF TypeOK
<1>3. \A f \in files : f.name.kind = "part" => Past(f, b)'
  <2>1. TAKE f \in files
  <2>2. HAVE f.name.kind = "part"
  <2>3. Past(f, b)
    BY <1>1, <2>2 DEF Solo, PartsPast
  <2>. QED
    BY <1>1, <1>2, <2>3 DEF Past
<1>4. PartsPast'
  BY <1>1, <1>3 DEF Single, Solo, PartsPast
<1>. QED
  BY <1>1, <1>4 DEF Single, Solo

(* It replaces no file.                                                       *)
LEMMA WriteSolo ==
  ASSUME SafeInv, Single, Solo, NEW b \in Builders, NEW dir \in Dirs, WriteFile(b, dir)
  PROVE  Solo'
<1>. USE DEF SafeInv, FilesOK
<1>. DEFINE N == Written(b, dir)
<1>1. /\ dir \in at[b].writes /\ at'[b].writes = at[b].writes \ {dir}
      /\ at'[b].running = at[b].running /\ at'[b].run = at[b].run /\ at'[b].batch = at[b].batch
      /\ files' = (files \ Replaced(b, dir)) \cup {N}
      /\ shared' = IF Replaced(b, dir) = {} THEN shared
           ELSE shared \cup HeldIn(N.rows)
                       \cup UNION {HeldIn(f.rows) : f \in Replaced(b, dir)}
      /\ clock' = clock /\ started' = started
  BY WriteDoes
<1>2. at[b].running /\ at[b].run <= clock
  <2>1. at[b].run <= clock /\ (~at[b].running => at[b] = Idle)
    BY DEF HandInv, HandOf
  <2>. QED
    BY <1>1, <2>1, Empty
<1>3. /\ N.name.dir = dir /\ N.name.kind = "part" /\ N.name.run = at[b].run
      /\ N.name.batch = at[b].batch
  BY WrittenIs
<1>4. /\ at[b].run \in Nat /\ at[b].batch \in Nat
      /\ \A f \in files : f.name.run \in Nat /\ f.name.batch \in Nat
  BY BuilderFields, NameFields DEF TypeOK
<1>. HIDE DEF N
<1>5. \A f \in files : f.name.kind = "part" => Past(f, b)
  BY <1>2 DEF Solo, PartsPast
<1>6. Replaced(b, dir) = {}
  <2>1. \A f \in files : f.name # N.name
    BY <1>1, <1>3, <1>4, <1>5 DEF Past
  <2>. QED
    BY <2>1 DEF Replaced, N
<1>7. shared' = shared /\ files' = files \cup {N}
  BY <1>1, <1>6
<1>8. \A f \in files : f.name.kind = "part" => Past(f, b)'
  BY <1>1, <1>5 DEF Past
<1>9. \A f : f = N => Past(f, b)'
  BY <1>1, <1>3 DEF Past
<1>10. N.name.run <= clock' /\ (N.name.run = clock' => Builders \subseteq started')
  BY <1>1, <1>2, <1>3 DEF Single, Solo
<1>11. PartsPast'
  <2>1. \A f \in files' : f.name.kind = "part" =>
          f.name.run <= clock' /\ (f.name.run = clock' => Builders \subseteq started')
    BY <1>1, <1>7, <1>10 DEF Solo, PartsPast
  <2>2. \A f \in files' : f.name.kind = "part" => Past(f, b)'
    BY <1>7, <1>8, <1>9
  <2>. QED
    BY <2>1, <2>2 DEF Single, PartsPast
<1>. QED
  BY <1>1, <1>7, <1>11 DEF Single, Solo

LEMMA SoloStep == SafeInv /\ SoloInv /\ [Next]_vars => SoloInv'
<1>. SUFFICES ASSUME SafeInv, SoloInv, [Next]_vars, Single PROVE Solo'
  BY DEF SoloInv, Single
<1>0. Solo
  BY DEF SoloInv
<1>. USE DEF SafeInv, FilesOK
<1>1. ASSUME files' = files, at' = at, shared' = shared, clock' = clock, started \subseteq started'
      PROVE  Solo'
  BY <1>0, <1>1, SoloFrame
<1>2. CASE UNCHANGED vars
  BY <1>1, <1>2 DEF vars, process, time, history
<1>3. ASSUME NEW r \in Reports, SilverWrites(r) PROVE Solo'
  BY <1>1, <1>3, SilverDoes
<1>4. CASE Tick
  <2>1. /\ clock' = clock + 1 /\ clock \in Nat /\ files' = files /\ at' = at /\ shared' = shared
    BY <1>4, TickDoes
  <2>2. \A f \in files : f.name.run \in Nat
    BY NameFields DEF TypeOK
  <2>3. \A b \in Builders : at[b].run <= clock /\ at[b].run \in Nat
    BY BuilderFields DEF HandInv, HandOf, TypeOK
  <2>4. PartsPast'
    <3>1. \A f \in files, b \in Builders : Past(f, b)' <=> Past(f, b)
      BY <2>1 DEF Past
    <3>. QED
      BY <1>0, <2>1, <2>2, <3>1 DEF Solo, PartsPast
  <2>. QED
    BY <1>0, <2>1, <2>3, <2>4 DEF Solo
<1>5. ASSUME NEW b \in Builders, EndBuild(b) \/ CrashBuild(b) PROVE Solo'
  <2>1. /\ OnlyAt(b) /\ at'[b] = Idle /\ files' = files /\ shared' = shared /\ clock' = clock
        /\ started' = started
    BY <1>5, EndDoes
  <2>. QED
    BY <1>0, <2>1, SoloFrame DEF OnlyAt, Idle
<1>6. ASSUME NEW b \in Builders, NEW r \in Reports, MarkDone(b, r) PROVE Solo'
  <2>1. /\ OnlyAt(b) /\ at'[b].running = at[b].running /\ at'[b].run = at[b].run
        /\ at'[b].batch = at[b].batch /\ at'[b].writes = at[b].writes
        /\ files' = files /\ shared' = shared /\ clock' = clock /\ started' = started
    BY <1>6, MarkDoes
  <2>. QED
    BY <1>0, <2>1, SoloFrame DEF OnlyAt
<1>7. CASE StartCompaction \/ EndCompaction \/ CrashCompaction
  BY <1>1, <1>7, RestDoes
<1>8. ASSUME NEW dir \in Dirs, MergeDir(dir) PROVE Solo'
  <2>1. /\ files' = files \cup {MergedFile(dir)} /\ at' = at /\ shared' = shared /\ clock' = clock
        /\ started' = started
    BY <1>8, MergeDoes
  <2>2. MergedFile(dir).name.kind = "compacted"
    BY MergedIs
  <2>. QED
    BY <1>0, <2>1, <2>2, SoloFrame
<1>9. CASE DeleteMerged
  <2>1. /\ files' \subseteq files /\ at' = at /\ shared' = shared /\ clock' = clock
        /\ started' = started
    BY <1>9, DeleteDoes
  <2>. QED
    BY <1>0, <2>1, SoloFrame
<1>10. CASE Next
  BY <1>0, <1>3, <1>4, <1>5, <1>6, <1>7, <1>8, <1>9, <1>10, Steps, StartSolo, ReadSolo, WriteSolo
<1>. QED
  BY <1>2, <1>10

LEMMA SoloAlways == Spec => []SoloInv
<1>1. Init => SoloInv
  <2>1. SUFFICES ASSUME Init PROVE Solo
    BY DEF SoloInv
  <2>2. \A b \in Builders : ~at[b].running
    BY <2>1 DEF Init, Idle
  <2>. QED
    BY <2>1, <2>2 DEF Init, Solo, PartsPast
<1>. QED
  BY <1>1, SafeAlways, SoloStep, PTL DEF Spec

(* Where one DAG builds, no report is ever contended for: then every row is kept,  *)
(* every marked report stored and no row written twice, without exception.       *)
THEOREM AloneCorrect == Spec => [](Single => shared = {})
<1>1. SoloInv => (Single => shared = {})
  BY DEF SoloInv, Solo
<1>. QED
  BY <1>1, SoloAlways, PTL

(* To its readers Gold is the layer ------------------------------------------------ *)
Outs == {Facts} \cup Builders

(* What a reader finds is what was written last.                                *)
ReadsNewest ==
  Read = [dir \in Outs |-> [r \in Reports |-> IF r \in shared THEN 0 ELSE newest[dir][r]]]

LEMMA ReadIs == SafeInv /\ KeptInv => ReadsNewest
<1>. SUFFICES ASSUME SafeInv, KeptInv PROVE ReadsNewest
  OBVIOUS
<1>1. \A dir \in Outs, r \in Reports \ shared : Shown(dir, r) = newest[dir][r]
  BY ShownNewest, Directories DEF NewestKept, Outs
<1>2. \A dir \in Outs :
        [r \in Reports |-> IF r \in shared THEN 0 ELSE Shown(dir, r)]
        = [r \in Reports |-> IF r \in shared THEN 0 ELSE newest[dir][r]]
  BY <1>1
<1>. QED
  BY <1>2 DEF ReadsNewest, Read, Outs

LayerInv == SafeInv /\ KeptInv /\ BothInv /\ BuiltInv /\ SoloInv /\ ReadsNewest

LEMMA LayerAlways == Spec => []LayerInv
  BY KeptAlways, BothAlways, BuiltAlways, SoloAlways, ReadIs, PTL DEF LayerInv

(* A step that marks nothing and writes nothing but shared rows is no step, or two  *)
(* builders contend.                                                          *)
LEMMA ContendStep ==
  ASSUME LayerInv, LayerInv', silver' = silver, done' = done, shared \subseteq shared',
         \A dir \in Dirs, r \in Reports \ shared' : newest'[dir][r] = newest[dir][r]
  PROVE  [Layer!Next]_(Layer!vars)
<1>. DEFINE S == shared' \ shared
<1>1. /\ shared \subseteq Reports /\ shared' \subseteq Reports
      /\ ReadsNewest /\ ReadsNewest' /\ SoloInv'
  BY DEF LayerInv, SafeInv, FilesOK, TypeOK
<1>2. \A dir \in Outs, r \in Reports \ shared' : newest'[dir][r] = newest[dir][r]
  BY Directories DEF Outs
<1>3. CASE S = {}
  <2>1. shared' = shared
    BY <1>3
  <2>2. Read' = Read
    BY <1>1, <1>2, <2>1 DEF ReadsNewest
  <2>. QED
    BY <2>1, <2>2 DEF Layer!vars
<1>4. CASE S # {}
  <2>1. PICK b \in Builders, c \in Builders : b # c
    <3>1. ~Single
      BY <1>1, <1>4 DEF SoloInv, Solo, Single
    <3>. QED
      BY <3>1 DEF Single
  <2>2. Read' = [dir \in Outs |-> [r \in Reports |-> IF r \in S THEN 0 ELSE Read[dir][r]]]
    <3>1. \A dir \in Outs :
            [r \in Reports |-> IF r \in shared' THEN 0 ELSE newest'[dir][r]]
            = [r \in Reports |-> IF r \in S THEN 0 ELSE Read[dir][r]]
      BY <1>1, <1>2 DEF ReadsNewest
    <3>. QED
      BY <1>1, <3>1 DEF ReadsNewest
  <2>3. shared' = shared \cup S /\ done' \ shared' = (done \ shared) \ S
    OBVIOUS
  <2>4. S \in (SUBSET Reports) \ {{}}
    BY <1>1, <1>4
  <2>. HIDE DEF S
  <2>5. Layer!Contend(S)
    BY <2>1, <2>2, <2>3 DEF Layer!Contend, Layer!Facts, Facts, Outs
  <2>. QED
    BY <2>4, <2>5 DEF Layer!Next
<1>. QED
  BY <1>3, <1>4

(* Facts are of no older version than those that they replace, ...                *)
LEMMA FactsStep ==
  ASSUME LayerInv, LayerInv', NEW b \in Builders, WriteFile(b, Facts), shared' = shared
  PROVE  [Layer!Next]_(Layer!vars)
<1>. DEFINE rows == at[b].rows
            S == {r \in HeldIn(rows) \ shared : newest[Facts][r] # rows[r]}
            v == [r \in S |-> rows[r]]
<1>1. /\ Facts \in at[b].writes /\ silver' = silver /\ done' = done
      /\ \A d \in Dirs, r \in Reports : newest'[d][r] =
           IF d = Facts /\ rows[r] # 0 THEN rows[r] ELSE newest[d][r]
  BY WriteDoes, WrittenIs, Directories DEF LayerInv, SafeInv, FilesOK
<1>2. /\ \A r \in Reports : rows[r] \in Nat /\ silver[r] \in Nat /\ newest[Facts][r] \in Nat
      /\ ReadsNewest /\ ReadsNewest'
  BY BuilderFields, Directories DEF LayerInv, SafeInv, FilesOK, TypeOK, RowsType
<1>3. HeldIn(rows) \subseteq Reports /\ \A r \in Reports : r \in HeldIn(rows) <=> rows[r] # 0
  BY DEF HeldIn
<1>4. HeldIn(rows) \cap done \subseteq shared
  BY DEF LayerInv, BothInv, OnceInv, InHand
<1>5. \A r \in Reports : rows[r] <= silver[r]
  BY DEF LayerInv, BuiltInv
<1>6. \A r \in HeldIn(rows) \ shared : newest[Facts][r] <= rows[r]
  BY DEF LayerInv, BuiltInv, InBatch
<1>7. Outs \subseteq Dirs /\ Facts \in Outs
  BY Directories DEF Outs
<1>8. /\ \A d \in Outs, r \in Reports : Read[d][r] = IF r \in shared THEN 0 ELSE newest[d][r]
      /\ Read \in [Outs -> [Reports -> UNION {{Read[d][r] : r \in Reports} : d \in Outs}]]
  BY <1>2 DEF ReadsNewest
<1>. HIDE DEF rows
<1>9. \A r \in S : /\ r \in Reports \ (done \cup shared) /\ Read[Facts][r] = newest[Facts][r]
                   /\ v[r] = rows[r] /\ v[r] \in (Read[Facts][r] + 1) .. silver[r]
  <2>1. TAKE r \in S
  <2>2. r \in Reports \ (done \cup shared)
    BY <1>3, <1>4
  <2>3. Read[Facts][r] = newest[Facts][r] /\ v[r] = rows[r]
    BY <1>7, <1>8, <2>2
  <2>4. newest[Facts][r] + 1 <= rows[r] /\ rows[r] <= silver[r]
    BY <1>2, <1>5, <1>6, <2>2
  <2>. QED
    BY <1>2, <2>2, <2>3, <2>4
<1>10. Read' = [Read EXCEPT ![Facts] = [r \in Reports |-> IF r \in S THEN v[r] ELSE Read[Facts][r]]]
  <2>1. \A r \in Reports : (IF r \in shared THEN 0 ELSE newest'[Facts][r])
                           = IF r \in S THEN v[r] ELSE Read[Facts][r]
    <3>1. TAKE r \in Reports
    <3>2. /\ newest'[Facts][r] = IF rows[r] # 0 THEN rows[r] ELSE newest[Facts][r]
          /\ Read[Facts][r] = IF r \in shared THEN 0 ELSE newest[Facts][r]
      BY <1>1, <1>7, <1>8
    <3>3. /\ r \in S <=> rows[r] # 0 /\ r \notin shared /\ newest[Facts][r] # rows[r]
          /\ r \in S => v[r] = rows[r]
      BY <1>3
    <3>. HIDE DEF S, v
    <3>. QED
      BY <3>2, <3>3
  <2>2. \A d \in Outs \ {Facts} :
          [r \in Reports |-> IF r \in shared THEN 0 ELSE newest'[d][r]] = Read[d]
    BY <1>1, <1>2, <1>7 DEF ReadsNewest
  <2>3. [r \in Reports |-> IF r \in shared THEN 0 ELSE newest'[Facts][r]]
        = [r \in Reports |-> IF r \in S THEN v[r] ELSE Read[Facts][r]]
    BY <2>1
  <2>4. Read' = [d \in Outs |-> [r \in Reports |-> IF r \in shared THEN 0 ELSE newest'[d][r]]]
    BY <1>2 DEF ReadsNewest
  <2>. HIDE DEF S, v
  <2>. QED
    BY <1>7, <1>8, <2>2, <2>3, <2>4
<1>11. CASE S = {}
  <2>1. Read' = Read
    BY <1>7, <1>8, <1>10, <1>11
  <2>. QED
    BY <1>1, <2>1 DEF Layer!vars
<1>12. CASE S # {}
  <2>1. S \in (SUBSET Reports) \ {{}} /\ S \subseteq Reports \ ((done \ shared) \cup shared)
    BY <1>9, <1>12
  <2>2. v \in [S -> UNION {(Read[Facts][r] + 1) .. silver[r] : r \in S}]
    BY <1>9
  <2>. HIDE DEF S, v
  <2>3. Layer!PublishFacts(S, v)
    BY <1>1, <1>9, <1>10, <2>1
    DEF Layer!PublishFacts, Layer!Open, Layer!Put, Layer!Newer, Layer!Facts, Facts
  <2>4. v \in [S -> UNION {Layer!Newer(r) : r \in S}]
    BY <2>2 DEF Layer!Newer, Layer!Facts, Facts
  <2>. QED
    BY <2>1, <2>3, <2>4 DEF Layer!Next
<1>. QED
  BY <1>11, <1>12

(* ... and then the embeddings are of the version that the facts are of, ...        *)
LEMMA EmbeddingsStep ==
  ASSUME LayerInv, LayerInv', NEW b \in Builders, NEW dir \in Dirs, dir # Facts, WriteFile(b, dir),
         shared' = shared
  PROVE  [Layer!Next]_(Layer!vars)
<1>. DEFINE rows == Written(b, dir).rows
            S == {r \in HeldIn(rows) \ shared : newest[b][r] # rows[r]}
<1>1. /\ dir \in at[b].writes /\ silver' = silver /\ done' = done
      /\ \A d \in Dirs, r \in Reports : newest'[d][r] =
           IF d = dir /\ rows[r] # 0 THEN rows[r] ELSE newest[d][r]
      /\ \A r \in Reports : rows[r] = IF r \in Textless THEN 0 ELSE at[b].rows[r]
      /\ HeldIn(rows) \subseteq HeldIn(at[b].rows)
  BY WriteDoes, WrittenIs DEF LayerInv, SafeInv, FilesOK
<1>2. dir = b /\ Facts \notin at[b].writes
  <2>1. Facts \notin at[b].writes
    BY DEF WriteFile
  <2>. QED
    BY <1>1, <2>1 DEF LayerInv, SafeInv, HandInv, HandOf
<1>3. ReadsNewest /\ ReadsNewest'
  BY DEF LayerInv
<1>4. HeldIn(rows) \subseteq Reports /\ \A r \in Reports : r \in HeldIn(rows) <=> rows[r] # 0
  BY DEF HeldIn
<1>5. HeldIn(rows) \cap done \subseteq shared
  BY <1>1 DEF LayerInv, BothInv, OnceInv, InHand
<1>6. \A r \in HeldIn(rows) \ shared : newest[Facts][r] = rows[r] /\ r \notin Textless
  <2>1. \A r \in HeldIn(at[b].rows) \ shared : newest[Facts][r] = at[b].rows[r]
    BY <1>2 DEF LayerInv, BuiltInv, InBatch
  <2>. QED
    BY <1>1, <1>4, <2>1
<1>7. Outs \subseteq Dirs /\ Facts \in Outs /\ b \in Outs /\ b # Facts
  BY Directories DEF Outs
<1>8. /\ \A d \in Outs, r \in Reports : Read[d][r] = IF r \in shared THEN 0 ELSE newest[d][r]
      /\ Read \in [Outs -> [Reports -> UNION {{Read[d][r] : r \in Reports} : d \in Outs}]]
  BY <1>3 DEF ReadsNewest
<1>. HIDE DEF rows
<1>9. \A r \in S : /\ r \in Reports \ (done \cup shared) /\ Read[Facts][r] = rows[r]
                   /\ Read[Facts][r] # 0 /\ Read[b][r] # Read[Facts][r] /\ r \notin Textless
  <2>1. TAKE r \in S
  <2>2. r \in Reports \ (done \cup shared)
    BY <1>4, <1>5
  <2>3. Read[Facts][r] = rows[r] /\ Read[b][r] = newest[b][r] /\ rows[r] # 0
    BY <1>4, <1>6, <1>7, <1>8, <2>2
  <2>. QED
    BY <1>6, <2>2, <2>3
<1>10. Read' = [Read EXCEPT ![b] = [r \in Reports |-> IF r \in S THEN Read[Facts][r] ELSE Read[b][r]]]
  <2>1. \A r \in Reports : (IF r \in shared THEN 0 ELSE newest'[b][r])
                           = IF r \in S THEN Read[Facts][r] ELSE Read[b][r]
    <3>1. TAKE r \in Reports
    <3>2. /\ newest'[b][r] = IF rows[r] # 0 THEN rows[r] ELSE newest[b][r]
          /\ Read[b][r] = IF r \in shared THEN 0 ELSE newest[b][r]
      BY <1>1, <1>2, <1>7, <1>8
    <3>3. r \in S <=> rows[r] # 0 /\ r \notin shared /\ newest[b][r] # rows[r]
      BY <1>4
    <3>4. r \in S => Read[Facts][r] = rows[r]
      BY <1>9
    <3>. HIDE DEF S
    <3>. QED
      BY <3>2, <3>3, <3>4
  <2>2. \A d \in Outs \ {b} :
          [r \in Reports |-> IF r \in shared THEN 0 ELSE newest'[d][r]] = Read[d]
    BY <1>1, <1>2, <1>3, <1>7 DEF ReadsNewest
  <2>3. [r \in Reports |-> IF r \in shared THEN 0 ELSE newest'[b][r]]
        = [r \in Reports |-> IF r \in S THEN Read[Facts][r] ELSE Read[b][r]]
    BY <2>1
  <2>4. Read' = [d \in Outs |-> [r \in Reports |-> IF r \in shared THEN 0 ELSE newest'[d][r]]]
    BY <1>3 DEF ReadsNewest
  <2>. HIDE DEF S
  <2>. QED
    BY <1>7, <1>8, <2>2, <2>3, <2>4
<1>11. CASE S = {}
  <2>1. Read' = Read
    BY <1>7, <1>8, <1>10, <1>11
  <2>. QED
    BY <1>1, <2>1 DEF Layer!vars
<1>12. CASE S # {}
  <2>1. S \in (SUBSET Reports) \ {{}} /\ S \subseteq Reports \ ((done \ shared) \cup shared)
    BY <1>9, <1>12
  <2>. HIDE DEF S
  <2>2. Layer!PublishEmbeddings(b, S)
    BY <1>1, <1>9, <1>10, <2>1
    DEF Layer!PublishEmbeddings, Layer!Open, Layer!Put, Layer!Facts, Facts
  <2>. QED
    BY <2>1, <2>2 DEF Layer!Next
<1>. QED
  BY <1>11, <1>12

(* ... and a report that is marked is whole.                                    *)
LEMMA MarkStep ==
  ASSUME LayerInv, LayerInv', NEW b \in Builders, NEW r \in Reports, MarkDone(b, r)
  PROVE  [Layer!Next]_(Layer!vars)
<1>1. /\ at[b].writes = {} /\ r \in HeldIn(at[b].rows) /\ done' = done \cup {r}
      /\ silver' = silver /\ newest' = newest /\ shared' = shared
  BY MarkDoes DEF LayerInv, SafeInv, FilesOK
<1>2. ReadsNewest /\ ReadsNewest'
  BY DEF LayerInv
<1>3. Read' = Read
  BY <1>1, <1>2 DEF ReadsNewest
<1>4. CASE r \in shared
  BY <1>1, <1>3, <1>4 DEF Layer!vars
<1>5. CASE r \notin shared
  <2>1. r \notin done
    BY <1>1, <1>5 DEF LayerInv, BothInv, OnceInv, InHand
  <2>2. /\ newest[Facts][r] = at[b].rows[r] /\ at[b].rows[r] # 0
        /\ r \in Textless \/ newest[b][r] = at[b].rows[r]
    BY <1>1, <1>5 DEF LayerInv, BuiltInv, InBatch, HeldIn
  <2>3. /\ Read[Facts][r] = at[b].rows[r]
        /\ r \in Textless \/ Read[b][r] = at[b].rows[r]
    BY <1>2, <1>5, <2>2 DEF ReadsNewest, Outs
  <2>4. Layer!Mark(r)
    BY <1>1, <1>3, <1>5, <2>1, <2>2, <2>3 DEF Layer!Mark, Layer!Whole, Layer!Open, Layer!Facts, Facts
  <2>. QED
    BY <2>4 DEF Layer!Next
<1>. QED
  BY <1>4, <1>5

(* Every other step is unseen, or takes rows away to contention.                    *)
LEMMA LayerStep == LayerInv /\ LayerInv' /\ [Next]_vars => [Layer!Next]_(Layer!vars)
<1>. SUFFICES ASSUME LayerInv, LayerInv', [Next]_vars PROVE [Layer!Next]_(Layer!vars)
  OBVIOUS
<1>0. /\ TypeOK /\ FilesOK /\ CompInv /\ shared \subseteq Reports
      /\ ReadsNewest /\ ReadsNewest'
  BY DEF LayerInv, SafeInv, FilesOK, TypeOK
<1>1. CASE UNCHANGED vars
  <2>1. Read' = Read
    BY <1>0, <1>1 DEF ReadsNewest, vars, history
  <2>. QED
    BY <1>1, <2>1 DEF Layer!vars, vars, history
<1>2. ASSUME NEW r \in Reports, SilverWrites(r) PROVE [Layer!Next]_(Layer!vars)
  <2>1. /\ silver' = [silver EXCEPT ![r] = silver[r] + 1] /\ done' = done
        /\ newest' = newest /\ shared' = shared
    BY <1>2 DEF SilverWrites, history
  <2>2. Read' = Read
    BY <1>0, <2>1 DEF ReadsNewest
  <2>3. Layer!Rewrite(r)
    BY <2>1, <2>2 DEF Layer!Rewrite
  <2>. QED
    BY <2>3 DEF Layer!Next
<1>3. CASE Tick
  BY <1>0, <1>3, TickDoes, ContendStep
<1>4. ASSUME NEW b \in Builders, StartBuild(b) PROVE [Layer!Next]_(Layer!vars)
  <2>1. silver' = silver /\ done' = done /\ newest' = newest /\ shared \subseteq shared'
    BY <1>0, <1>4, StartDoes
  <2>. QED
    BY <2>1, ContendStep
<1>5. ASSUME NEW b \in Builders, NEW failing \in SUBSET Reports, ReadChunk(b, failing)
      PROVE  [Layer!Next]_(Layer!vars)
  <2>1. silver' = silver /\ done' = done /\ newest' = newest /\ shared' = shared
    BY <1>5 DEF ReadChunk, history
  <2>. QED
    BY <2>1, ContendStep
<1>6. ASSUME NEW b \in Builders, NEW dir \in Dirs, WriteFile(b, dir)
      PROVE  [Layer!Next]_(Layer!vars)
  <2>1. CASE shared' = shared
    BY <1>6, <2>1, FactsStep, EmbeddingsStep
  <2>2. CASE shared' # shared
    <3>1. /\ silver' = silver /\ done' = done
          /\ shared \cup HeldIn(Written(b, dir).rows) \subseteq shared'
          /\ \A d \in Dirs, r \in Reports : newest'[d][r] =
               IF d = dir /\ Written(b, dir).rows[r] # 0 THEN Written(b, dir).rows[r]
               ELSE newest[d][r]
      BY <1>0, <1>6, <2>2, WriteDoes
    <3>2. \A d \in Dirs, r \in Reports \ shared' : newest'[d][r] = newest[d][r]
      BY <3>1 DEF HeldIn
    <3>. QED
      BY <3>1, <3>2, ContendStep
  <2>. QED
    BY <2>1, <2>2
<1>7. ASSUME NEW b \in Builders, EndBuild(b) \/ CrashBuild(b) PROVE [Layer!Next]_(Layer!vars)
  BY <1>0, <1>7, EndDoes, ContendStep
<1>8. CASE StartCompaction \/ EndCompaction \/ CrashCompaction
  BY <1>0, <1>8, RestDoes, ContendStep
<1>9. ASSUME NEW dir \in Dirs, MergeDir(dir) PROVE [Layer!Next]_(Layer!vars)
  BY <1>0, <1>9, MergeDoes, ContendStep
<1>10. CASE DeleteMerged
  BY <1>0, <1>10, DeleteDoes, ContendStep
<1>11. CASE Next
  BY <1>2, <1>3, <1>4, <1>5, <1>6, <1>7, <1>8, <1>9, <1>10, <1>11, Steps, MarkStep
<1>. QED
  BY <1>1, <1>11

LEMMA LayerInit == Init /\ LayerInv => Layer!Init
<1>. SUFFICES ASSUME Init, LayerInv PROVE Layer!Init
  OBVIOUS
<1>1. silver \in [Reports -> {0, 1}] /\ done \ shared = {} /\ shared = {}
  BY DEF Init
<1>2. \A dir \in Outs :
        [r \in Reports |-> IF r \in shared THEN 0 ELSE newest[dir][r]] = [r \in Reports |-> 0]
  BY Directories DEF Init, NoRows, Outs
<1>3. Read = [dir \in Outs |-> [r \in Reports |-> 0]]
  BY <1>2 DEF LayerInv, ReadsNewest
<1>. QED
  BY <1>1, <1>3 DEF Layer!Init, Layer!Facts, Facts, Outs

LEMMA LayerFollowed == Spec => Layer!Init /\ [][Layer!Next]_(Layer!vars)
  BY LayerAlways, LayerStep, LayerInit, PTL DEF Spec

(* Gold implements GoldLayer, whoever builds, fails or stops, and whenever the      *)
(* compaction comes between: to its readers its steps are those of the layer.      *)
THEOREM LayerCorrect == Spec => FollowsLayer
<1>1. [Layer!Next]_(Layer!vars) => [Unseen \/ Layer!Next]_(Layer!vars)
  OBVIOUS
<1>. QED
  BY <1>1, LayerFollowed, PTL DEF FollowsLayer

(* What a layer promises, and Gold keeps ------------------------------------------- *)
LEMMA AgreeStep ==
  LayerInv /\ Layer!MarkedAgree /\ [Layer!Next]_(Layer!vars) => Layer!MarkedAgree'
<1>. SUFFICES ASSUME LayerInv, Layer!MarkedAgree, [Layer!Next]_(Layer!vars)
              PROVE  Layer!MarkedAgree'
  OBVIOUS
<1>. DEFINE marked == done \ shared
            W(r) == /\ Read[Facts][r] # 0
                    /\ r \in Textless \/ \E b \in Builders : Read[b][r] = Read[Facts][r]
<1>1. marked \subseteq Reports /\ DOMAIN Read = Outs /\ Facts \in Outs /\ Builders \subseteq Outs
      /\ Facts \notin Builders
  BY Directories DEF LayerInv, SafeInv, FilesOK, TypeOK, Read, Outs
<1>2. \A r \in marked : W(r)
  BY DEF Layer!MarkedAgree, Layer!Whole, Layer!Facts, Facts
<1>3. SUFFICES ASSUME NEW r \in (done \ shared)'
               PROVE  W(r)'
  BY <1>3 DEF Layer!MarkedAgree, Layer!Whole, Layer!Facts, Facts
<1>4. CASE UNCHANGED Layer!vars
  BY <1>2, <1>4 DEF Layer!vars
<1>5. ASSUME NEW q \in Reports, Layer!Rewrite(q)
      PROVE  W(r)'
  BY <1>2, <1>5 DEF Layer!Rewrite
<1>6. ASSUME NEW q \in Reports, Layer!Mark(q)
      PROVE  W(r)'
  BY <1>2, <1>6 DEF Layer!Mark, Layer!Whole, Layer!Facts, Facts
<1>7. ASSUME NEW S, NEW v, Layer!PublishFacts(S, v)
      PROVE  W(r)'
  <2>1. r \in marked /\ r \notin S /\ r \in Reports
    BY <1>1, <1>7 DEF Layer!PublishFacts, Layer!Open
  <2>2. \A d \in Outs : Read'[d][r] = Read[d][r]
    BY <1>1, <1>7, <2>1 DEF Layer!PublishFacts, Layer!Put, Layer!Facts, Facts
  <2>. QED
    BY <1>1, <1>2, <2>1, <2>2
<1>8. ASSUME NEW c \in Builders, NEW S, Layer!PublishEmbeddings(c, S)
      PROVE  W(r)'
  <2>1. r \in marked /\ r \notin S /\ r \in Reports
    BY <1>1, <1>8 DEF Layer!PublishEmbeddings, Layer!Open
  <2>2. \A d \in Outs : Read'[d][r] = Read[d][r]
    BY <1>1, <1>8, <2>1 DEF Layer!PublishEmbeddings, Layer!Put
  <2>. QED
    BY <1>1, <1>2, <2>1, <2>2
<1>9. ASSUME NEW S, Layer!Contend(S)
      PROVE  W(r)'
  <2>1. r \in marked /\ r \notin S /\ r \in Reports
    BY <1>1, <1>9 DEF Layer!Contend
  <2>2. \A d \in Outs : Read'[d][r] = Read[d][r]
    BY <1>9, <2>1 DEF Layer!Contend, Layer!Facts, Facts, Outs
  <2>. QED
    BY <1>1, <1>2, <2>1, <2>2
<1>. QED
  BY <1>4, <1>5, <1>6, <1>7, <1>8, <1>9 DEF Layer!Next

(* A marker exists only where the output does: the facts and, if anything of the     *)
(* report is embedded, the embeddings of a mode, both of one version of it.  So it   *)
(* is in every layer, and Gold is one.                                              *)
THEOREM MarkedCorrect == Spec => []MarkedIsStored
<1>1. Layer!Init => Layer!MarkedAgree
  BY DEF Layer!Init, Layer!MarkedAgree
<1>2. LayerInv /\ Layer!MarkedAgree => MarkedIsStored
  <2>. SUFFICES ASSUME LayerInv, Layer!MarkedAgree, NEW r \in done \ shared
                PROVE  /\ Shown(Facts, r) # 0
                       /\ r \in Textless \/ \E b \in Builders : Shown(b, r) = Shown(Facts, r)
    BY DEF MarkedIsStored
  <2>1. r \in Reports
    BY DEF LayerInv, SafeInv, FilesOK, TypeOK
  <2>2. \A dir \in Outs : Read[dir][r] = Shown(dir, r)
    BY <2>1 DEF Read, Outs
  <2>. QED
    BY <2>2 DEF Layer!MarkedAgree, Layer!Whole, Layer!Facts, Facts, Outs
<1>. QED
  BY <1>1, <1>2, AgreeStep, LayerFollowed, LayerAlways, PTL
=============================================================================
