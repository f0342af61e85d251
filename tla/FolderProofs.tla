---------------------------- MODULE FolderProofs ----------------------------
(***************************************************************************)
(* What FolderTree keeps for every number of folders, files, commands and  *)
(* moves and every limit of the depth.                                     *)
(***************************************************************************)
EXTENDS FolderTree, Integers, FiniteSetTheorems, WellFoundedInduction, TLAPS

\* The closure table knows no way from a folder to itself but the empty one.
PathsSound == \A p \in paths : p.len = 0 <=> p.anc = p.desc

\* R-FD009: a command in this state is not about the personal folder.
Apart(q) ==
  /\ q.at \in {"rename_name", "rename", "move_to", "move_below", "move_name", "move"} => q.id # Home
  /\ q.at \in {"delete_files", "delete"} => q.id \in q.set /\ Home \notin q.set

HomeStays ==
  /\ Home \in Live /\ folders[Home].parent = Root /\ folders[Home].depth = 0
  /\ FindAncestorPaths(Home) = {}
  /\ \A c \in Cmd : Apart(cmd[c])

Structure == TypeOK /\ PathsSound /\ HomeStays

\* What a command in this state holds of the place of a folder is still so.
Placed(q) ==
  /\ q.at \in {"create_name", "create"} =>
       /\ q.parent # Root => folders[q.parent] # Unborn
       /\ q.parent \in Live \cup {Root} => q.depth = Depth(q.parent)
  /\ q.at \in {"rename_name", "rename"} =>
       /\ folders[q.id] # Unborn
       /\ q.id \in Live =>
            q.was.parent = folders[q.id].parent /\ q.was.depth = folders[q.id].depth

\* Without a move each folder is where it was created, in all three records.
InPlace ==
  /\ \A f \in Live :
       /\ folders[f].parent \in Live \cup {Root}
       /\ folders[f].depth = Depth(folders[f].parent)
       /\ {p \in paths : p.desc = f} = PathsOfNew(f, folders[f].parent)
       /\ {a \in FolderId : <<a, f>> \in relations} = {folders[f].parent} \ {Root}
  /\ \A a, f \in FolderId : <<a, f>> \in relations => folders[f] # Unborn

Tree == InPlace /\ \A c \in Cmd : Placed(cmd[c])

\* What a command that runs alone has read is still so.
Current(q) ==
  /\ q.at \in {"create_name", "create"} => q.parent \in Live \cup {Root}
  /\ q.at = "create" => ~NameTaken(q.parent, q.name)
  /\ q.at \in {"rename_name", "rename", "move_to", "move_below", "move_name", "move"} =>
       q.id \in Live /\ q.was = folders[q.id]
  /\ q.at = "rename" => q.name = q.was.name \/ ~NameTaken(q.was.parent, q.name)
  /\ q.at = "move" => ~NameTaken(q.to, q.was.name)
  /\ q.at \in {"delete_files", "delete"} => q.id \in Live /\ q.set = FoldersToDelete(q.id)
  /\ q.at = "delete" => DOMAIN q.files = FindByFolderIDs(q.set)

NamesDiffer ==
  \A f, g \in Live :
    f # g /\ folders[f].parent = folders[g].parent => folders[f].name # folders[g].name

\* Commands one after another leave no two folders of one name side by side.
Serial ==
  /\ \A c, d \in Cmd : cmd[c] # Idle /\ cmd[d] # Idle => c = d
  /\ NamesDiffer
  /\ \A c \in Cmd : Current(cmd[c])

FolderInv ==
  /\ Structure
  /\ moves = 0 => Tree
  /\ ~overlap => Serial
  /\ moves = 0 /\ ~overlap => \A x \in File : files[x] # Lost

-----------------------------------------------------------------------------
(* Induction *)

\* The library states induction for an operator; the provers take it for a set.
LEMMA LeastNumber ==
  ASSUME NEW S \in SUBSET Nat, S # {}
  PROVE  \E n \in S : \A m \in S : n <= m
<1> DEFINE R == OpToRel(<, Nat)
<1>1. IsWellFoundedOn(R, Nat)
  BY NatLessThanWellFounded
<1>2. \A m, n \in Nat : <<m, n>> \in R <=> m < n
  BY DEF OpToRel
<1> HIDE DEF R
<1>3. PICK n \in S : \A m \in S : ~(<<m, n>> \in R)
  BY <1>1, WFMin
<1>4. ASSUME NEW m \in S PROVE n <= m
  <2>1. m \in Nat /\ n \in Nat
    OBVIOUS
  <2>2. ~(m < n)
    BY <1>2, <1>3, <2>1
  <2> QED
    BY <2>1, <2>2
<1> QED
  BY <1>4

LEMMA Induction ==
  ASSUME NEW S, 0 \in S, \A n \in S \cap Nat : n + 1 \in S
  PROVE  Nat \subseteq S
<1> SUFFICES ASSUME Nat \ S # {} PROVE FALSE
  OBVIOUS
<1>1. PICK n \in Nat \ S : \A m \in Nat \ S : n <= m
  BY LeastNumber
<1>2. n - 1 \in Nat /\ (n - 1) + 1 = n /\ ~(n <= n - 1)
  BY <1>1
<1>3. n - 1 \in S
  BY <1>1, <1>2
<1> QED
  BY <1>2, <1>3

\* A finite set of numbers has a largest.
LEMMA LargestNumber ==
  ASSUME NEW S \in SUBSET Nat, IsFiniteSet(S), S # {}
  PROVE  \E n \in S : \A m \in S : m <= n
<1> DEFINE Has(T) == T # {} => \E n \in T : \A m \in T : m <= n
           All == {k \in Nat : \A T \in SUBSET Nat : IsFiniteSet(T) /\ Cardinality(T) = k => Has(T)}
<1>1. 0 \in All
  BY FS_EmptySet
<1>2. ASSUME NEW k \in All, k \in Nat PROVE k + 1 \in All
  <2> SUFFICES ASSUME NEW T \in SUBSET Nat, IsFiniteSet(T), Cardinality(T) = k + 1
               PROVE  Has(T)
    BY <1>2
  <2>1. CASE T = {}
    BY <2>1
  <2>2. CASE T # {}
    <3>1. PICK x \in T : TRUE
      BY <2>2
    <3>2. PICK rest : rest = T \ {x}
      OBVIOUS
    <3>a. IsFiniteSet(rest) /\ Cardinality(rest) = Cardinality(T) - 1
      BY <3>1, <3>2, FS_RemoveElement
    <3>b. rest \in SUBSET Nat /\ T = rest \cup {x} /\ Cardinality(T) - 1 = k
      BY <1>2, <3>2
    <3>3. IsFiniteSet(rest) /\ Cardinality(rest) = k /\ rest \in SUBSET Nat /\ T = rest \cup {x}
      BY <3>a, <3>b
    <3>4. Has(rest)
      BY <1>2, <3>3
    <3>5. CASE rest = {}
      BY <3>3, <3>5
    <3>6. CASE rest # {}
      <4>1. PICK n \in rest : \A m \in rest : m <= n
        BY <3>4, <3>6
      <4>2. PICK top : top = IF x <= n THEN n ELSE x
        OBVIOUS
      <4>3. x \in Nat /\ n \in Nat /\ \A m \in rest : m \in Nat
        BY <3>3
      <4>4. top \in T /\ \A m \in T : m <= top
        BY <3>3, <4>1, <4>2, <4>3
      <4> QED
        BY <4>4
    <3> QED
      BY <3>5, <3>6
  <2> QED
    BY <2>1, <2>2
<1>3. Nat \subseteq All
  <2> HIDE DEF All
  <2> QED
    BY <1>1, <1>2, Induction
<1>4. Cardinality(S) \in Nat
  BY FS_CardinalityType
<1> QED
  BY <1>3, <1>4

-----------------------------------------------------------------------------
(* Below, the folders that parent_id leads down to *)

\* One round: the folders reached, and their children.
Reach(parentOf, set) == set \cup {x \in DOMAIN parentOf : parentOf[x] \in set}

Rounds(w, parentOf, f, n) ==
  /\ w = [i \in 0..n |-> w[i]]
  /\ w[0] = {f}
  /\ \A i \in 1..n : w[i] = Reach(parentOf, w[i - 1])

LEMMA RoundsExist ==
  ASSUME NEW parentOf, NEW f
  PROVE  \A n \in Nat : \E w : Rounds(w, parentOf, f, n)
<1> DEFINE All == {n \in Nat : \E w : Rounds(w, parentOf, f, n)}
<1>1. 0 \in All
  <2>1. Rounds([i \in 0..0 |-> {f}], parentOf, f, 0)
    BY DEF Rounds
  <2> QED
    BY <2>1
<1>2. ASSUME NEW n \in All, n \in Nat PROVE n + 1 \in All
  <2>1. PICK w : Rounds(w, parentOf, f, n)
    OBVIOUS
  <2>2. PICK v : v = [i \in 0..(n + 1) |-> IF i = n + 1 THEN Reach(parentOf, w[n]) ELSE w[i]]
    OBVIOUS
  <2>3. v = [i \in 0..(n + 1) |-> v[i]] /\ v[0] = {f}
    BY <1>2, <2>1, <2>2 DEF Rounds
  <2>4. \A i \in 1..(n + 1) : v[i] = Reach(parentOf, v[i - 1])
    <3> SUFFICES ASSUME NEW i \in 1..(n + 1) PROVE v[i] = Reach(parentOf, v[i - 1])
      OBVIOUS
    <3>1. i - 1 \in 0..n /\ v[i - 1] = w[i - 1]
      BY <1>2, <2>2
    <3>2. CASE i = n + 1
      BY <1>2, <2>2, <3>1, <3>2
    <3>3. CASE i # n + 1
      <4>1. i \in 1..n /\ i \in 0..(n + 1)
        BY <1>2, <3>3
      <4>2. v[i] = w[i]
        BY <2>2, <3>3, <4>1
      <4>3. w[i] = Reach(parentOf, w[i - 1])
        BY <2>1, <4>1 DEF Rounds
      <4> QED
        BY <3>1, <4>2, <4>3
    <3> QED
      BY <3>2, <3>3
  <2>5. Rounds(v, parentOf, f, n + 1)
    BY <2>3, <2>4 DEF Rounds
  <2> QED
    BY <1>2, <2>5
<1> HIDE DEF All
<1>3. Nat \subseteq All
  BY <1>1, <1>2, Induction
<1> QED
  BY <1>3 DEF All

LEMMA BelowIsLastRound ==
  ASSUME NEW parentOf, NEW f
  PROVE  \E w : /\ Rounds(w, parentOf, f, Cardinality(FolderId))
                /\ Below(parentOf, f) = w[Cardinality(FolderId)]
<1> DEFINE N == Cardinality(FolderId)
           Def(w) == [n \in 0..N |-> IF n = 0 THEN {f}
                        ELSE w[n - 1] \cup {x \in DOMAIN parentOf : parentOf[x] \in w[n - 1]}]
           Within == CHOOSE w : w = Def(w)
<1>1. Below(parentOf, f) = Within[N]
  BY DEF Below
<1>2. N \in Nat
  BY FolderAssumption, FS_CardinalityType
<1>3. PICK w : Rounds(w, parentOf, f, N)
  BY <1>2, RoundsExist
<1>4. w = Def(w)
  <2>1. \A i \in 0..N : w[i] = Def(w)[i]
    <3>1. \A i \in 0..N : i = 0 \/ i \in 1..N
      BY <1>2
    <3> QED
      BY <1>3, <3>1 DEF Rounds, Reach
  <2>2. w = [i \in 0..N |-> w[i]]
    BY <1>3 DEF Rounds
  <2>3. [i \in 0..N |-> w[i]] = [i \in 0..N |-> Def(w)[i]]
    BY <2>1
  <2> QED
    BY <2>2, <2>3
<1>5. Within = Def(Within)
  BY <1>4
<1>6. Rounds(Within, parentOf, f, N)
  <2> HIDE DEF Within
  <2>1. \A n \in 0..N : Within[n] = IF n = 0 THEN {f} ELSE Reach(parentOf, Within[n - 1])
    BY <1>5 DEF Reach
  <2>2. Within = [i \in 0..N |-> Within[i]]
    BY <1>5
  <2>3. Within[0] = {f}
    BY <1>2, <2>1
  <2>4. \A n \in 1..N : Within[n] = Reach(parentOf, Within[n - 1])
    BY <1>2, <2>1
  <2> QED
    BY <2>2, <2>3, <2>4 DEF Rounds
<1> QED
  BY <1>1, <1>6

\* Whatever holds f and is closed under children holds all that is below f.
LEMMA BelowLeast ==
  ASSUME NEW parentOf, NEW f, NEW S, f \in S, \A x \in DOMAIN parentOf : parentOf[x] \in S => x \in S
  PROVE  Below(parentOf, f) \subseteq S
<1> DEFINE N == Cardinality(FolderId)
<1>1. PICK w : Rounds(w, parentOf, f, N) /\ Below(parentOf, f) = w[N]
  BY BelowIsLastRound
<1>2. N \in Nat
  BY FolderAssumption, FS_CardinalityType
<1> HIDE DEF N
<1> DEFINE All == {n \in Nat : n <= N => w[n] \subseteq S}
<1>3. 0 \in All
  BY <1>1 DEF Rounds
<1>4. ASSUME NEW n \in All, n \in Nat PROVE n + 1 \in All
  <2> SUFFICES ASSUME n + 1 <= N PROVE w[n + 1] \subseteq S
    BY <1>4
  <2>1. n + 1 \in 1..N /\ (n + 1) - 1 = n /\ n <= N
    BY <1>2, <1>4
  <2>2. w[n + 1] = Reach(parentOf, w[n])
    BY <1>1, <2>1 DEF Rounds
  <2>3. w[n] \subseteq S
    BY <2>1
  <2> QED
    BY <2>2, <2>3 DEF Reach
<1> HIDE DEF All
<1>5. N \in All
  BY <1>2, <1>3, <1>4, Induction
<1>6. N <= N
  BY <1>2
<1> QED
  BY <1>1, <1>5, <1>6 DEF All

\* As many rounds as there are folders reach them all.
LEMMA BelowClosed ==
  ASSUME NEW parentOf, DOMAIN parentOf \subseteq FolderId, NEW f \in FolderId
  PROVE  /\ f \in Below(parentOf, f)
         /\ \A x \in DOMAIN parentOf : parentOf[x] \in Below(parentOf, f) => x \in Below(parentOf, f)
<1> DEFINE N == Cardinality(FolderId)
<1>1. PICK w : Rounds(w, parentOf, f, N) /\ Below(parentOf, f) = w[N]
  BY BelowIsLastRound
<1>2. N \in Nat /\ IsFiniteSet(FolderId)
  BY FolderAssumption, FS_CardinalityType
<1> HIDE DEF N
<1> DEFINE Closed(set) == \A x \in DOMAIN parentOf : parentOf[x] \in set => x \in set
           Grown(n) == /\ f \in w[n] /\ w[n] \subseteq FolderId
                       /\ Closed(w[n]) \/ Cardinality(w[n]) > n
           All == {n \in Nat : n <= N => Grown(n)}
<1>3. 0 \in All
  <2>1. w[0] = {f} /\ Cardinality({f}) = 1
    BY <1>1, FS_Singleton DEF Rounds
  <2> QED
    BY <2>1
<1>4. ASSUME NEW n \in All, n \in Nat PROVE n + 1 \in All
  <2> SUFFICES ASSUME n + 1 <= N PROVE Grown(n + 1)
    BY <1>4
  <2>1. n + 1 \in 1..N /\ (n + 1) - 1 = n /\ n <= N
    BY <1>2, <1>4
  <2>2. PICK old, new : old = w[n] /\ new = w[n + 1]
    OBVIOUS
  <2>3. new = Reach(parentOf, old)
    BY <1>1, <2>1, <2>2 DEF Rounds
  <2>4. Grown(n)
    BY <2>1
  <2>5. f \in new /\ new \subseteq FolderId
    BY <2>2, <2>3, <2>4 DEF Reach
  <2>6. CASE Closed(old)
    <3>1. new = old
      BY <2>3, <2>6 DEF Reach
    <3> QED
      BY <2>2, <2>5, <2>6, <3>1
  <2>7. CASE ~Closed(old)
    <3>1. Cardinality(old) > n
      BY <2>2, <2>4, <2>7
    <3>2. PICK x \in new : x \notin old
      BY <2>3, <2>7 DEF Reach
    <3>3. old \subseteq new /\ old # new
      BY <2>3, <3>2 DEF Reach
    <3>4. IsFiniteSet(new)
      BY <1>2, <2>5, FS_Subset
    <3>5. /\ Cardinality(old) <= Cardinality(new) /\ Cardinality(old) # Cardinality(new)
          /\ IsFiniteSet(old)
      BY <3>3, <3>4, FS_Subset
    <3>6. Cardinality(old) \in Nat /\ Cardinality(new) \in Nat
      BY <3>4, <3>5, FS_CardinalityType
    <3>7. Cardinality(new) > n + 1
      BY <1>4, <3>1, <3>5, <3>6
    <3> QED
      BY <2>2, <2>5, <3>7
  <2> QED
    BY <2>6, <2>7
<1> HIDE DEF All
<1>5. N \in All
  BY <1>2, <1>3, <1>4, Induction
<1>6. Grown(N)
  BY <1>2, <1>5 DEF All
<1>7. Closed(w[N])
  <2>1. Cardinality(w[N]) <= N /\ Cardinality(w[N]) \in Nat
    BY <1>2, <1>6, FS_Subset, FS_CardinalityType DEF N
  <2> QED
    BY <1>2, <1>6, <2>1
<1> QED
  BY <1>1, <1>6, <1>7

-----------------------------------------------------------------------------
(* Shapes *)

LEMMA PendingShape ==
  ASSUME TypeOK, NEW c \in Cmd
  PROVE  /\ cmd[c] \in Pending \cup {Idle}
         /\ cmd[c] = Idle <=> cmd[c].at = "idle"
         /\ cmd[c].at \in {"create_name", "create"} =>
              cmd[c].parent \in Parent /\ cmd[c].name \in Name /\ cmd[c].depth \in 0..(MaxFolderDepth + 1)
         /\ cmd[c].at = "create" => cmd[c].depth \in 0..MaxFolderDepth
         /\ cmd[c].at \in {"rename_name", "rename"} =>
              cmd[c].id \in FolderId /\ cmd[c].was \in Folder /\ cmd[c].name \in Name
         /\ cmd[c].at \in {"move_to", "move_below", "move_name", "move"} =>
              cmd[c].id \in FolderId /\ cmd[c].was \in Folder /\ cmd[c].to \in Parent
         /\ cmd[c].at = "move_below" => cmd[c].depth \in 0..(MaxFolderDepth + 1)
         /\ cmd[c].at \in {"move_name", "move"} =>
              cmd[c].depth \in 0..MaxFolderDepth /\ cmd[c].below \subseteq FolderId
         /\ cmd[c].at \in {"delete_files", "delete"} =>
              cmd[c].id \in FolderId /\ cmd[c].set \subseteq FolderId
         /\ cmd[c].at = "delete" =>
              /\ DOMAIN cmd[c].files \subseteq File
              /\ \A x \in DOMAIN cmd[c].files : cmd[c].files[x] \in FolderId
<1>1. cmd[c] \in Pending \cup {Idle}
  BY DEF TypeOK
<1>2. cmd[c].at = "delete" =>
              /\ DOMAIN cmd[c].files \subseteq File
              /\ \A x \in DOMAIN cmd[c].files : cmd[c].files[x] \in FolderId
  <2> SUFFICES ASSUME cmd[c].at = "delete"
               PROVE  /\ DOMAIN cmd[c].files \subseteq File
                      /\ \A x \in DOMAIN cmd[c].files : cmd[c].files[x] \in FolderId
    OBVIOUS
  <2>1. PICK found \in SUBSET File : cmd[c].files \in [found -> FolderId]
    BY <1>1 DEF Pending, Idle
  <2> QED
    BY <2>1
<1>3. cmd[c].at = "create" => cmd[c].depth \in 0..MaxFolderDepth
  BY <1>1 DEF Pending, Idle
<1>4. cmd[c].at \in {"create_name", "create"} =>
        cmd[c].parent \in Parent /\ cmd[c].name \in Name /\ cmd[c].depth \in 0..(MaxFolderDepth + 1)
  BY <1>1, FolderAssumption DEF Pending, Idle
<1>5. /\ cmd[c] = Idle <=> cmd[c].at = "idle"
      /\ cmd[c].at \in {"rename_name", "rename"} =>
           cmd[c].id \in FolderId /\ cmd[c].was \in Folder /\ cmd[c].name \in Name
  BY <1>1 DEF Pending, Idle
<1>6. /\ cmd[c].at \in {"move_to", "move_below", "move_name", "move"} =>
           cmd[c].id \in FolderId /\ cmd[c].was \in Folder /\ cmd[c].to \in Parent
      /\ cmd[c].at = "move_below" => cmd[c].depth \in 0..(MaxFolderDepth + 1)
  BY <1>1 DEF Pending, Idle
<1>7. /\ cmd[c].at \in {"move_name", "move"} =>
           cmd[c].depth \in 0..MaxFolderDepth /\ cmd[c].below \subseteq FolderId
      /\ cmd[c].at \in {"delete_files", "delete"} =>
           cmd[c].id \in FolderId /\ cmd[c].set \subseteq FolderId
  BY <1>1 DEF Pending, Idle
<1> QED
  BY <1>1, <1>2, <1>3, <1>4, <1>5, <1>6, <1>7

LEMMA Becomes ==
  ASSUME TypeOK, NEW c \in Cmd, NEW state \in Pending \cup {Idle}, Become(c, state)
  PROVE  /\ cmd' \in [Cmd -> Pending \cup {Idle}]
         /\ cmd'[c] = state
         /\ \A d \in Cmd : d # c => cmd'[d] = cmd[d]
BY DEF TypeOK, Become

LEMMA LiveRows ==
  ASSUME TypeOK
  PROVE  \A f \in FolderId : f \in Live <=> folders[f] \in Folder
BY FolderAssumption DEF TypeOK, Live

\* What the commands hold is read of the tables alone.
LEMMA SameTables ==
  ASSUME UNCHANGED <<folders, paths, relations, files>>
  PROVE  /\ Live' = Live
         /\ \A q : Placed(q) => Placed(q)'
         /\ \A q : Current(q) => Current(q)'
BY DEF Live, Placed, Depth, Current, NameTaken, FoldersToDelete, FindDescendantIDs,
       FindDescendantsWithDepth, FindByFolderIDs

\* The step of a command that writes nothing: what it holds from now on must fit.
LEMMA QuietStep ==
  ASSUME FolderInv, NEW c \in Cmd, NEW state \in Pending \cup {Idle}, Become(c, state), Apart(state),
         UNCHANGED <<folders, paths, relations, files, moves>>,
         overlap' \in BOOLEAN, overlap => overlap',
         moves = 0 => Placed(state),
         ~overlap' => Current(state) /\ \A d \in Cmd \ {c} : cmd[d] = Idle
  PROVE  FolderInv'
<1>0. TypeOK /\ PathsSound /\ HomeStays
  BY DEF FolderInv, Structure
<1>1. /\ cmd' \in [Cmd -> Pending \cup {Idle}]
      /\ cmd'[c] = state
      /\ \A d \in Cmd : d # c => cmd'[d] = cmd[d]
  BY <1>0, Becomes
<1>2. /\ Live' = Live
      /\ \A q : Placed(q) => Placed(q)'
      /\ \A q : Current(q) => Current(q)'
  BY SameTables
<1>3. TypeOK'
  BY <1>0, <1>1, <1>2 DEF TypeOK
<1>4. Structure'
  <2>1. \A d \in Cmd : Apart(cmd'[d])
    BY <1>0, <1>1 DEF HomeStays
  <2>2. \A d \in Cmd : Apart(cmd[d])'
    BY <2>1 DEF Apart
  <2>3. HomeStays'
    BY <1>0, <1>2, <2>2 DEF HomeStays, FindAncestorPaths
  <2> QED
    BY <1>0, <1>3, <2>3 DEF Structure, PathsSound
<1>5. moves' = 0 => Tree'
  <2> SUFFICES ASSUME moves = 0 PROVE Tree'
    OBVIOUS
  <2>1. Tree /\ Placed(state)
    BY DEF FolderInv
  <2>2. ASSUME NEW d \in Cmd PROVE Placed(cmd[d])'
    <3>1. PICK q : q = cmd'[d]
      OBVIOUS
    <3>2. Placed(q)'
      BY <1>1, <1>2, <2>1, <3>1 DEF Tree
    <3> QED
      BY <3>1, <3>2 DEF Placed
  <2> QED
    BY <1>2, <2>1, <2>2 DEF Tree, InPlace, Depth, PathsOfNew, FindAncestorPaths
<1>6. ~overlap' => Serial'
  <2> SUFFICES ASSUME ~overlap' PROVE Serial'
    OBVIOUS
  <2>1. Serial /\ Current(state) /\ \A d \in Cmd \ {c} : cmd[d] = Idle
    BY DEF FolderInv
  <2>2. ASSUME NEW d \in Cmd PROVE Current(cmd[d])'
    <3>1. PICK q : q = cmd'[d]
      OBVIOUS
    <3>2. Current(q)'
      BY <1>1, <1>2, <2>1, <3>1 DEF Serial
    <3> QED
      BY <3>1, <3>2 DEF Current
  <2>3. \A d, e \in Cmd : cmd'[d] # Idle /\ cmd'[e] # Idle => d = e
    BY <1>1, <2>1
  <2> QED
    BY <1>2, <2>1, <2>2, <2>3 DEF Serial, NamesDiffer
<1> QED
  BY <1>4, <1>5, <1>6 DEF FolderInv

LEMMA ReturnStep ==
  ASSUME FolderInv, NEW c \in Cmd, Return(c), cmd[c] # Idle
  PROVE  FolderInv'
<1>1. /\ Become(c, Idle) /\ UNCHANGED <<folders, paths, relations, files, moves, overlap>>
      /\ overlap \in BOOLEAN
  BY DEF Return, tables, history, FolderInv, Structure, TypeOK
<1>2. Apart(Idle) /\ Placed(Idle) /\ Current(Idle)
  BY DEF Apart, Placed, Current, Idle
<1>3. ~overlap => \A d \in Cmd \ {c} : cmd[d] = Idle
  BY DEF FolderInv, Serial
<1> QED
  BY <1>1, <1>2, <1>3, QuietStep

LEMMA ProceedStep ==
  ASSUME FolderInv, NEW c \in Cmd, NEW state \in Pending, Proceed(c, state), cmd[c] # Idle,
         Apart(state), moves = 0 => Placed(state), ~overlap => Current(state)
  PROVE  FolderInv'
<1>1. /\ Become(c, state) /\ UNCHANGED <<folders, paths, relations, files, moves, overlap>>
      /\ overlap \in BOOLEAN
  BY DEF Proceed, tables, history, FolderInv, Structure, TypeOK
<1>2. ~overlap => \A d \in Cmd \ {c} : cmd[d] = Idle
  BY DEF FolderInv, Serial
<1> QED
  BY <1>1, <1>2, QuietStep

LEMMA BeginStep ==
  ASSUME FolderInv, NEW c \in Cmd, NEW state \in Pending, Begin(c, state), Apart(state),
         moves = 0 => Placed(state), Current(state)
  PROVE  FolderInv'
<1>1. /\ Become(c, state) /\ UNCHANGED <<folders, paths, relations, files, moves>>
      /\ overlap' \in BOOLEAN /\ (overlap => overlap')
      /\ ~overlap' => \A d \in Cmd \ {c} : cmd[d] = Idle
  BY DEF Begin, tables, FolderInv, Structure, TypeOK
<1> QED
  BY <1>1, QuietStep

-----------------------------------------------------------------------------
(* Commands that read *)

\* The subtree of a folder has a height.
LEMMA HeightIsNumber ==
  ASSUME TypeOK, NEW f
  PROVE  Height(f) \in Nat
<1> DEFINE lens == {p.len : p \in FindDescendantsWithDepth(f)}
           lenOf == [d \in FindDescendantIDs(f) |-> CHOOSE n \in lens :
                       \E p \in FindDescendantsWithDepth(f) : p.desc = d /\ p.len = n]
<1>1. CASE FindDescendantsWithDepth(f) = {}
  BY <1>1 DEF Height
<1>2. CASE FindDescendantsWithDepth(f) # {}
  <2>1. lens \in SUBSET Nat /\ lens # {}
    BY <1>2 DEF FindDescendantsWithDepth, TypeOK, FolderPath
  <2>2. IsFiniteSet(FindDescendantIDs(f))
    <3>1. FindDescendantIDs(f) \subseteq FolderId
      BY DEF FindDescendantIDs, FindDescendantsWithDepth, TypeOK, FolderPath
    <3> QED
      BY <3>1, FolderAssumption, FS_Subset
  <2>3. \A p \in FindDescendantsWithDepth(f) :
          p.desc \in FindDescendantIDs(f) /\ lenOf[p.desc] = p.len
    <3> SUFFICES ASSUME NEW p \in FindDescendantsWithDepth(f)
                 PROVE  p.desc \in FindDescendantIDs(f) /\ lenOf[p.desc] = p.len
      OBVIOUS
    <3>1. p.desc \in FindDescendantIDs(f) /\ p.len \in lens
      BY DEF FindDescendantIDs
    <3>2. \A q \in FindDescendantsWithDepth(f) : q.desc = p.desc => q = p
      BY DEF FindDescendantsWithDepth, TypeOK
    <3> QED
      BY <3>1, <3>2
  <2>4. \A d \in FindDescendantIDs(f) : lenOf[d] \in lens
    BY <2>3 DEF FindDescendantIDs
  <2>5. lenOf \in Surjection(FindDescendantIDs(f), lens)
    <3> HIDE DEF lenOf
    <3>1. lenOf \in [FindDescendantIDs(f) -> lens]
      BY <2>4 DEF lenOf
    <3>2. \A n \in lens : \E d \in FindDescendantIDs(f) : lenOf[d] = n
      BY <2>3
    <3> QED
      BY <3>1, <3>2 DEF Surjection
  <2>6. IsFiniteSet(lens)
    BY <2>2, <2>5, FS_Surjection
  <2>7. PICK n \in lens : \A m \in lens : m <= n
    <3> HIDE DEF lens
    <3> QED
      BY <2>1, <2>6, LargestNumber
  <2>8. Height(f) \in lens
    BY <1>2, <2>7 DEF Height
  <2> QED
    BY <2>1, <2>8
<1> QED
  BY <1>1, <1>2

LEMMA ReadingSteps ==
  ASSUME FolderInv, NEW c \in Cmd,
         \/ CreateFolder(c) \/ CreateName(c) \/ RenameFolder(c) \/ RenameName(c)
         \/ MoveFolder(c) \/ MoveTo(c) \/ MoveBelow(c) \/ MoveName(c)
         \/ DeleteFolder(c) \/ DeleteFiles(c)
  PROVE  FolderInv'
<1>0. TypeOK /\ PathsSound /\ HomeStays
  BY DEF FolderInv, Structure
<1>a. /\ moves = 0 => Tree /\ Placed(cmd[c])
      /\ ~overlap => Serial /\ Current(cmd[c])
      /\ Apart(cmd[c])
  BY <1>0 DEF FolderInv, Tree, Serial, HomeStays
<1>1. CASE CreateFolder(c)
  <2>1. PICK parent \in Live \cup {Root}, name \in Name : CreateRead(c, parent, name)
    BY <1>1 DEF CreateFolder
  <2>2. PICK state : state = [at |-> "create_name", parent |-> parent, name |-> name, depth |-> Depth(parent)]
    OBVIOUS
  <2>3. parent \in Parent /\ Depth(parent) \in 0..(MaxFolderDepth + 1)
    BY <1>0, LiveRows, FolderAssumption DEF Depth, Folder, Live, Parent
  <2>4. state \in Pending
    BY <2>2, <2>3 DEF Pending
  <2>5. Apart(state) /\ Placed(state) /\ Current(state)
    BY <2>2 DEF Apart, Placed, Current, Live
  <2> QED
    BY <2>1, <2>2, <2>4, <2>5, BeginStep DEF CreateRead
<1>2. CASE CreateName(c)
  <2>1. cmd[c].at = "create_name" /\ cmd[c] # Idle
    BY <1>2 DEF CreateName, Idle
  <2>2. CASE NameTaken(cmd[c].parent, cmd[c].name) \/ cmd[c].depth > MaxFolderDepth
    BY <1>2, <2>1, <2>2, ReturnStep DEF CreateName
  <2>3. CASE ~(NameTaken(cmd[c].parent, cmd[c].name) \/ cmd[c].depth > MaxFolderDepth)
    <3>1. PICK state : state = [cmd[c] EXCEPT !.at = "create"]
      OBVIOUS
    <3>2. cmd[c] \in [at: {"create_name"}, parent: Parent, name: Name, depth: 0..(MaxFolderDepth + 1)]
      BY <1>0, <2>1 DEF TypeOK, Pending, Idle
    <3>3. /\ state.at = "create" /\ state.parent = cmd[c].parent /\ state.name = cmd[c].name
          /\ state.depth = cmd[c].depth
      BY <3>1, <3>2
    <3>4. cmd[c].depth \in 0..MaxFolderDepth
      BY <2>3, <3>2, FolderAssumption
    <3>5. state \in Pending
      BY <3>1, <3>2, <3>4 DEF Pending
    <3>6. Apart(state) /\ (moves = 0 => Placed(state)) /\ (~overlap => Current(state))
      BY <1>a, <2>1, <2>3, <3>3 DEF Apart, Placed, Current
    <3> QED
      BY <1>2, <2>1, <2>3, <3>1, <3>5, <3>6, ProceedStep DEF CreateName
  <2> QED
    BY <2>2, <2>3
<1>3. CASE RenameFolder(c)
  <2>1. PICK f \in Live, name \in Name : RenameRead(c, f, name)
    BY <1>3 DEF RenameFolder
  <2>2. PICK state : state = [at |-> "rename_name", id |-> f, was |-> folders[f], name |-> name]
    OBVIOUS
  <2>3. state \in Pending
    BY <1>0, <2>2, LiveRows DEF Pending, Live
  <2>4. Apart(state) /\ Placed(state) /\ Current(state)
    BY <2>1, <2>2 DEF Apart, Placed, Current, RenameRead, NotPersonal, Live
  <2> QED
    BY <2>1, <2>2, <2>3, <2>4, BeginStep DEF RenameRead
<1>4. CASE RenameName(c)
  <2>1. cmd[c].at = "rename_name" /\ cmd[c] # Idle
    BY <1>4 DEF RenameName, Idle
  <2>2. CASE ~MayRename(c)
    BY <1>4, <2>1, <2>2, ReturnStep DEF RenameName
  <2>3. CASE MayRename(c)
    <3>1. PICK state : state = [cmd[c] EXCEPT !.at = "rename"]
      OBVIOUS
    <3>2. cmd[c] \in [at: {"rename_name", "rename"}, id: FolderId, was: Folder, name: Name]
      BY <1>0, <2>1 DEF TypeOK, Pending, Idle
    <3>3. /\ state.at = "rename" /\ state.id = cmd[c].id /\ state.name = cmd[c].name
          /\ state.was = cmd[c].was
      BY <3>1, <3>2
    <3>4. state \in Pending
      BY <3>1, <3>2 DEF Pending
    <3>5. Apart(state) /\ (moves = 0 => Placed(state)) /\ (~overlap => Current(state))
      BY <1>a, <2>1, <2>3, <3>3 DEF Apart, Placed, Current, MayRename
    <3> QED
      BY <1>4, <2>1, <2>3, <3>1, <3>4, <3>5, ProceedStep DEF RenameName
  <2> QED
    BY <2>2, <2>3
<1>5. CASE MoveFolder(c)
  <2>1. PICK f \in Live, to \in Live \cup {Root} : MoveRead(c, f, to)
    BY <1>5 DEF MoveFolder
  <2>2. PICK state : state = [at |-> "move_to", id |-> f, was |-> folders[f], to |-> to]
    OBVIOUS
  <2>3. state \in Pending
    BY <1>0, <2>2, LiveRows DEF Pending, Live, Parent
  <2>4. Apart(state) /\ Placed(state) /\ Current(state)
    BY <2>1, <2>2 DEF Apart, Placed, Current, MoveRead, NotPersonal
  <2> QED
    BY <2>1, <2>2, <2>3, <2>4, BeginStep DEF MoveRead
<1>6. CASE MoveTo(c)
  <2>1. cmd[c].at = "move_to" /\ cmd[c] # Idle
    BY <1>6 DEF MoveTo, Idle
  <2>2. CASE cmd[c].to \notin Live \cup {Root}
    BY <1>6, <2>1, <2>2, ReturnStep DEF MoveTo
  <2>3. CASE cmd[c].to \in Live \cup {Root}
    <3>1. PICK id, was, to : id = cmd[c].id /\ was = cmd[c].was /\ to = cmd[c].to
      OBVIOUS
    <3>2. PICK state : state = [at |-> "move_below", id |-> id, was |-> was, to |-> to, depth |-> Depth(to)]
      OBVIOUS
    <3>3. id \in FolderId /\ was \in Folder /\ to \in Parent
      BY <1>0, <2>1, <3>1, PendingShape
    <3>4. Depth(to) \in 0..(MaxFolderDepth + 1)
      BY <1>0, <2>3, <3>1, LiveRows, FolderAssumption DEF Depth, Folder, Live
    <3>5. state \in Pending
      BY <3>2, <3>3, <3>4 DEF Pending
    <3>6. Apart(state) /\ (moves = 0 => Placed(state)) /\ (~overlap => Current(state))
      BY <1>a, <2>1, <3>1, <3>2 DEF Apart, Placed, Current
    <3> QED
      BY <1>6, <2>1, <2>3, <3>1, <3>2, <3>5, <3>6, ProceedStep DEF MoveTo
  <2> QED
    BY <2>2, <2>3
<1>7. CASE MoveBelow(c)
  <2>1. cmd[c].at = "move_below" /\ cmd[c] # Idle
    BY <1>7 DEF MoveBelow, Idle
  <2>2. PICK id, was, to, depth, below :
          /\ id = cmd[c].id /\ was = cmd[c].was /\ to = cmd[c].to /\ depth = cmd[c].depth
          /\ below = FindDescendantIDs(cmd[c].id)
    OBVIOUS
  <2>3. PICK state : state = [at |-> "move_name", id |-> id, was |-> was, to |-> to,
                              depth |-> depth, below |-> below]
    OBVIOUS
  <2>4. \/ Return(c)
        \/ Proceed(c, state) /\ CanMoveTo(id, to, depth + Height(id), below)
    BY <1>7, <2>2, <2>3 DEF MoveBelow
  <2>5. CASE Return(c)
    BY <2>1, <2>5, ReturnStep
  <2>6. CASE Proceed(c, state) /\ CanMoveTo(id, to, depth + Height(id), below)
    <3>1. id \in FolderId /\ was \in Folder /\ to \in Parent /\ depth \in 0..(MaxFolderDepth + 1)
      BY <1>0, <2>1, <2>2, PendingShape
    <3>2. depth \in 0..MaxFolderDepth
      BY <1>0, <2>6, <3>1, HeightIsNumber, FolderAssumption DEF CanMoveTo
    <3>3. below \subseteq FolderId
      BY <1>0, <2>2 DEF FindDescendantIDs, FindDescendantsWithDepth, TypeOK, FolderPath
    <3>4. state \in Pending
      BY <2>3, <3>1, <3>2, <3>3 DEF Pending
    <3>5. Apart(state) /\ (moves = 0 => Placed(state)) /\ (~overlap => Current(state))
      BY <1>a, <2>1, <2>2, <2>3 DEF Apart, Placed, Current
    <3> QED
      BY <2>1, <2>6, <3>4, <3>5, ProceedStep
  <2> QED
    BY <2>4, <2>5, <2>6
<1>8. CASE MoveName(c)
  <2>1. cmd[c].at = "move_name" /\ cmd[c] # Idle
    BY <1>8 DEF MoveName, Idle
  <2>2. CASE NameTaken(cmd[c].to, cmd[c].was.name)
    BY <1>8, <2>1, <2>2, ReturnStep DEF MoveName
  <2>3. CASE ~NameTaken(cmd[c].to, cmd[c].was.name)
    <3>1. PICK state : state = [cmd[c] EXCEPT !.at = "move"]
      OBVIOUS
    <3>2. cmd[c] \in [at: {"move_name", "move"}, id: FolderId, was: Folder, to: Parent,
                      depth: 0..MaxFolderDepth, below: SUBSET FolderId]
      BY <1>0, <2>1 DEF TypeOK, Pending, Idle
    <3>3. state.at = "move" /\ state.id = cmd[c].id /\ state.was = cmd[c].was /\ state.to = cmd[c].to
      BY <3>1, <3>2
    <3>4. state \in Pending
      BY <3>1, <3>2 DEF Pending
    <3>5. Apart(state) /\ (moves = 0 => Placed(state)) /\ (~overlap => Current(state))
      BY <1>a, <2>1, <2>3, <3>3 DEF Apart, Placed, Current
    <3> QED
      BY <1>8, <2>1, <2>3, <3>1, <3>4, <3>5, ProceedStep DEF MoveName
  <2> QED
    BY <2>2, <2>3
<1>9. CASE DeleteFolder(c)
  <2>1. PICK f \in Live : DeleteRead(c, f)
    BY <1>9 DEF DeleteFolder
  <2>2. PICK set : set = FoldersToDelete(f)
    OBVIOUS
  <2>3. PICK state : state = [at |-> "delete_files", id |-> f, set |-> set]
    OBVIOUS
  <2>4. f \in FolderId /\ set \subseteq FolderId /\ f \in set /\ f # Home
    BY <1>0, <2>1, <2>2
       DEF Live, FoldersToDelete, FindDescendantIDs, FindDescendantsWithDepth, TypeOK, FolderPath,
           DeleteRead, NotPersonal
  <2>5. Home \notin set
    BY <1>0, <2>2, <2>4
       DEF FoldersToDelete, FindDescendantIDs, FindDescendantsWithDepth, HomeStays, FindAncestorPaths
  <2>6. state \in Pending
    BY <2>3, <2>4 DEF Pending
  <2>7. Apart(state) /\ Placed(state) /\ Current(state)
    BY <2>2, <2>3, <2>4, <2>5 DEF Apart, Placed, Current
  <2> QED
    BY <2>1, <2>2, <2>3, <2>6, <2>7, BeginStep DEF DeleteRead
<1>10. CASE DeleteFiles(c)
  <2>1. cmd[c].at = "delete_files" /\ cmd[c] # Idle
    BY <1>10 DEF DeleteFiles, Idle
  <2>2. PICK id, set, found : /\ id = cmd[c].id /\ set = cmd[c].set
                              /\ found = [f \in FindByFolderIDs(set) |-> files[f]]
    OBVIOUS
  <2>3. PICK state : state = [at |-> "delete", id |-> id, set |-> set, files |-> found]
    OBVIOUS
  <2>4. id \in FolderId /\ set \subseteq FolderId
    BY <1>0, <2>1, <2>2, PendingShape
  <2>5. FindByFolderIDs(set) \subseteq File /\ \A x \in FindByFolderIDs(set) : files[x] \in FolderId
    BY <2>4 DEF FindByFolderIDs
  <2>6. found \in UNION {[S -> FolderId] : S \in SUBSET File} /\ DOMAIN found = FindByFolderIDs(set)
    BY <2>2, <2>5
  <2>7. state \in Pending
    BY <2>3, <2>4, <2>6 DEF Pending
  <2>8. Apart(state) /\ (moves = 0 => Placed(state)) /\ (~overlap => Current(state))
    BY <1>a, <2>1, <2>2, <2>3, <2>6 DEF Apart, Placed, Current
  <2>9. Proceed(c, state)
    BY <1>10, <2>2, <2>3 DEF DeleteFiles
  <2> QED
    BY <2>1, <2>7, <2>8, <2>9, ProceedStep
<1> QED
  BY <1>1, <1>2, <1>3, <1>4, <1>5, <1>6, <1>7, <1>8, <1>9, <1>10

-----------------------------------------------------------------------------
(* Commands that write *)

\* Where folders keep their place, what commands hold of it stays right.
LEMMA PlaceStays ==
  ASSUME \A f \in FolderId :
           /\ folders[f] # Unborn => folders'[f] # Unborn
           /\ f \in Live' => \/ folders[f] = Unborn
                             \/ /\ f \in Live /\ folders'[f].parent = folders[f].parent
                                /\ folders'[f].depth = folders[f].depth,
         NEW c \in Cmd, TypeOK, Placed(cmd[c])
  PROVE  /\ cmd[c].at \in {"create_name", "create"} =>
              /\ cmd[c].parent # Root => folders'[cmd[c].parent] # Unborn
              /\ cmd[c].parent \in Live' \cup {Root} =>
                   cmd[c].depth = IF cmd[c].parent = Root THEN 0 ELSE folders'[cmd[c].parent].depth + 1
         /\ cmd[c].at \in {"rename_name", "rename"} =>
              /\ folders'[cmd[c].id] # Unborn
              /\ cmd[c].id \in Live' =>
                   /\ cmd[c].was.parent = folders'[cmd[c].id].parent
                   /\ cmd[c].was.depth = folders'[cmd[c].id].depth
<1>1. ASSUME cmd[c].at \in {"create_name", "create"}
      PROVE  /\ cmd[c].parent # Root => folders'[cmd[c].parent] # Unborn
             /\ cmd[c].parent \in Live' \cup {Root} =>
                   cmd[c].depth = IF cmd[c].parent = Root THEN 0 ELSE folders'[cmd[c].parent].depth + 1
  <2>1. PICK parent, depth : parent = cmd[c].parent /\ depth = cmd[c].depth
    OBVIOUS
  <2>2. parent \in FolderId \cup {Root} /\ Root \notin FolderId
    BY <1>1, <2>1, PendingShape, FolderAssumption DEF Parent
  <2>3. /\ parent # Root => folders[parent] # Unborn
        /\ parent \in Live \cup {Root} => depth = Depth(parent)
    BY <1>1, <2>1 DEF Placed
  <2>4. parent # Root => folders'[parent] # Unborn
    BY <2>2, <2>3
  <2>5. parent \in Live' \cup {Root} => depth = IF parent = Root THEN 0 ELSE folders'[parent].depth + 1
    BY <2>2, <2>3 DEF Depth, Live
  <2> QED
    BY <2>1, <2>4, <2>5
<1>2. ASSUME cmd[c].at \in {"rename_name", "rename"}
      PROVE  /\ folders'[cmd[c].id] # Unborn
             /\ cmd[c].id \in Live' =>
                  /\ cmd[c].was.parent = folders'[cmd[c].id].parent
                  /\ cmd[c].was.depth = folders'[cmd[c].id].depth
  BY <1>2, PendingShape DEF Placed
<1> QED
  BY <1>1, <1>2

\* The last step of a command: the tables must be right.
LEMMA WriteStep ==
  ASSUME FolderInv, NEW c \in Cmd, Become(c, Idle), cmd[c] # Idle, overlap' = overlap,
         folders' \in [FolderId -> Folder \cup {Unborn, Gone}],
         paths' \subseteq FolderPath,
         \A p \in paths' : {p.anc, p.desc} \subseteq Live',
         \A p, q \in paths' : p.anc = q.anc /\ p.desc = q.desc => p = q,
         relations' \subseteq FolderId \X FolderId,
         files' \in [File -> Live' \cup {Unborn, Trash, Lost}],
         moves' \in Nat,
         PathsSound',
         Home \in Live', folders'[Home].parent = Root, folders'[Home].depth = 0,
         FindAncestorPaths(Home)' = {},
         moves' = 0 =>
           /\ moves = 0 /\ InPlace'
           /\ \A f \in FolderId :
                /\ folders[f] # Unborn => folders'[f] # Unborn
                /\ f \in Live' => \/ folders[f] = Unborn
                                  \/ /\ f \in Live /\ folders'[f].parent = folders[f].parent
                                     /\ folders'[f].depth = folders[f].depth,
         ~overlap => NamesDiffer',
         moves' = 0 /\ ~overlap => \A x \in File : files'[x] # Lost
  PROVE  FolderInv'
<1>0. TypeOK /\ HomeStays
  BY DEF FolderInv, Structure
<1>1. /\ cmd' \in [Cmd -> Pending \cup {Idle}]
      /\ cmd'[c] = Idle
      /\ \A d \in Cmd : d # c => cmd'[d] = cmd[d]
  BY <1>0, Becomes
<1>2. TypeOK'
  BY <1>0, <1>1 DEF TypeOK
<1>3. HomeStays'
  <2>1. Apart(Idle) /\ \A d \in Cmd : Apart(cmd[d])
    BY <1>0 DEF HomeStays, Apart, Idle
  <2>2. \A d \in Cmd : Apart(cmd'[d])
    BY <1>1, <2>1
  <2> QED
    BY <2>2 DEF HomeStays, Apart
<1>4. moves' = 0 => Tree'
  <2> SUFFICES ASSUME moves' = 0 PROVE Tree'
    OBVIOUS
  <2>1. Tree
    BY DEF FolderInv
  <2>2. ASSUME NEW d \in Cmd PROVE Placed(cmd[d])'
    <3>1. CASE d = c
      <4>1. cmd'[d].at = "idle"
        BY <1>1, <3>1 DEF Idle
      <4> QED
        BY <4>1 DEF Placed
    <3>2. CASE d # c
      <4>1. cmd'[d] = cmd[d] /\ Placed(cmd[d])
        BY <1>1, <2>1, <3>2 DEF Tree
      <4>2. /\ cmd[d].at \in {"create_name", "create"} =>
                 /\ cmd[d].parent # Root => folders'[cmd[d].parent] # Unborn
                 /\ cmd[d].parent \in Live' \cup {Root} =>
                      cmd[d].depth = IF cmd[d].parent = Root THEN 0 ELSE folders'[cmd[d].parent].depth + 1
            /\ cmd[d].at \in {"rename_name", "rename"} =>
                 /\ folders'[cmd[d].id] # Unborn
                 /\ cmd[d].id \in Live' =>
                      /\ cmd[d].was.parent = folders'[cmd[d].id].parent
                      /\ cmd[d].was.depth = folders'[cmd[d].id].depth
        BY <1>0, <4>1, PlaceStays
      <4> QED
        BY <4>1, <4>2 DEF Placed, Depth
    <3> QED
      BY <3>1, <3>2
  <2> QED
    BY <2>2 DEF Tree
<1>5. ~overlap' => Serial'
  <2> SUFFICES ASSUME ~overlap PROVE Serial'
    OBVIOUS
  <2>1. \A d \in Cmd : cmd'[d] = Idle
    BY <1>1 DEF FolderInv, Serial
  <2>2. \A d \in Cmd : cmd'[d].at = "idle"
    BY <2>1 DEF Idle
  <2>3. \A d \in Cmd : Current(cmd[d])'
    BY <2>2 DEF Current
  <2> QED
    BY <2>1, <2>3 DEF Serial
<1> QED
  BY <1>2, <1>3, <1>4, <1>5 DEF FolderInv, Structure

\* A file arrives: the tree stays, and who sees it arrive has overlapped.
LEMMA PutFileStep ==
  ASSUME FolderInv, NEW x \in File, NEW folder \in Live, PutFile(x, folder)
  PROVE  FolderInv'
<1>0. TypeOK /\ PathsSound /\ HomeStays
  BY DEF FolderInv, Structure
<1>1. /\ files' = [files EXCEPT ![x] = folder]
      /\ overlap' = (overlap \/ \E c \in Cmd : cmd[c] # Idle)
      /\ UNCHANGED <<folders, paths, relations, cmd, moves>>
  BY DEF PutFile
<1>2. Live' = Live
  BY <1>1 DEF Live
<1>3. TypeOK'
  BY <1>0, <1>1, <1>2 DEF TypeOK
<1>4. Structure'
  BY <1>0, <1>1, <1>2, <1>3 DEF Structure, PathsSound, HomeStays, Apart, FindAncestorPaths
<1>5. moves' = 0 => Tree'
  BY <1>1, <1>2 DEF FolderInv, Tree, InPlace, Placed, Depth, PathsOfNew, FindAncestorPaths
<1>6. ~overlap' => Serial'
  <2> SUFFICES ASSUME ~overlap' PROVE Serial'
    OBVIOUS
  <2>1. NamesDiffer /\ \A c \in Cmd : cmd[c] = Idle
    BY <1>0, <1>1 DEF FolderInv, Serial, TypeOK
  <2>2. \A c \in Cmd : cmd'[c].at = "idle"
    BY <1>1, <2>1 DEF Idle
  <2>3. \A c \in Cmd : Current(cmd[c])'
    BY <2>2 DEF Current
  <2> QED
    BY <1>1, <1>2, <2>1, <2>3 DEF Serial, NamesDiffer
<1>7. moves' = 0 /\ ~overlap' => \A y \in File : files'[y] # Lost
  <2>1. folder # Lost /\ (~overlap' => ~overlap)
    BY <1>0, <1>1, FolderAssumption DEF Live, TypeOK
  <2> QED
    BY <1>0, <1>1, <2>1 DEF FolderInv, TypeOK
<1> QED
  BY <1>4, <1>5, <1>6, <1>7 DEF FolderInv

\* The paths of a folder that is created.
LEMMA NewPaths ==
  ASSUME TypeOK, PathsSound, NEW f \in FolderId, folders[f] = Unborn, NEW parent \in Live \cup {Root}
  PROVE  /\ PathsOfNew(f, parent) \subseteq FolderPath
         /\ \A p \in PathsOfNew(f, parent) :
              p.desc = f /\ p.anc \in Live \cup {f} /\ (p.len = 0 <=> p.anc = f)
         /\ \A p, q \in PathsOfNew(f, parent) : p.anc = q.anc => p = q
<1>1. f \notin Live /\ Live \subseteq FolderId /\ Root \notin FolderId
  BY FolderAssumption DEF Live
<1>2. CASE parent = Root
  BY <1>1, <1>2 DEF PathsOfNew, Self, FolderPath
<1>3. CASE parent # Root
  <2>1. PICK up : up = FindAncestorPaths(parent)
    OBVIOUS
  <2>2. \A p \in up : /\ p \in FolderPath /\ p.anc \in Live /\ p.len \in Nat
                      /\ p.anc # parent /\ p.len > 0 /\ p.desc = parent
    BY <2>1 DEF FindAncestorPaths, TypeOK, PathsSound, FolderPath
  <2>3. \A p, q \in up : p.anc = q.anc => p = q
    BY <2>1 DEF FindAncestorPaths, TypeOK
  <2>4. parent \in Live /\ parent \in FolderId /\ parent # f
    BY <1>1, <1>3
  <2>5. PathsOfNew(f, parent) = {[anc |-> f, desc |-> f, len |-> 0], [anc |-> parent, desc |-> f, len |-> 1]}
                                  \cup {[anc |-> p.anc, desc |-> f, len |-> p.len + 1] : p \in up}
    BY <1>3, <2>1 DEF PathsOfNew, Self
  <2>6. PathsOfNew(f, parent) \subseteq FolderPath
    BY <1>1, <2>2, <2>4, <2>5 DEF FolderPath
  <2>7. \A p \in PathsOfNew(f, parent) :
          p.desc = f /\ p.anc \in Live \cup {f} /\ (p.len = 0 <=> p.anc = f)
    BY <1>1, <2>2, <2>4, <2>5
  <2>8. \A p, q \in PathsOfNew(f, parent) : p.anc = q.anc => p = q
    <3>1. \A p \in PathsOfNew(f, parent) :
            \/ p = [anc |-> f, desc |-> f, len |-> 0]
            \/ p = [anc |-> parent, desc |-> f, len |-> 1]
            \/ \E r \in up : p = [anc |-> r.anc, desc |-> f, len |-> r.len + 1]
      BY <2>5
    <3>2. \A r \in up : r.anc \notin {f, parent}
      BY <1>1, <2>2
    <3> SUFFICES ASSUME NEW p \in PathsOfNew(f, parent), NEW q \in PathsOfNew(f, parent), p.anc = q.anc
                 PROVE  p = q
      OBVIOUS
    <3>3. CASE p.anc \in {f, parent}
      BY <2>4, <3>1, <3>2, <3>3
    <3>4. CASE p.anc \notin {f, parent}
      <4>1. PICK r \in up : p = [anc |-> r.anc, desc |-> f, len |-> r.len + 1]
        BY <3>1, <3>4
      <4>2. PICK s \in up : q = [anc |-> s.anc, desc |-> f, len |-> s.len + 1]
        BY <3>1, <3>4
      <4>3. r = s
        BY <2>3, <4>1, <4>2
      <4> QED
        BY <4>1, <4>2, <4>3
    <3> QED
      BY <3>3, <3>4
  <2> QED
    BY <2>6, <2>7, <2>8
<1> QED
  BY <1>2, <1>3

LEMMA CreateStep ==
  ASSUME FolderInv, NEW c \in Cmd, Create(c)
  PROVE  FolderInv'
<1>0. TypeOK /\ PathsSound /\ HomeStays
  BY DEF FolderInv, Structure
<1>1. cmd[c].at = "create" /\ cmd[c] # Idle
  BY DEF Create, Idle
<1>2. CASE cmd[c].parent \notin Live \cup {Root}
  BY <1>1, <1>2, ReturnStep DEF Create
<1>3. CASE cmd[c].parent \in Live \cup {Root}
  <2>1. PICK parent, name, depth : parent = cmd[c].parent /\ name = cmd[c].name /\ depth = cmd[c].depth
    OBVIOUS
  <2>2. PICK row : row = [parent |-> parent, name |-> name, depth |-> depth]
    OBVIOUS
  <2>3. row \in Folder /\ parent \in Live \cup {Root}
    BY <1>0, <1>1, <1>3, <2>1, <2>2, PendingShape DEF Folder
  <2>4. PICK f \in FolderId :
          /\ folders[f] = Unborn
          /\ folders' = Inserted(f, row)
          /\ paths' = InsertAncestorPaths(PathsOfNew(f, parent))
          /\ relations' = relations \cup ({<<parent, f>>} \ {<<Root, f>>})
          /\ Become(c, Idle)
          /\ UNCHANGED <<files, moves, overlap>>
    BY <1>1, <1>3, <2>1, <2>2 DEF Create, history
  <2>5. PICK new : new = PathsOfNew(f, parent)
    OBVIOUS
  <2>6. /\ new \subseteq FolderPath
        /\ \A p \in new : p.desc = f /\ p.anc \in Live \cup {f} /\ (p.len = 0 <=> p.anc = f)
        /\ \A p, q \in new : p.anc = q.anc => p = q
    BY <1>0, <2>3, <2>4, <2>5, NewPaths
  <2>7. /\ folders' = [folders EXCEPT ![f] = row] /\ paths' = paths \cup new
        /\ folders' \in [FolderId -> Folder \cup {Unborn, Gone}]
        /\ folders'[f] = row /\ \A g \in FolderId : g # f => folders'[g] = folders[g]
    BY <1>0, <2>3, <2>4, <2>5 DEF Inserted, InsertAncestorPaths, TypeOK
  <2>8. /\ Live' = Live \cup {f} /\ f \notin Live /\ parent # f /\ Home # f
        /\ Live \subseteq FolderId /\ Root \notin FolderId
    BY <1>0, <2>3, <2>4, <2>7, FolderAssumption DEF Live, HomeStays
  <2>9. \A p \in paths : p \in FolderPath /\ p.anc \in Live /\ p.desc \in Live
    BY <1>0 DEF TypeOK
  <2>10. /\ paths' \subseteq FolderPath
         /\ \A p \in paths' : {p.anc, p.desc} \subseteq Live'
         /\ PathsSound'
    BY <1>0, <2>6, <2>7, <2>8, <2>9 DEF PathsSound
  <2>11. \A p, q \in paths' : p.anc = q.anc /\ p.desc = q.desc => p = q
    <3>1. \A p, q \in paths : p.anc = q.anc /\ p.desc = q.desc => p = q
      BY <1>0 DEF TypeOK
    <3>2. \A p \in new, q \in paths : p.desc # q.desc
      BY <2>6, <2>8, <2>9
    <3> QED
      BY <2>6, <2>7, <3>1, <3>2
  <2>12. relations' \subseteq FolderId \X FolderId /\ files' \in [File -> Live' \cup {Unborn, Trash, Lost}]
    BY <1>0, <2>3, <2>4, <2>8 DEF TypeOK
  <2>13. \A g \in Live : {p \in paths' : p.desc = g} = {p \in paths : p.desc = g}
    BY <2>6, <2>7, <2>8
  <2>14. \A g \in Live \cup {Root} : FindAncestorPaths(g)' = FindAncestorPaths(g)
    <3>1. \A g \in Live \cup {Root} : \A p \in new : p.desc # g
      BY <2>6, <2>8
    <3> QED
      BY <2>7, <3>1 DEF FindAncestorPaths
  <2>15. /\ Home \in Live' /\ folders'[Home].parent = Root /\ folders'[Home].depth = 0
         /\ FindAncestorPaths(Home)' = {}
    BY <1>0, <2>7, <2>8, <2>14 DEF HomeStays
  <2>16. \A g \in FolderId : /\ folders[g] # Unborn => folders'[g] # Unborn
                             /\ g \in Live' => \/ folders[g] = Unborn
                                               \/ /\ g \in Live /\ folders'[g].parent = folders[g].parent
                                                  /\ folders'[g].depth = folders[g].depth
    BY <2>4, <2>7, <2>8
  <2>17. ASSUME moves = 0 PROVE InPlace'
    <3>1. InPlace /\ Placed(cmd[c])
      BY <2>17 DEF FolderInv, Tree
    <3>2. depth = IF parent = Root THEN 0 ELSE folders[parent].depth + 1
      BY <1>1, <2>1, <2>3, <3>1 DEF Placed, Depth
    <3>3. row.parent = parent /\ row.depth = depth
      BY <2>2
    <3>4. \A g \in Live \cup {Root} : PathsOfNew(f, g)' = PathsOfNew(f, g)
      BY <2>14 DEF PathsOfNew
    <3>5. \A h \in Live, g \in Live \cup {Root} : PathsOfNew(h, g)' = PathsOfNew(h, g)
      BY <2>14 DEF PathsOfNew
    <3>6. \A a, g \in FolderId : <<a, g>> \in relations' => folders'[g] # Unborn
      <4>1. \A a, g \in FolderId : <<a, g>> \in relations => folders[g] # Unborn
        BY <3>1 DEF InPlace
      <4>2. folders'[f] # Unborn
        BY <2>3, <2>7, FolderAssumption
      <4> QED
        BY <2>4, <2>7, <4>1, <4>2
    <3>7. ASSUME NEW g \in Live'
          PROVE  /\ folders'[g].parent \in Live' \cup {Root}
                 /\ folders'[g].depth = Depth(folders[g].parent)'
                 /\ {p \in paths' : p.desc = g} = PathsOfNew(g, folders[g].parent)'
                 /\ {a \in FolderId : <<a, g>> \in relations'} = {folders'[g].parent} \ {Root}
      <4>1. CASE g = f
        <5>1. folders'[g].parent = parent /\ folders'[g].depth = depth
          BY <2>7, <3>3, <4>1
        <5>2. depth = Depth(folders[g].parent)'
          BY <2>3, <2>7, <2>8, <3>2, <5>1 DEF Depth
        <5>3. {p \in paths' : p.desc = g} = new
          BY <2>6, <2>7, <2>8, <2>9, <4>1
        <5>4. new = PathsOfNew(g, folders[g].parent)'
          BY <2>3, <2>5, <3>4, <4>1, <5>1
        <5>5. {a \in FolderId : <<a, g>> \in relations'} = {parent} \ {Root}
          <6>1. \A a \in FolderId : <<a, f>> \notin relations
            BY <2>4, <3>1 DEF InPlace
          <6> QED
            BY <2>3, <2>4, <2>8, <4>1, <6>1
        <5> QED
          BY <2>3, <2>8, <5>1, <5>2, <5>3, <5>4, <5>5
      <4>2. CASE g # f
        <5>1. g \in Live /\ folders'[g] = folders[g]
          BY <2>7, <2>8, <4>2
        <5>2. /\ folders[g].parent \in Live \cup {Root}
              /\ folders[g].depth = Depth(folders[g].parent)
              /\ {p \in paths : p.desc = g} = PathsOfNew(g, folders[g].parent)
              /\ {a \in FolderId : <<a, g>> \in relations} = {folders[g].parent} \ {Root}
          BY <3>1, <5>1 DEF InPlace
        <5>3. folders'[g].depth = Depth(folders[g].parent)'
          BY <2>7, <2>8, <5>1, <5>2 DEF Depth
        <5>4. {p \in paths' : p.desc = g} = PathsOfNew(g, folders[g].parent)'
          BY <2>13, <3>5, <5>1, <5>2
        <5>5. {a \in FolderId : <<a, g>> \in relations'} = {folders'[g].parent} \ {Root}
          BY <2>4, <4>2, <5>1, <5>2
        <5> QED
          BY <2>8, <5>1, <5>2, <5>3, <5>4, <5>5
      <4> QED
        BY <4>1, <4>2
    <3> QED
      BY <3>6, <3>7 DEF InPlace
  <2>18. ASSUME ~overlap PROVE NamesDiffer'
    <3>1. NamesDiffer /\ ~NameTaken(parent, name)
      BY <1>1, <2>1, <2>18 DEF FolderInv, Serial, Current
    <3>2. row.parent = parent /\ row.name = name
      BY <2>2
    <3> QED
      BY <2>7, <2>8, <3>1, <3>2 DEF NamesDiffer, NameTaken
  <2>19. moves = 0 /\ ~overlap => \A x \in File : files[x] # Lost
    BY DEF FolderInv
  <2>20. moves' \in Nat
    BY <1>0, <2>4 DEF TypeOK
  <2> QED
    BY <1>1, <2>4, <2>7, <2>10, <2>11, <2>12, <2>15, <2>16, <2>17, <2>18, <2>19, <2>20, WriteStep
<1> QED
  BY <1>2, <1>3

\* Update keeps the parent of a folder that is sent to the root.
LEMMA SavedRow ==
  ASSUME TypeOK, NEW f \in Live, NEW e \in Folder
  PROVE  /\ Saved(f, e)[f].parent = IF e.parent = Root THEN folders[f].parent ELSE e.parent
         /\ Saved(f, e)[f].name = e.name /\ Saved(f, e)[f].depth = e.depth
         /\ Saved(f, e)[f] \in Folder
         /\ \A g \in FolderId : g # f => Saved(f, e)[g] = folders[g]
         /\ Saved(f, e) \in [FolderId -> Folder \cup {Unborn, Gone}]
<1>1. PICK parent : parent = IF e.parent = Root THEN folders[f].parent ELSE e.parent
  OBVIOUS
<1>2. PICK row : row = [e EXCEPT !.parent = parent]
  OBVIOUS
<1>3. f \in FolderId /\ folders[f] \in Folder
  BY LiveRows DEF Live
<1>4. parent \in Parent
  BY <1>1, <1>3 DEF Folder
<1>5. row \in Folder /\ row.parent = parent /\ row.name = e.name /\ row.depth = e.depth
  BY <1>2, <1>4 DEF Folder
<1>6. Saved(f, e) = [folders EXCEPT ![f] = row]
  BY <1>1, <1>2 DEF Saved
<1> QED
  BY <1>1, <1>3, <1>5, <1>6 DEF TypeOK

LEMMA RenameStep ==
  ASSUME FolderInv, NEW c \in Cmd, Rename(c)
  PROVE  FolderInv'
<1>0. TypeOK /\ PathsSound /\ HomeStays
  BY DEF FolderInv, Structure
<1>1. cmd[c].at = "rename" /\ cmd[c] # Idle
  BY DEF Rename, Idle
<1>2. PICK f, was, name : f = cmd[c].id /\ was = cmd[c].was /\ name = cmd[c].name
  OBVIOUS
<1>3. CASE ~MaySave(f, was)
  BY <1>1, <1>2, <1>3, ReturnStep DEF Rename
<1>4. CASE MaySave(f, was)
  <2>1. PICK e : e = [was EXCEPT !.name = name]
    OBVIOUS
  <2>2. /\ folders' = Saved(f, e)
        /\ Become(c, Idle)
        /\ UNCHANGED <<paths, relations, files, moves, overlap>>
    BY <1>1, <1>2, <1>4, <2>1 DEF Rename, history
  <2>3. was \in Folder /\ name \in Name /\ f \in Live /\ was.parent \in Live \cup {Root} /\ f \in FolderId
    BY <1>0, <1>1, <1>2, <1>4, PendingShape DEF MaySave
  <2>4. e \in Folder /\ e.parent = was.parent /\ e.depth = was.depth /\ e.name = name
    BY <2>1, <2>3 DEF Folder
  <2>5. /\ folders'[f].parent = IF was.parent = Root THEN folders[f].parent ELSE was.parent
        /\ folders'[f].name = name /\ folders'[f].depth = was.depth /\ folders'[f] \in Folder
        /\ \A g \in FolderId : g # f => folders'[g] = folders[g]
        /\ folders' \in [FolderId -> Folder \cup {Unborn, Gone}]
    BY <1>0, <2>2, <2>3, <2>4, SavedRow
  <2>6. Live' = Live
    BY <2>3, <2>5, FolderAssumption DEF Live
  <2>7. f # Home
    BY <1>0, <1>1, <1>2 DEF HomeStays, Apart
  <2>8. /\ paths' \subseteq FolderPath
        /\ \A p \in paths' : {p.anc, p.desc} \subseteq Live'
        /\ \A p, q \in paths' : p.anc = q.anc /\ p.desc = q.desc => p = q
        /\ relations' \subseteq FolderId \X FolderId
        /\ files' \in [File -> Live' \cup {Unborn, Trash, Lost}]
        /\ moves' \in Nat
    BY <1>0, <2>2, <2>6 DEF TypeOK
  <2>9. PathsSound'
    BY <1>0, <2>2 DEF PathsSound
  <2>10. /\ Home \in Live' /\ folders'[Home].parent = Root /\ folders'[Home].depth = 0
         /\ FindAncestorPaths(Home)' = {}
    BY <1>0, <2>2, <2>5, <2>6, <2>7, FolderAssumption DEF HomeStays, FindAncestorPaths
  <2>11. ASSUME moves = 0
         PROVE  /\ InPlace'
                /\ \A g \in Live : folders'[g].parent = folders[g].parent /\ folders'[g].depth = folders[g].depth
    <3>1. InPlace /\ Placed(cmd[c])
      BY <2>11 DEF FolderInv, Tree
    <3>2. was.parent = folders[f].parent /\ was.depth = folders[f].depth
      BY <1>1, <1>2, <2>3, <3>1 DEF Placed
    <3>3. \A g \in Live : g \in FolderId
      BY DEF Live
    <3>4. \A g \in Live : folders'[g].parent = folders[g].parent /\ folders'[g].depth = folders[g].depth
      BY <2>5, <3>2, <3>3
    <3>5. \A a, g \in FolderId : <<a, g>> \in relations' => folders'[g] # Unborn
      BY <2>2, <2>3, <2>5, <3>1, FolderAssumption DEF InPlace
    <3>6. ASSUME NEW g \in Live
          PROVE  /\ folders'[g].parent \in Live' \cup {Root}
                 /\ folders'[g].depth = Depth(folders[g].parent)'
                 /\ {p \in paths' : p.desc = g} = PathsOfNew(g, folders[g].parent)'
                 /\ {a \in FolderId : <<a, g>> \in relations'} = {folders'[g].parent} \ {Root}
      <4>1. /\ folders[g].parent \in Live \cup {Root}
            /\ folders[g].depth = Depth(folders[g].parent)
            /\ {p \in paths : p.desc = g} = PathsOfNew(g, folders[g].parent)
            /\ {a \in FolderId : <<a, g>> \in relations} = {folders[g].parent} \ {Root}
        BY <3>1 DEF InPlace
      <4>2. folders'[g].depth = Depth(folders[g].parent)'
        BY <3>4, <4>1 DEF Depth
      <4>3. {p \in paths' : p.desc = g} = PathsOfNew(g, folders[g].parent)'
        BY <2>2, <3>4, <4>1 DEF PathsOfNew, FindAncestorPaths
      <4> QED
        BY <2>2, <2>6, <3>4, <4>1, <4>2, <4>3
    <3> QED
      BY <2>6, <3>4, <3>5, <3>6 DEF InPlace
  <2>12. ASSUME moves = 0
         PROVE  \A g \in FolderId : /\ folders[g] # Unborn => folders'[g] # Unborn
                                    /\ g \in Live' => \/ folders[g] = Unborn
                                                      \/ /\ g \in Live /\ folders'[g].parent = folders[g].parent
                                                         /\ folders'[g].depth = folders[g].depth
    BY <2>5, <2>6, <2>11, <2>12, FolderAssumption
  <2>13. ASSUME ~overlap PROVE NamesDiffer'
    <3>1. NamesDiffer /\ was = folders[f] /\ (name = was.name \/ ~NameTaken(was.parent, name))
      BY <1>1, <1>2, <2>13 DEF FolderInv, Serial, Current
    <3>2. folders'[f].parent = folders[f].parent
      BY <2>5, <3>1
    <3> QED
      BY <2>5, <2>6, <3>1, <3>2 DEF NamesDiffer, NameTaken, Live
  <2>14. moves = 0 /\ ~overlap => \A x \in File : files[x] # Lost
    BY DEF FolderInv
  <2> QED
    BY <1>1, <2>2, <2>5, <2>8, <2>9, <2>10, <2>11, <2>12, <2>13, <2>14, WriteStep
<1> QED
  BY <1>3, <1>4

\* A set that takes the children of its folders takes all below them in the closure table.
LEMMA ClosedAlongPaths ==
  ASSUME TypeOK, PathsSound, InPlace, NEW S,
         \A x \in Live : folders[x].parent \in S \ {Root} => x \in S
  PROVE  \A p \in paths : p.anc \in S => p.desc \in S
<1> DEFINE All == {n \in Nat : \A p \in paths : p.len = n /\ p.anc \in S => p.desc \in S}
<1>1. 0 \in All
  BY DEF PathsSound
<1>2. ASSUME NEW n \in All, n \in Nat PROVE n + 1 \in All
  <2> SUFFICES ASSUME NEW p \in paths, p.len = n + 1, p.anc \in S PROVE p.desc \in S
    BY <1>2
  <2>1. PICK g, parent : g = p.desc /\ parent = folders[g].parent
    OBVIOUS
  <2>2. g \in Live /\ p.anc \in Live
    BY <2>1 DEF TypeOK
  <2>3. parent \in Live \cup {Root} /\ p \in PathsOfNew(g, parent)
    BY <2>1, <2>2 DEF InPlace
  <2>4. p # Self(g)
    BY <1>2 DEF Self
  <2>5. parent # Root /\ (\/ p = [anc |-> parent, desc |-> g, len |-> 1]
                          \/ \E r \in FindAncestorPaths(parent) :
                               p = [anc |-> r.anc, desc |-> g, len |-> r.len + 1])
    BY <2>3, <2>4 DEF PathsOfNew
  <2>6. parent \in S
    <3>1. CASE p = [anc |-> parent, desc |-> g, len |-> 1]
      BY <3>1
    <3>2. CASE \E r \in FindAncestorPaths(parent) : p = [anc |-> r.anc, desc |-> g, len |-> r.len + 1]
      <4>1. PICK r \in FindAncestorPaths(parent) : p = [anc |-> r.anc, desc |-> g, len |-> r.len + 1]
        BY <3>2
      <4>2. r \in paths /\ r.desc = parent /\ r.len \in Nat
        BY DEF FindAncestorPaths, TypeOK, FolderPath
      <4>3. r.len + 1 = n + 1 /\ r.anc \in S
        BY <4>1
      <4>4. r.len = n
        BY <1>2, <4>2, <4>3
      <4> QED
        BY <4>2, <4>3, <4>4
    <3> QED
      BY <2>5, <3>1, <3>2
  <2> QED
    BY <2>1, <2>2, <2>5, <2>6
<1>3. Nat \subseteq All
  <2> HIDE DEF All
  <2> QED
    BY <1>1, <1>2, Induction
<1> QED
  BY <1>3 DEF TypeOK, FolderPath

\* What ON DELETE CASCADE reaches.
LEMMA CascadeIs ==
  ASSUME TypeOK, HomeStays, NEW set, set \subseteq FolderId, Home \notin set
  PROVE  /\ Cascade(set) \subseteq Live \ {Home}
         /\ set \cap Live \subseteq Cascade(set)
         /\ \A x \in Live : folders[x].parent \in Cascade(set) => x \in Cascade(set)
<1>0. /\ DOMAIN Parents = Live /\ Live \subseteq FolderId
      /\ \A x \in Live : Parents[x] = folders[x].parent
  BY DEF Parents, Live
<1>1. PICK parentOf : parentOf = Parents
  OBVIOUS
<1>2. ASSUME NEW g \in set \cap Live PROVE Below(parentOf, g) \subseteq Live \ {Home}
  <2>1. g \in Live \ {Home}
    OBVIOUS
  <2>2. \A x \in DOMAIN parentOf : parentOf[x] \in Live \ {Home} => x \in Live \ {Home}
    BY <1>0, <1>1, FolderAssumption DEF HomeStays
  <2> QED
    BY <2>1, <2>2, BelowLeast
<1>3. ASSUME NEW g \in set \cap Live
      PROVE  /\ g \in Below(parentOf, g)
             /\ \A x \in Live : folders[x].parent \in Below(parentOf, g) => x \in Below(parentOf, g)
  <2>1. /\ g \in Below(parentOf, g)
        /\ \A x \in DOMAIN parentOf : parentOf[x] \in Below(parentOf, g) => x \in Below(parentOf, g)
    BY <1>0, <1>1, BelowClosed
  <2> QED
    BY <1>0, <1>1, <2>1
<1>4. Cascade(set) = UNION {Below(parentOf, g) : g \in set \cap Live}
  BY <1>1 DEF Cascade
<1>5. ASSUME NEW x \in Live, folders[x].parent \in Cascade(set) PROVE x \in Cascade(set)
  <2>1. PICK g \in set \cap Live : folders[x].parent \in Below(parentOf, g)
    BY <1>4, <1>5
  <2>2. x \in Below(parentOf, g)
    BY <1>3, <2>1
  <2> QED
    BY <1>4, <2>2
<1>6. Cascade(set) \subseteq Live \ {Home}
  BY <1>2, <1>4
<1>7. set \cap Live \subseteq Cascade(set)
  BY <1>3, <1>4
<1> QED
  BY <1>5, <1>6, <1>7

\* What the closure table gives below a folder takes in what parent_id leads to.
LEMMA SetTakesCascade ==
  ASSUME TypeOK, InPlace, NEW f \in Live
  PROVE  /\ \A x \in Live : folders[x].parent \in FoldersToDelete(f) => x \in FoldersToDelete(f)
         /\ Cascade(FoldersToDelete(f)) \subseteq FoldersToDelete(f)
<1> DEFINE set == FoldersToDelete(f)
<1>1. set = {f} \cup {p.desc : p \in {q \in paths : q.anc = f /\ q.len > 0}}
  BY DEF FoldersToDelete, FindDescendantIDs, FindDescendantsWithDepth
<1>2. ASSUME NEW x \in Live, folders[x].parent \in set PROVE x \in set
  <2>1. PICK y : y = folders[x].parent
    OBVIOUS
  <2>2. y \in FolderId /\ y # Root /\ y \in set
    BY <1>1, <1>2, <2>1, FolderAssumption DEF TypeOK, Live, FolderPath
  <2>3. PathsOfNew(x, y) \subseteq paths
    BY <2>1 DEF InPlace
  <2>4. CASE y = f
    <3>1. [anc |-> f, desc |-> x, len |-> 1] \in paths
      BY <2>2, <2>3, <2>4 DEF PathsOfNew
    <3> QED
      BY <1>1, <3>1
  <2>5. CASE y # f
    <3>1. PICK p \in paths : p.anc = f /\ p.len > 0 /\ p.desc = y
      BY <1>1, <2>2, <2>5
    <3>2. p \in FindAncestorPaths(y) /\ p.len \in Nat
      BY <3>1 DEF FindAncestorPaths, TypeOK, FolderPath
    <3>3. [anc |-> f, desc |-> x, len |-> p.len + 1] \in paths
      BY <2>2, <2>3, <3>1, <3>2 DEF PathsOfNew
    <3>4. p.len + 1 > 0
      BY <3>2
    <3> QED
      BY <1>1, <3>3, <3>4
  <2> QED
    BY <2>4, <2>5
<1> HIDE DEF set
<1>3. PICK parentOf : parentOf = Parents
  OBVIOUS
<1>4. \A x \in DOMAIN parentOf : parentOf[x] \in set => x \in set
  BY <1>2, <1>3 DEF Parents
<1>5. \A g \in set \cap Live : Below(parentOf, g) \subseteq set
  BY <1>4, BelowLeast
<1>6. Cascade(set) \subseteq set
  BY <1>3, <1>5 DEF Cascade
<1> QED
  BY <1>2, <1>6 DEF set

LEMMA DeleteStep ==
  ASSUME FolderInv, NEW c \in Cmd, Delete(c)
  PROVE  FolderInv'
<1>0. TypeOK /\ PathsSound /\ HomeStays
  BY DEF FolderInv, Structure
<1>1. cmd[c].at = "delete" /\ cmd[c] # Idle
  BY DEF Delete, Idle
<1>2. PICK id, set, found, gone :
        id = cmd[c].id /\ set = cmd[c].set /\ found = cmd[c].files /\ gone = Cascade(cmd[c].set)
  OBVIOUS
<1>3. CASE ~MayArchive(found)
  BY <1>1, <1>2, <1>3, ReturnStep DEF Delete
<1>4. CASE MayArchive(found)
  <2>1. /\ folders' = [f \in FolderId |-> IF f \in gone THEN Gone ELSE folders[f]]
        /\ paths' = {p \in DeleteSubtreePaths(id) : {p.anc, p.desc} \cap gone = {}}
        /\ files' = [f \in File |->
                       CASE f \in DOMAIN found -> Trash
                         [] f \notin DOMAIN found /\ files[f] \in gone -> Lost
                         [] OTHER -> files[f]]
        /\ Become(c, Idle)
        /\ UNCHANGED <<relations, moves, overlap>>
    BY <1>2, <1>4 DEF Delete, history
  <2>2. set \subseteq FolderId /\ id \in set /\ Home \notin set
    BY <1>0, <1>1, <1>2, PendingShape DEF HomeStays, Apart
  <2>3. /\ gone \subseteq Live \ {Home} /\ set \cap Live \subseteq gone
        /\ \A x \in Live : folders[x].parent \in gone => x \in gone
    BY <1>0, <1>2, <2>2, CascadeIs
  <2>4. /\ Live' = Live \ gone /\ Live \subseteq FolderId
        /\ \A f \in Live' : folders'[f] = folders[f]
    BY <1>0, <2>1, <2>3 DEF Live
  <2>5. folders' \in [FolderId -> Folder \cup {Unborn, Gone}]
    BY <1>0, <2>1 DEF TypeOK
  <2>6. \A p \in paths' : p \in paths /\ p.anc \notin gone /\ p.desc \notin gone
    BY <2>1 DEF DeleteSubtreePaths
  <2>7. /\ paths' \subseteq FolderPath
        /\ \A p \in paths' : {p.anc, p.desc} \subseteq Live'
        /\ \A p, q \in paths' : p.anc = q.anc /\ p.desc = q.desc => p = q
        /\ PathsSound'
    BY <1>0, <2>4, <2>6 DEF TypeOK, PathsSound
  <2>8. /\ relations' \subseteq FolderId \X FolderId
        /\ moves' \in Nat
        /\ files' \in [File -> Live' \cup {Unborn, Trash, Lost}]
    BY <1>0, <2>1, <2>4 DEF TypeOK
  <2>9. /\ Home \in Live' /\ folders'[Home].parent = Root /\ folders'[Home].depth = 0
        /\ FindAncestorPaths(Home)' = {}
    BY <1>0, <2>3, <2>4, <2>6 DEF HomeStays, FindAncestorPaths
  <2>10. \A f \in FolderId :
           /\ folders[f] # Unborn => folders'[f] # Unborn
           /\ f \in Live' => f \in Live /\ folders'[f].parent = folders[f].parent
                             /\ folders'[f].depth = folders[f].depth
    BY <2>1, <2>4, FolderAssumption
  <2>11. ASSUME moves = 0 PROVE InPlace'
    <3>1. InPlace
      BY <2>11 DEF FolderInv, Tree
    <3>2. \A p \in paths : p.anc \in gone => p.desc \in gone
      BY <1>0, <2>3, <3>1, ClosedAlongPaths
    <3>3. \A f \in Live' : {p \in paths' : p.desc = f} = {p \in paths : p.desc = f}
      <4> SUFFICES ASSUME NEW f \in Live', NEW p \in paths, p.desc = f PROVE p \in paths'
        BY <2>6
      <4>1. f \notin gone /\ p.anc \notin gone
        BY <2>4, <3>2
      <4>2. \A q \in paths : ~(q.anc = id /\ q.desc = f)
        <5> SUFFICES ASSUME NEW q \in paths, q.anc = id, q.desc = f PROVE FALSE
          OBVIOUS
        <5>1. id \in Live
          BY <1>0 DEF TypeOK
        <5> QED
          BY <2>2, <2>3, <3>2, <4>1, <5>1
      <4>3. p \in DeleteSubtreePaths(id)
        BY <4>2 DEF DeleteSubtreePaths
      <4> QED
        BY <2>1, <4>1, <4>3
    <3>4. \A a, f \in FolderId : <<a, f>> \in relations' => folders'[f] # Unborn
      BY <2>1, <2>10, <3>1 DEF InPlace
    <3>5. ASSUME NEW f \in Live'
          PROVE  /\ folders'[f].parent \in Live' \cup {Root}
                 /\ folders'[f].depth = Depth(folders[f].parent)'
                 /\ {p \in paths' : p.desc = f} = PathsOfNew(f, folders[f].parent)'
                 /\ {a \in FolderId : <<a, f>> \in relations'} = {folders'[f].parent} \ {Root}
      <4>1. /\ folders[f].parent \in Live \cup {Root}
            /\ folders[f].depth = Depth(folders[f].parent)
            /\ {p \in paths : p.desc = f} = PathsOfNew(f, folders[f].parent)
            /\ {a \in FolderId : <<a, f>> \in relations} = {folders[f].parent} \ {Root}
        BY <2>4, <3>1 DEF InPlace
      <4>2. folders'[f] = folders[f] /\ folders[f].parent \in Live' \cup {Root}
        BY <2>3, <2>4, <4>1
      <4>3. PICK parent : parent = folders[f].parent
        OBVIOUS
      <4>4. parent = folders'[f].parent /\ parent \in Live' \cup {Root}
        BY <4>2, <4>3
      <4>5. folders'[f].depth = Depth(folders[f].parent)'
        BY <2>4, <4>1, <4>2, <4>3, <4>4 DEF Depth
      <4>6. parent # Root => FindAncestorPaths(parent)' = FindAncestorPaths(parent)
        BY <3>3, <4>4 DEF FindAncestorPaths
      <4>7. PathsOfNew(f, parent)' = PathsOfNew(f, parent)
        BY <4>6 DEF PathsOfNew
      <4>8. {p \in paths' : p.desc = f} = PathsOfNew(f, folders[f].parent)'
        BY <3>3, <4>1, <4>3, <4>4, <4>7
      <4> QED
        BY <2>1, <4>1, <4>2, <4>5, <4>8
    <3> QED
      BY <3>4, <3>5 DEF InPlace
  <2>12. ASSUME ~overlap PROVE NamesDiffer'
    <3>1. NamesDiffer
      BY <2>12 DEF FolderInv, Serial
    <3> QED
      BY <2>4, <3>1 DEF NamesDiffer
  <2>13. ASSUME moves = 0, ~overlap, NEW x \in File PROVE files'[x] # Lost
    <3>1. InPlace /\ Current(cmd[c]) /\ files[x] # Lost
      BY <2>13 DEF FolderInv, Tree, Serial
    <3>2. id \in Live /\ set = FoldersToDelete(id) /\ DOMAIN found = FindByFolderIDs(set)
      BY <1>1, <1>2, <3>1 DEF Current
    <3>3. gone \subseteq set
      BY <1>0, <1>2, <3>1, <3>2, SetTakesCascade
    <3>4. CASE x \in DOMAIN found
      BY <2>1, <3>4, FolderAssumption
    <3>5. CASE x \notin DOMAIN found
      <4>1. files[x] \notin gone
        BY <3>2, <3>3, <3>5 DEF FindByFolderIDs
      <4>2. files'[x] = files[x]
        BY <2>1, <3>5, <4>1
      <4> QED
        BY <3>1, <4>2
    <3> QED
      BY <3>4, <3>5
  <2> QED
    BY <1>1, <2>1, <2>5, <2>7, <2>8, <2>9, <2>10, <2>11, <2>12, <2>13, WriteStep
<1> QED
  BY <1>3, <1>4

\* The closure table after a move: sound still, with no way out of the folder
\* that moved, and with the folders outside the subtree as they were.
LEMMA MovedPaths ==
  ASSUME TypeOK, PathsSound, NEW f \in Live, NEW to, NEW ancestors, ancestors = FindAncestorPaths(to),
         \A p \in ancestors : p.anc \notin {f} \cup FindDescendantIDs(f),
         NEW rank \in Rankings(f)
  PROVE  /\ Moved(f, ancestors, rank) \subseteq FolderPath
         /\ \A p \in Moved(f, ancestors, rank) : {p.anc, p.desc} \subseteq Live
         /\ \A p \in Moved(f, ancestors, rank) : p.len = 0 <=> p.anc = p.desc
         /\ \A p, q \in Moved(f, ancestors, rank) : p.anc = q.anc /\ p.desc = q.desc => p = q
         /\ \A p \in Moved(f, ancestors, rank) : p.len > 0 => p.anc # f
         /\ \A p \in Moved(f, ancestors, rank) : p.desc \notin {f} \cup FindDescendantIDs(f) => p \in paths
<1>1. PICK desc : desc = FindDescendantIDs(f)
  OBVIOUS
<1>2. PICK subtree : subtree = {f} \cup desc
  OBVIOUS
<1>3. desc = {p.desc : p \in {q \in paths : q.anc = f /\ q.len > 0}}
  BY <1>1 DEF FindDescendantIDs, FindDescendantsWithDepth
<1>4. subtree \subseteq Live /\ Live \subseteq FolderId /\ f \notin desc
  BY <1>2, <1>3 DEF TypeOK, PathsSound, FolderPath, Live
<1>5. \A x \in desc : rank[x] \in Nat /\ rank[x] > 0
  <2>1. Cardinality(desc) \in Nat
    BY <1>2, <1>4, FolderAssumption, FS_Subset, FS_CardinalityType
  <2>2. rank \in [desc -> 1..Cardinality(desc)]
    BY <1>1 DEF Rankings
  <2> QED
    BY <2>1, <2>2
<1>6. \A a \in ancestors : /\ a \in paths /\ a.desc = to /\ a.len \in Nat /\ a.len > 0
                           /\ a.anc \in Live /\ a.anc \notin subtree
  BY <1>1, <1>2 DEF FindAncestorPaths, TypeOK, FolderPath
<1>7. \A a, b \in ancestors : a.anc = b.anc => a = b
  BY <1>6 DEF TypeOK
<1>8. PICK all : all = Moved(f, ancestors, rank)
  OBVIOUS
<1>9. \A p \in all :
        \/ p \in paths /\ p.desc \notin subtree
        \/ \E x \in subtree : p = [anc |-> x, desc |-> x, len |-> 0]
        \/ \E a \in ancestors : p = [anc |-> a.anc, desc |-> f, len |-> a.len + 1]
        \/ \E a \in ancestors, x \in desc : p = [anc |-> a.anc, desc |-> x, len |-> a.len + 1 + rank[x]]
  BY <1>1, <1>2, <1>8 DEF Moved, Self
<1>10. ASSUME NEW p \in all
       PROVE  /\ p \in FolderPath /\ {p.anc, p.desc} \subseteq Live
              /\ p.len = 0 <=> p.anc = p.desc
              /\ p.len > 0 => p.anc # f
              /\ p.desc \notin subtree => p \in paths
  <2>1. CASE p \in paths /\ p.desc \notin subtree
    BY <1>2, <1>3, <2>1 DEF TypeOK, PathsSound
  <2>2. CASE \E x \in subtree : p = [anc |-> x, desc |-> x, len |-> 0]
    BY <1>4, <2>2 DEF FolderPath
  <2>3. CASE \E a \in ancestors : p = [anc |-> a.anc, desc |-> f, len |-> a.len + 1]
    BY <1>2, <1>4, <1>6, <2>3 DEF FolderPath
  <2>4. CASE \E a \in ancestors, x \in desc : p = [anc |-> a.anc, desc |-> x, len |-> a.len + 1 + rank[x]]
    <3>1. PICK a \in ancestors, x \in desc : p = [anc |-> a.anc, desc |-> x, len |-> a.len + 1 + rank[x]]
      BY <2>4
    <3>2. PICK n : n = a.len + 1 + rank[x]
      OBVIOUS
    <3>3. n \in Nat /\ n > 0
      BY <1>5, <1>6, <3>2
    <3>4. a.anc \in FolderId /\ a.anc \in Live /\ x \in Live /\ x \in FolderId /\ a.anc # x /\ a.anc # f
      BY <1>2, <1>4, <1>6
    <3> QED
      BY <1>2, <3>1, <3>2, <3>3, <3>4 DEF FolderPath
  <2> QED
    BY <1>9, <2>1, <2>2, <2>3, <2>4
<1>11. ASSUME NEW p \in all, NEW q \in all, p.anc = q.anc, p.desc = q.desc
       PROVE  p = q
  <2>1. CASE p.desc \notin subtree
    BY <1>10, <1>11, <2>1 DEF TypeOK
  <2>2. CASE p.desc \in subtree /\ p.anc \in subtree
    <3>1. \A r \in all : r.desc \in subtree /\ r.anc \in subtree => r = [anc |-> r.anc, desc |-> r.anc, len |-> 0]
      BY <1>6, <1>9
    <3> QED
      BY <1>11, <2>2, <3>1
  <2>3. CASE p.desc \in subtree /\ p.anc \notin subtree
    <3>1. \A r \in all : r.desc = f /\ r.anc \notin subtree =>
            \E a \in ancestors : r = [anc |-> a.anc, desc |-> f, len |-> a.len + 1]
      BY <1>2, <1>4, <1>9
    <3>2. \A r \in all : r.desc \in desc /\ r.anc \notin subtree =>
            \E a \in ancestors : r = [anc |-> a.anc, desc |-> r.desc, len |-> a.len + 1 + rank[r.desc]]
      <4> SUFFICES ASSUME NEW r \in all, r.desc \in desc, r.anc \notin subtree
                   PROVE  \E a \in ancestors : r = [anc |-> a.anc, desc |-> r.desc, len |-> a.len + 1 + rank[r.desc]]
        OBVIOUS
      <4>1. PICK a \in ancestors, x \in desc : r = [anc |-> a.anc, desc |-> x, len |-> a.len + 1 + rank[x]]
        BY <1>2, <1>4, <1>9
      <4>2. r.desc = x
        BY <4>1
      <4> QED
        BY <4>1, <4>2
    <3>3. CASE p.desc = f
      <4>1. PICK a \in ancestors : p = [anc |-> a.anc, desc |-> f, len |-> a.len + 1]
        BY <2>3, <3>1, <3>3
      <4>2. PICK b \in ancestors : q = [anc |-> b.anc, desc |-> f, len |-> b.len + 1]
        BY <1>11, <2>3, <3>1, <3>3
      <4>3. a = b
        BY <1>7, <1>11, <4>1, <4>2
      <4> QED
        BY <4>1, <4>2, <4>3
    <3>4. CASE p.desc # f
      <4>1. PICK x : x = p.desc /\ x = q.desc /\ x \in desc
        BY <1>2, <1>11, <2>3, <3>4
      <4>2. PICK a \in ancestors : p = [anc |-> a.anc, desc |-> x, len |-> a.len + 1 + rank[x]]
        BY <2>3, <3>2, <4>1
      <4>3. PICK b \in ancestors : q = [anc |-> b.anc, desc |-> x, len |-> b.len + 1 + rank[x]]
        BY <1>11, <2>3, <3>2, <4>1
      <4>4. a = b
        BY <1>7, <1>11, <4>2, <4>3
      <4> QED
        BY <4>2, <4>3, <4>4
    <3> QED
      BY <3>3, <3>4
  <2> QED
    BY <2>1, <2>2, <2>3
<1> QED
  BY <1>1, <1>2, <1>8, <1>10, <1>11

LEMMA MoveStep ==
  ASSUME FolderInv, NEW c \in Cmd, Move(c)
  PROVE  FolderInv'
<1>0. TypeOK /\ PathsSound /\ HomeStays
  BY DEF FolderInv, Structure
<1>1. cmd[c].at = "move" /\ cmd[c] # Idle
  BY DEF Move, Idle
<1>2. PICK f, was, to, depth, ancestors :
        /\ f = cmd[c].id /\ was = cmd[c].was /\ to = cmd[c].to /\ depth = cmd[c].depth
        /\ ancestors = FindAncestorPaths(cmd[c].to)
  OBVIOUS
<1>3. CASE ~MayMove(f, to, ancestors)
  BY <1>1, <1>2, <1>3, ReturnStep DEF Move
<1>4. CASE MayMove(f, to, ancestors)
  <2>1. PICK e : e = [was EXCEPT !.parent = to, !.depth = depth]
    OBVIOUS
  <2>2. PICK rank \in Rankings(f) : paths' = Moved(f, ancestors, rank)
    BY <1>2, <1>4 DEF Move
  <2>3. /\ folders' = Deepened(Saved(f, e), c)
        /\ moves' = moves + 1
        /\ Become(c, Idle)
        /\ UNCHANGED <<relations, files, overlap>>
    BY <1>2, <1>4, <2>1 DEF Move
  <2>4. /\ f \in Live /\ f \in FolderId /\ to \in Live \cup {Root} /\ ancestors = FindAncestorPaths(to)
        /\ \A p \in ancestors : p.anc \notin {f} \cup FindDescendantIDs(f)
    BY <1>2, <1>4 DEF MayMove, MaySave, Live
  <2>5. /\ paths' \subseteq FolderPath
        /\ \A p \in paths' : {p.anc, p.desc} \subseteq Live
        /\ \A p \in paths' : p.len = 0 <=> p.anc = p.desc
        /\ \A p, q \in paths' : p.anc = q.anc /\ p.desc = q.desc => p = q
        /\ \A p \in paths' : p.len > 0 => p.anc # f
        /\ \A p \in paths' : p.desc \notin {f} \cup FindDescendantIDs(f) => p \in paths
    BY <1>0, <2>2, <2>4, MovedPaths
  <2>6. was \in Folder /\ to \in Parent /\ depth \in 0..MaxFolderDepth
    BY <1>0, <1>1, <1>2, PendingShape
  <2>7. e \in Folder /\ e.parent = to /\ e.depth = depth /\ e.name = was.name
    BY <2>1, <2>6 DEF Folder
  <2>8. PICK rows : rows = Saved(f, e)
    OBVIOUS
  <2>9. /\ rows[f].parent = IF to = Root THEN folders[f].parent ELSE to
        /\ rows[f].name = was.name /\ rows[f] \in Folder
        /\ \A g \in FolderId : g # f => rows[g] = folders[g]
        /\ rows \in [FolderId -> Folder \cup {Unborn, Gone}]
    BY <1>0, <2>4, <2>7, <2>8, SavedRow
  <2>10. folders' = rows
    <3>1. \A x \in FolderId : ~\E p \in paths' : p.anc = cmd[c].id /\ p.desc = x /\ p.len > 0
      BY <1>2, <2>5
    <3>2. folders' = [x \in FolderId |-> rows[x]]
      BY <2>3, <2>8, <3>1 DEF Deepened
    <3> QED
      BY <2>9, <3>2
  <2>11. Live' = Live /\ Live \subseteq FolderId
    BY <2>4, <2>9, <2>10, FolderAssumption DEF Live
  <2>12. Home \in Live /\ Home # f /\ Home \notin FindDescendantIDs(f)
    BY <1>0, <1>1, <1>2
       DEF HomeStays, Apart, FindAncestorPaths, FindDescendantIDs, FindDescendantsWithDepth
  <2>13. FindAncestorPaths(Home)' = {}
    BY <1>0, <2>5, <2>12 DEF HomeStays, FindAncestorPaths
  <2>14. Home \in Live' /\ folders'[Home].parent = Root /\ folders'[Home].depth = 0
    BY <1>0, <2>9, <2>10, <2>11, <2>12, FolderAssumption DEF HomeStays
  <2>15. /\ relations' \subseteq FolderId \X FolderId
         /\ files' \in [File -> Live' \cup {Unborn, Trash, Lost}]
         /\ moves' \in Nat /\ moves' # 0
    BY <1>0, <2>3, <2>11 DEF TypeOK
  <2>16. PathsSound'
    BY <2>5 DEF PathsSound
  <2>17. ASSUME ~overlap PROVE NamesDiffer'
    <3>1. NamesDiffer /\ was = folders[f] /\ ~NameTaken(to, was.name)
      BY <1>1, <1>2, <2>17 DEF FolderInv, Serial, Current
    <3>2. CASE to = Root
      BY <2>4, <2>9, <2>10, <2>11, <3>1, <3>2 DEF NamesDiffer
    <3>3. CASE to # Root
      BY <2>4, <2>9, <2>10, <2>11, <3>1, <3>3 DEF NamesDiffer, NameTaken
    <3> QED
      BY <3>2, <3>3
  <2>18. /\ \A p \in paths' : {p.anc, p.desc} \subseteq Live'
         /\ folders' \in [FolderId -> Folder \cup {Unborn, Gone}]
    BY <2>5, <2>9, <2>10, <2>11
  <2> QED
    BY <1>1, <2>3, <2>5, <2>13, <2>14, <2>15, <2>16, <2>17, <2>18, WriteStep
<1> QED
  BY <1>3, <1>4

LEMMA NextStep ==
  ASSUME FolderInv, [Next]_vars
  PROVE  FolderInv'
<1>1. ASSUME NEW c \in Cmd, Command(c) PROVE FolderInv'
  BY <1>1, ReadingSteps, CreateStep, RenameStep, MoveStep, DeleteStep DEF Command
<1>2. ASSUME NEW x \in File, NEW folder \in Live, PutFile(x, folder) PROVE FolderInv'
  BY <1>2, PutFileStep
<1>3. CASE UNCHANGED vars
  <2>1. UNCHANGED <<folders, paths, relations, files, cmd, moves, overlap>>
    BY <1>3 DEF vars, tables, history
  <2>2. Live' = Live
    BY <2>1 DEF Live
  <2>3. Structure'
    BY <2>1, <2>2 DEF FolderInv, Structure, TypeOK, PathsSound, HomeStays, Apart, FindAncestorPaths
  <2>4. moves' = 0 => Tree'
    BY <2>1, <2>2 DEF FolderInv, Tree, InPlace, Placed, Depth, PathsOfNew, FindAncestorPaths
  <2>5. ~overlap' => Serial'
    BY <2>1, <2>2 DEF FolderInv, Serial, NamesDiffer, Current, NameTaken, FoldersToDelete,
                      FindDescendantIDs, FindDescendantsWithDepth, FindByFolderIDs
  <2> QED
    BY <2>1, <2>3, <2>4, <2>5 DEF FolderInv
<1> QED
  BY <1>1, <1>2, <1>3 DEF Next

LEMMA InitHolds ==
  ASSUME Init
  PROVE  FolderInv
<1>1. PICK n \in Name : folders = [f \in FolderId |->
        IF f = Home THEN [parent |-> Root, name |-> n, depth |-> 0] ELSE Unborn]
  BY DEF Init
<1>2. PICK row : row = [parent |-> Root, name |-> n, depth |-> 0]
  OBVIOUS
<1>3. row \in Folder /\ row.parent = Root /\ row.depth = 0
  BY <1>2, FolderAssumption DEF Folder, Parent
<1>4. /\ folders \in [FolderId -> Folder \cup {Unborn, Gone}] /\ folders[Home] = row
      /\ \A f \in FolderId : f # Home => folders[f] = Unborn
  BY <1>1, <1>2, <1>3, FolderAssumption
<1>5. Live = {Home} /\ Root # Home
  BY <1>3, <1>4, FolderAssumption DEF Live
<1>6. /\ paths = {[anc |-> Home, desc |-> Home, len |-> 0]} /\ relations = {}
      /\ files = [f \in File |-> Unborn]
      /\ cmd = [c \in Cmd |-> Idle]
      /\ moves = 0 /\ overlap = FALSE
  BY DEF Init, Self
<1>7. TypeOK
  <2>1. /\ paths \subseteq FolderPath /\ \A p \in paths : {p.anc, p.desc} \subseteq Live
        /\ \A p, q \in paths : p.anc = q.anc /\ p.desc = q.desc => p = q
    BY <1>5, <1>6, FolderAssumption DEF FolderPath
  <2>2. files \in [File -> Live \cup {Unborn, Trash, Lost}] /\ relations \subseteq FolderId \X FolderId
    BY <1>6
  <2>3. cmd \in [Cmd -> Pending \cup {Idle}] /\ moves \in Nat /\ overlap \in BOOLEAN
    BY <1>6
  <2> QED
    BY <1>4, <2>1, <2>2, <2>3 DEF TypeOK
<1>8. \A c \in Cmd : cmd[c].at = "idle" /\ cmd[c] = Idle
  BY <1>6 DEF Idle
<1>9. PathsSound /\ HomeStays
  BY <1>3, <1>4, <1>5, <1>6, <1>8 DEF PathsSound, HomeStays, Apart, FindAncestorPaths
<1>10. Tree
  <2>1. InPlace
    BY <1>3, <1>4, <1>5, <1>6 DEF InPlace, Depth, PathsOfNew, Self
  <2> QED
    BY <1>8, <2>1 DEF Tree, Placed
<1>11. Serial
  BY <1>5, <1>8 DEF Serial, NamesDiffer, Current
<1> QED
  BY <1>6, <1>7, <1>9, <1>10, <1>11, FolderAssumption DEF FolderInv, Structure

-----------------------------------------------------------------------------
(* Theorems *)

\* However commands overlap, the tables and what commands hold fit together.
THEOREM FolderInvariant == Spec => []FolderInv
<1>1. Init => FolderInv
  BY InitHolds
<1>2. FolderInv /\ [Next]_vars => FolderInv'
  BY NextStep
<1> QED
  BY <1>1, <1>2, PTL DEF Spec

\* The type invariant, with the primary key of folder_paths in it: at most one
\* path between two folders, and none from or to a folder that is deleted.
THEOREM FolderTypeCorrect == Spec => []TypeOK
<1>1. FolderInv => TypeOK
  BY DEF FolderInv, Structure
<1> QED
  BY <1>1, FolderInvariant, PTL

\* Commands one after another keep the names within each folder apart
\* (ExistsByNameAndParent and ExistsByNameAndOwnerRoot before each write).
THEOREM NamesStayUnique == Spec => []NamesUnique
<1>1. FolderInv => NamesUnique
  BY DEF FolderInv, Serial, NamesDiffer, NamesUnique
<1> QED
  BY <1>1, FolderInvariant, PTL

\* A folder deleted alone, with no move before it, takes its files to the trash.
THEOREM DeletedFilesAreKept == Spec => []FilesKept
<1>1. FolderInv => FilesKept
  BY DEF FolderInv, FilesKept
<1> QED
  BY <1>1, FolderInvariant, PTL

-----------------------------------------------------------------------------
(* The three records agree *)

\* Numbers from 1 to d put in order without repetition are 1, 2, ..., d.
LEMMA SortedChain ==
  ASSUME NEW d \in Nat, NEW len \in [1..d -> 1..d],
         \A i, j \in 1..d : i # j => len[i] # len[j],
         \A i, j \in 1..d : i < j => len[i] <= len[j]
  PROVE  \A i \in 1..d : len[i] = i
<1>1. \A i, j \in 1..d : i < j => len[i] < len[j]
  <2> SUFFICES ASSUME NEW i \in 1..d, NEW j \in 1..d, i < j PROVE len[i] < len[j]
    OBVIOUS
  <2>1. len[i] <= len[j] /\ len[i] # len[j] /\ len[i] \in Nat /\ len[j] \in Nat
    OBVIOUS
  <2> QED
    BY <2>1
<1> DEFINE Up == {n \in Nat : n \in 1..d => n <= len[n]}
           Down == {k \in Nat : k < d => len[d - k] <= d - k}
<1>2. Nat \subseteq Up
  <2>1. 0 \in Up
    OBVIOUS
  <2>2. ASSUME NEW n \in Up, n \in Nat PROVE n + 1 \in Up
    <3> SUFFICES ASSUME n + 1 \in 1..d PROVE n + 1 <= len[n + 1]
      BY <2>2
    <3>1. CASE n = 0
      BY <3>1
    <3>2. CASE n # 0
      <4>1. n \in 1..d /\ n < n + 1
        BY <2>2, <3>2
      <4>2. n <= len[n] /\ len[n] < len[n + 1] /\ len[n] \in Nat /\ len[n + 1] \in Nat
        BY <1>1, <4>1
      <4> QED
        BY <2>2, <4>2
    <3> QED
      BY <3>1, <3>2
  <2> HIDE DEF Up
  <2> QED
    BY <2>1, <2>2, Induction
<1>3. Nat \subseteq Down
  <2>1. 0 \in Down
    <3> SUFFICES ASSUME 0 < d PROVE len[d - 0] <= d - 0
      OBVIOUS
    <3>1. d \in 1..d /\ d - 0 = d
      OBVIOUS
    <3> QED
      BY <3>1
  <2>2. ASSUME NEW k \in Down, k \in Nat PROVE k + 1 \in Down
    <3> SUFFICES ASSUME k + 1 < d PROVE len[d - (k + 1)] <= d - (k + 1)
      BY <2>2
    <3>1. PICK i : i = d - (k + 1)
      OBVIOUS
    <3>2. i \in 1..d /\ i + 1 \in 1..d /\ d - k = i + 1 /\ k < d /\ i < i + 1
      BY <2>2, <3>1
    <3>3. len[i + 1] <= i + 1 /\ len[i] < len[i + 1] /\ len[i] \in Nat /\ len[i + 1] \in Nat
      BY <1>1, <2>2, <3>2
    <3> QED
      BY <3>1, <3>2, <3>3
  <2> HIDE DEF Down
  <2> QED
    BY <2>1, <2>2, Induction
<1> SUFFICES ASSUME NEW i \in 1..d PROVE len[i] = i
  OBVIOUS
<1>4. i <= len[i]
  BY <1>2
<1>5. PICK k : k = d - i
  OBVIOUS
<1>6. k \in Nat /\ k < d /\ d - k = i
  BY <1>5
<1>7. len[i] <= i
  BY <1>3, <1>6
<1> QED
  BY <1>4, <1>7

\* The way from a folder to the root: one ancestor at each distance, each the
\* parent of the one before it, and as many as the folder is deep.
OneEach(f) ==
  /\ \A l \in 1..folders[f].depth : \E p \in FindAncestorPaths(f) : p.len = l
  /\ \A p \in FindAncestorPaths(f) :
       /\ p.len \in 1..folders[f].depth
       /\ p.len = folders[f].depth - folders[p.anc].depth
       /\ p.len = 1 => p.anc = folders[f].parent
       /\ p.len = folders[f].depth => folders[p.anc].parent = Root
  /\ \A p, q \in FindAncestorPaths(f) :
       /\ p.len = q.len => p = q
       /\ q.len = p.len + 1 => folders[p.anc].parent = q.anc
  /\ folders[f].depth = 0 => folders[f].parent = Root

LEMMA Chain ==
  ASSUME TypeOK, PathsSound, InPlace
  PROVE  \A f \in Live : OneEach(f)
<1>1. \A f \in Live : f \in FolderId /\ folders[f] \in Folder /\ folders[f].depth \in Nat
  BY LiveRows, FolderAssumption DEF Live, Folder
<1>2. \A f \in Live : /\ folders[f].parent \in Live \cup {Root}
                      /\ folders[f].depth = IF folders[f].parent = Root THEN 0
                                            ELSE folders[folders[f].parent].depth + 1
                      /\ {p \in paths : p.desc = f} = PathsOfNew(f, folders[f].parent)
  BY DEF InPlace, Depth
<1> DEFINE All == {n \in Nat : \A f \in Live : folders[f].depth = n => OneEach(f)}
<1>3. 0 \in All
  <2> SUFFICES ASSUME NEW f \in Live, folders[f].depth = 0 PROVE OneEach(f)
    OBVIOUS
  <2>1. folders[f].parent = Root
    <3> SUFFICES ASSUME folders[f].parent \in Live, folders[f].parent # Root PROVE FALSE
      BY <1>2
    <3>1. PICK g \in Live : g = folders[f].parent
      OBVIOUS
    <3>2. folders[g].depth \in Nat /\ folders[g].depth + 1 = 0
      BY <1>1, <1>2, <3>1
    <3> QED
      BY <3>2
  <2>2. {p \in paths : p.desc = f} = {Self(f)}
    BY <1>2, <2>1 DEF PathsOfNew
  <2>3. FindAncestorPaths(f) = {}
    BY <2>2 DEF FindAncestorPaths, Self
  <2> QED
    BY <2>1, <2>3 DEF OneEach
<1>4. ASSUME NEW n \in All, n \in Nat PROVE n + 1 \in All
  <2> SUFFICES ASSUME NEW f \in Live, folders[f].depth = n + 1 PROVE OneEach(f)
    BY <1>4
  <2>1. PICK g : g = folders[f].parent
    OBVIOUS
  <2>2. g # Root /\ g \in Live /\ folders[g].depth + 1 = n + 1
    BY <1>2, <1>4, <2>1
  <2>3. folders[g].depth = n
    BY <1>1, <1>4, <2>2
  <2>4. OneEach(g)
    BY <2>2, <2>3
  <2>5. PICK over, up : over = FindAncestorPaths(g) /\ up = FindAncestorPaths(f)
    OBVIOUS
  <2>6. \A r \in over : r.len \in 1..n /\ r.len \in Nat /\ r.anc \in Live
    BY <1>4, <2>3, <2>4, <2>5 DEF OneEach, FindAncestorPaths, TypeOK
  <2>7. /\ \A p \in up : \/ p = [anc |-> g, desc |-> f, len |-> 1]
                         \/ \E r \in over : p = [anc |-> r.anc, desc |-> f, len |-> r.len + 1]
        /\ [anc |-> g, desc |-> f, len |-> 1] \in up
        /\ \A r \in over : [anc |-> r.anc, desc |-> f, len |-> r.len + 1] \in up
    <3>1. {p \in paths : p.desc = f} =
            {[anc |-> f, desc |-> f, len |-> 0], [anc |-> g, desc |-> f, len |-> 1]}
              \cup {[anc |-> r.anc, desc |-> f, len |-> r.len + 1] : r \in over}
      BY <1>2, <2>1, <2>2, <2>5 DEF PathsOfNew, Self
    <3>2. up = {p \in {q \in paths : q.desc = f} : p.len > 0}
      BY <2>5 DEF FindAncestorPaths
    <3>3. \A r \in over : r.len + 1 > 0
      BY <2>6
    <3> QED
      BY <3>1, <3>2, <3>3
  <2>8. \A l \in 1..(n + 1) : \E p \in up : p.len = l
    <3> SUFFICES ASSUME NEW l \in 1..(n + 1) PROVE \E p \in up : p.len = l
      OBVIOUS
    <3>1. CASE l = 1
      BY <2>7, <3>1
    <3>2. CASE l # 1
      <4>1. PICK m \in 1..n : m + 1 = l
        <5>1. l - 1 \in 1..n /\ (l - 1) + 1 = l
          BY <1>4, <3>2
        <5> QED
          BY <5>1
      <4>2. PICK r \in over : r.len = m
        BY <2>3, <2>4, <2>5 DEF OneEach
      <4> QED
        BY <2>7, <4>1, <4>2
    <3> QED
      BY <3>1, <3>2
  <2>9. ASSUME NEW p \in up
        PROVE  /\ p.len \in 1..(n + 1)
               /\ p.len = (n + 1) - folders[p.anc].depth
               /\ p.len = 1 => p.anc = g
               /\ p.len = n + 1 => folders[p.anc].parent = Root
    <3>1. CASE p = [anc |-> g, desc |-> f, len |-> 1]
      <4>1. n = 0 => folders[g].parent = Root
        BY <2>3, <2>4 DEF OneEach
      <4> QED
        BY <1>4, <2>3, <3>1, <4>1
    <3>2. CASE \E r \in over : p = [anc |-> r.anc, desc |-> f, len |-> r.len + 1]
      <4>1. PICK r \in over : p = [anc |-> r.anc, desc |-> f, len |-> r.len + 1]
        BY <3>2
      <4>2. PICK k, m : k = r.len /\ m = folders[r.anc].depth
        OBVIOUS
      <4>3. /\ k \in 1..n /\ k = n - m /\ m \in Nat
            /\ k = n => folders[r.anc].parent = Root
            /\ p.anc = r.anc /\ p.len = k + 1
        BY <1>1, <2>3, <2>4, <2>5, <2>6, <4>1, <4>2 DEF OneEach
      <4>4. k + 1 \in 1..(n + 1) /\ k + 1 = (n + 1) - m /\ k + 1 # 1 /\ (k + 1 = n + 1 => k = n)
        BY <1>4, <4>3
      <4> QED
        BY <4>2, <4>3, <4>4
    <3> QED
      BY <2>7, <3>1, <3>2
  <2>10. ASSUME NEW p \in up, NEW q \in up
         PROVE  /\ p.len = q.len => p = q
                /\ q.len = p.len + 1 => folders[p.anc].parent = q.anc
    <3>1. \A r, s \in over : /\ r.len = s.len => r = s
                             /\ s.len = r.len + 1 => folders[r.anc].parent = s.anc
                             /\ r.len = 1 => r.anc = folders[g].parent
      BY <2>4, <2>5 DEF OneEach
    <3>2. CASE p = [anc |-> g, desc |-> f, len |-> 1]
      <4>1. CASE q = [anc |-> g, desc |-> f, len |-> 1]
        BY <3>2, <4>1
      <4>2. CASE \E s \in over : q = [anc |-> s.anc, desc |-> f, len |-> s.len + 1]
        <5>1. PICK s \in over : q = [anc |-> s.anc, desc |-> f, len |-> s.len + 1]
          BY <4>2
        <5>2. s.len \in Nat /\ s.len # 0
          BY <1>4, <2>6
        <5>3. s.len + 1 # 1 /\ (s.len + 1 = 1 + 1 => s.len = 1)
          BY <5>2
        <5> QED
          BY <3>1, <3>2, <5>1, <5>3
      <4> QED
        BY <2>7, <4>1, <4>2
    <3>3. CASE \E r \in over : p = [anc |-> r.anc, desc |-> f, len |-> r.len + 1]
      <4>1. PICK r \in over : p = [anc |-> r.anc, desc |-> f, len |-> r.len + 1]
        BY <3>3
      <4>2. r.len \in Nat /\ r.len # 0
        BY <1>4, <2>6
      <4>3. CASE q = [anc |-> g, desc |-> f, len |-> 1]
        <5>1. r.len + 1 # 1 /\ 1 # (r.len + 1) + 1
          BY <4>2
        <5> QED
          BY <4>1, <4>3, <5>1
      <4>4. CASE \E s \in over : q = [anc |-> s.anc, desc |-> f, len |-> s.len + 1]
        <5>1. PICK s \in over : q = [anc |-> s.anc, desc |-> f, len |-> s.len + 1]
          BY <4>4
        <5>2. s.len \in Nat
          BY <2>6
        <5>3. /\ r.len + 1 = s.len + 1 => r.len = s.len
              /\ s.len + 1 = (r.len + 1) + 1 => s.len = r.len + 1
          BY <4>2, <5>2
        <5> QED
          BY <3>1, <4>1, <5>1, <5>3
      <4> QED
        BY <2>7, <4>3, <4>4
    <3> QED
      BY <2>7, <3>2, <3>3
  <2>11. n + 1 # 0
    BY <1>4
  <2> QED
    BY <2>1, <2>5, <2>8, <2>9, <2>10, <2>11 DEF OneEach
<1>5. Nat \subseteq All
  <2> HIDE DEF All
  <2> QED
    BY <1>3, <1>4, Induction
<1> QED
  BY <1>1, <1>5

\* Sorted by distance, the paths of a folder are its ancestors one by one.
LEMMA AncestorsInOrder ==
  ASSUME NEW f, OneEach(f), NEW d \in Nat, d = folders[f].depth
  PROVE  \E s \in [1..d -> FindAncestorPaths(f)] :
           /\ \A i \in 1..d : s[i].len = i
           /\ FindAncestorIDs(f) = [i \in 1..d |-> s[i].anc]
<1>1. PICK up : up = FindAncestorPaths(f)
  OBVIOUS
<1>2. /\ \A l \in 1..d : \E p \in up : p.len = l
      /\ \A p \in up : p.len \in 1..d
      /\ \A p, q \in up : p.len = q.len => p = q
  BY <1>1 DEF OneEach
<1>3. PICK at : at = [l \in 1..d |-> CHOOSE p \in up : p.len = l]
  OBVIOUS
<1>4. at \in [1..d -> up] /\ \A l \in 1..d : at[l].len = l
  BY <1>2, <1>3
<1>5. at \in Bijection(1..d, up)
  <2>1. \A p \in up : at[p.len] = p
    BY <1>2, <1>4
  <2>2. \A p \in up : \E l \in 1..d : at[l] = p
    BY <1>2, <2>1
  <2>3. \A l, m \in 1..d : at[l] = at[m] => l = m
    BY <1>4
  <2> QED
    BY <1>4, <2>2, <2>3 DEF Bijection, Injection, Surjection, IsInjective
<1>6. Cardinality(up) = d
  <2>1. IsFiniteSet(1..d) /\ Cardinality(1..d) = d
    <3>1. 1 \in Int /\ d \in Int /\ (IF 1 > d THEN 0 ELSE d - 1 + 1) = d
      OBVIOUS
    <3>2. IsFiniteSet(1..d) /\ Cardinality(1..d) = IF 1 > d THEN 0 ELSE d - 1 + 1
      BY <3>1, FS_Interval
    <3> QED
      BY <3>1, <3>2
  <2> QED
    BY <1>5, <2>1, FS_Bijection DEF ExistsBijection
<1>7. SetToSeqs(up) = {s \in [1..d -> up] : \A i, j \in 1..d : i # j => s[i] # s[j]}
  BY <1>6 DEF SetToSeqs
<1>8. PICK sorted : sorted = CHOOSE s \in SetToSeqs(up) : \A i, j \in DOMAIN s : i < j => s[i].len <= s[j].len
  OBVIOUS
<1>9. sorted \in SetToSeqs(up) /\ \A i, j \in DOMAIN sorted : i < j => sorted[i].len <= sorted[j].len
  <2>1. at \in SetToSeqs(up) /\ DOMAIN at = 1..d
    BY <1>4, <1>7
  <2>2. \A i, j \in DOMAIN at : i < j => at[i].len <= at[j].len
    BY <1>4, <2>1
  <2> QED
    BY <1>8, <2>1, <2>2
<1>10. /\ sorted \in [1..d -> up]
       /\ \A i, j \in 1..d : i # j => sorted[i] # sorted[j]
       /\ \A i, j \in 1..d : i < j => sorted[i].len <= sorted[j].len
  BY <1>7, <1>9
<1>11. PICK len : len = [i \in 1..d |-> sorted[i].len]
  OBVIOUS
<1>12. \A i \in 1..d : len[i] = i
  <2>1. len \in [1..d -> 1..d]
    BY <1>2, <1>10, <1>11
  <2>2. \A i, j \in 1..d : i # j => len[i] # len[j]
    BY <1>2, <1>10, <1>11
  <2>3. \A i, j \in 1..d : i < j => len[i] <= len[j]
    BY <1>10, <1>11
  <2> QED
    BY <2>1, <2>2, <2>3, SortedChain
<1>13. FindAncestorIDs(f) = [i \in 1..d |-> sorted[i].anc]
  BY <1>1, <1>8, <1>10 DEF FindAncestorIDs
<1> QED
  BY <1>1, <1>10, <1>11, <1>12, <1>13

\* The ancestors in the closure table are those parent_id leads down from.
LEMMA AncestorsAreReal ==
  ASSUME TypeOK, PathsSound, InPlace, NEW f \in Live
  PROVE  {p.anc : p \in FindAncestorPaths(f)} = RealAncestors(f)
<1>0. /\ DOMAIN Parents = Live /\ Live \subseteq FolderId /\ Root \notin FolderId
      /\ \A x \in Live : Parents[x] = folders[x].parent
  BY FolderAssumption DEF Parents, Live
<1>1. PICK parentOf : parentOf = Parents
  OBVIOUS
<1>2. ASSUME NEW p \in FindAncestorPaths(f) PROVE p.anc \in RealAncestors(f)
  <2>1. PICK a : a = p.anc
    OBVIOUS
  <2>2. a \in Live /\ a # f /\ p \in paths /\ p.desc = f
    BY <2>1 DEF FindAncestorPaths, TypeOK, PathsSound, FolderPath
  <2>3. PICK S : S = Below(parentOf, a)
    OBVIOUS
  <2>4. a \in S /\ \A x \in Live : folders[x].parent \in S => x \in S
    <3>1. /\ a \in Below(parentOf, a)
          /\ \A x \in DOMAIN parentOf : parentOf[x] \in Below(parentOf, a) => x \in Below(parentOf, a)
      BY <1>0, <1>1, <2>2, BelowClosed
    <3> QED
      BY <1>0, <1>1, <2>3, <3>1
  <2>5. f \in S
    BY <2>1, <2>2, <2>4, ClosedAlongPaths
  <2> QED
    BY <1>1, <2>1, <2>2, <2>3, <2>5 DEF RealAncestors
<1>3. ASSUME NEW a \in RealAncestors(f) PROVE \E p \in FindAncestorPaths(f) : p.anc = a
  <2>1. a \in Live /\ a # f /\ f \in Below(parentOf, a)
    BY <1>1 DEF RealAncestors
  <2>2. PICK S : S = FoldersToDelete(a)
    OBVIOUS
  <2>3. a \in S /\ \A x \in Live : folders[x].parent \in S => x \in S
    BY <2>1, <2>2, SetTakesCascade DEF FoldersToDelete
  <2>4. Below(parentOf, a) \subseteq S
    <3>1. \A x \in DOMAIN parentOf : parentOf[x] \in S => x \in S
      BY <1>0, <1>1, <2>3
    <3> QED
      BY <2>3, <3>1, BelowLeast
  <2>5. \E p \in paths : p.anc = a /\ p.len > 0 /\ p.desc = f
    BY <2>1, <2>2, <2>4 DEF FoldersToDelete, FindDescendantIDs, FindDescendantsWithDepth
  <2> QED
    BY <2>5 DEF FindAncestorPaths
<1> QED
  BY <1>2, <1>3

LEMMA PageIs ==
  ASSUME NEW f \in FolderId
  PROVE  /\ Contents(f).folders = {x \in Live : folders[x].parent = f}
         /\ Contents(Root).folders = {x \in Live : folders[x].parent = Root}
         /\ \A x \in Live : folders[x].parent \in FolderId \cup {Root} =>
              GetFolder(x) \in ListFolderContents(folders[x].parent).folders
BY FolderAssumption DEF Contents, ListFolderContents, FindByParentID, FindRootByOwner

LEMMA TreeAgrees ==
  ASSUME TypeOK, PathsSound, InPlace, NEW f \in Live
  PROVE  LET crumbs == Breadcrumbs(f)
             way(i) == IF i = 0 THEN Root ELSE crumbs[i].id
         IN /\ Len(crumbs) = folders[f].depth
            /\ \A i \in DOMAIN crumbs : crumbs[i] \in ListFolderContents(way(i - 1)).folders
            /\ GetFolder(f) \in ListFolderContents(way(Len(crumbs))).folders
            /\ \A p \in FindAncestorPaths(f) : p.len = folders[f].depth - folders[p.anc].depth
            /\ ToSet(FindAncestorIDs(f)) = RealAncestors(f)
            /\ Contents(f).folders = {x \in Live : <<f, x>> \in relations}
<1> DEFINE crumbs == Breadcrumbs(f)
           way(i) == IF i = 0 THEN Root ELSE crumbs[i].id
<1>1. PICK d : d = folders[f].depth
  OBVIOUS
<1>2. f \in FolderId /\ Live \subseteq FolderId /\ Root \notin FolderId /\ d \in Nat
  BY <1>1, LiveRows, FolderAssumption DEF Live, Folder
<1>3. OneEach(f)
  BY Chain
<1>4. PICK s \in [1..d -> FindAncestorPaths(f)] :
        /\ \A i \in 1..d : s[i].len = i
        /\ FindAncestorIDs(f) = [i \in 1..d |-> s[i].anc]
  BY <1>1, <1>2, <1>3, AncestorsInOrder
<1>5. PICK ids : ids = [i \in 1..d |-> s[i].anc]
  OBVIOUS
<1>6. \A i \in 1..d : ids[i] \in Live /\ ids[i] \in FolderId
  BY <1>2, <1>4, <1>5 DEF FindAncestorPaths, TypeOK
<1>7. GetAncestors(f) = [i \in 1..d |-> ids[(d - i) + 1]]
  <2>1. ids \in [1..d -> Live]
    BY <1>5, <1>6
  <2>2. Len(ids) = d
    BY <1>2, <2>1
  <2> QED
    BY <1>4, <1>5, <2>2 DEF GetAncestors, Reverse
<1>8. crumbs = [i \in 1..d |-> GetFolder(ids[(d - i) + 1])]
  BY <1>7 DEF Breadcrumbs
<1>9. \A i \in 1..d : (d - i) + 1 \in 1..d
  BY <1>2
<1>10. Len(crumbs) = d /\ DOMAIN crumbs = 1..d
  BY <1>2, <1>8
<1>11. \A i \in 1..d : crumbs[i] = GetFolder(ids[(d - i) + 1]) /\ crumbs[i].id = ids[(d - i) + 1]
  BY <1>8 DEF GetFolder
<1> HIDE DEF crumbs
<1>12. \A x \in Live : GetFolder(x) \in ListFolderContents(folders[x].parent).folders
  <2>1. \A x \in Live : folders[x].parent \in FolderId \cup {Root}
    BY LiveRows DEF Live, Folder, Parent
  <2> QED
    BY <1>2, <2>1, PageIs
<1>13. ASSUME NEW i \in 1..d PROVE crumbs[i] \in ListFolderContents(way(i - 1)).folders
  <2>1. PICK k : k = (d - i) + 1
    OBVIOUS
  <2>2. PICK x : x = ids[k]
    OBVIOUS
  <2>3. k \in 1..d /\ x \in Live /\ crumbs[i] = GetFolder(x) /\ x = s[k].anc /\ s[k].len = k
    BY <1>4, <1>5, <1>6, <1>9, <1>11, <2>1, <2>2
  <2>4. way(i - 1) = folders[x].parent
    <3>1. CASE i = 1
      <4>1. k = d /\ i - 1 = 0
        BY <1>2, <2>1, <3>1
      <4>2. folders[x].parent = Root
        BY <1>1, <1>3, <1>4, <2>3, <4>1 DEF OneEach
      <4> QED
        BY <4>1, <4>2
    <3>2. CASE i # 1
      <4>1. i - 1 \in 1..d /\ i - 1 # 0 /\ (d - (i - 1)) + 1 = k + 1 /\ k + 1 \in 1..d
        BY <1>2, <2>1, <3>2
      <4>2. way(i - 1) = ids[k + 1]
        BY <1>11, <4>1
      <4>3. ids[k + 1] = s[k + 1].anc /\ s[k + 1].len = k + 1
        BY <1>4, <1>5, <4>1
      <4>4. folders[x].parent = s[k + 1].anc
        BY <1>3, <1>4, <2>3, <4>1, <4>3 DEF OneEach
      <4> QED
        BY <4>2, <4>3, <4>4
    <3> QED
      BY <3>1, <3>2
  <2> QED
    BY <1>12, <2>3, <2>4
<1>14. GetFolder(f) \in ListFolderContents(way(d)).folders
  <2>1. CASE d = 0
    <3>1. folders[f].parent = Root
      BY <1>1, <1>3, <2>1 DEF OneEach
    <3> QED
      BY <1>12, <2>1, <3>1
  <2>2. CASE d # 0
    <3>1. d \in 1..d /\ 1 \in 1..d /\ (d - d) + 1 = 1
      BY <1>2, <2>2
    <3>2. way(d) = s[1].anc /\ s[1].len = 1
      BY <1>4, <1>5, <1>11, <2>2, <3>1
    <3>3. s[1].anc = folders[f].parent
      BY <1>3, <1>4, <3>1, <3>2 DEF OneEach
    <3> QED
      BY <1>12, <3>2, <3>3
  <2> QED
    BY <2>1, <2>2
<1>15. \A p \in FindAncestorPaths(f) : p.len = folders[f].depth - folders[p.anc].depth
  BY <1>3 DEF OneEach
<1>16. ToSet(FindAncestorIDs(f)) = RealAncestors(f)
  <2>1. ToSet(FindAncestorIDs(f)) = {s[i].anc : i \in 1..d}
    BY <1>4 DEF ToSet
  <2>2. \A p \in FindAncestorPaths(f) : p.len \in 1..d /\ s[p.len] = p
    BY <1>1, <1>3, <1>4 DEF OneEach
  <2>3. {s[i].anc : i \in 1..d} = {p.anc : p \in FindAncestorPaths(f)}
    BY <2>2
  <2> QED
    BY <2>1, <2>3, AncestorsAreReal
<1>17. Contents(f).folders = {x \in Live : <<f, x>> \in relations}
  <2>1. \A x \in Live : {a \in FolderId : <<a, x>> \in relations} = {folders[x].parent} \ {Root}
    BY DEF InPlace
  <2>2. \A x \in Live : <<f, x>> \in relations <=> folders[x].parent = f
    BY <1>2, <2>1
  <2> QED
    BY <1>2, <2>2, PageIs
<1> QED
  BY <1>1, <1>10, <1>13, <1>14, <1>15, <1>16, <1>17 DEF crumbs

\* The closure table lists below a folder what its parents put there.
LEMMA LinkLetsOut ==
  ASSUME TypeOK, PathsSound, InPlace, NEW f \in Live
  PROVE  {x \in File : VerifyFileInFolderSubtree(f, x)}
           = UNION {FetchResourceInfo(d) : d \in Below(Parents, f) \ {f}}
<1>1. ASSUME NEW d \in Live
      PROVE  d \in FindDescendantIDs(f) <=> f \in RealAncestors(d)
  <2>1. f \in RealAncestors(d) <=> \E p \in paths : p.anc = f /\ p.len > 0 /\ p.desc = d
    BY AncestorsAreReal DEF FindAncestorPaths
  <2> QED
    BY <2>1 DEF FindDescendantIDs, FindDescendantsWithDepth
<1>2. FindDescendantIDs(f) \subseteq Live
  BY DEF FindDescendantIDs, FindDescendantsWithDepth, TypeOK, FolderPath
<1>3. \A d \in Live : f \in RealAncestors(d) <=> d \in Below(Parents, f) \ {f}
  BY DEF RealAncestors
<1>4. Below(Parents, f) \subseteq Live
  <2>1. PICK parentOf : parentOf = Parents
    OBVIOUS
  <2>2. \A x \in DOMAIN parentOf : x \in Live
    BY <2>1 DEF Parents
  <2>3. Below(parentOf, f) \subseteq Live
    BY <2>2, BelowLeast
  <2> QED
    BY <2>1, <2>3
<1>5. FindDescendantIDs(f) = Below(Parents, f) \ {f}
  BY <1>1, <1>2, <1>3, <1>4
<1> QED
  BY <1>5 DEF VerifyFileInFolderSubtree, FetchResourceInfo, FindByFolderID

\* Until a move commits, parent_id, depth, the closure table and the parent
\* relationships tell the same tree, however commands overlap; the personal
\* folder stays the root of the owner, moves or not.
THEOREM RecordsStayInAgreement == Spec => []RecordsAgree
<1>1. FolderInv => RecordsAgree
  <2> SUFFICES ASSUME FolderInv PROVE RecordsAgree
    OBVIOUS
  <2>1. TypeOK /\ PathsSound /\ HomeStays /\ (moves = 0 => InPlace)
    BY DEF FolderInv, Structure, Tree
  <2>2. Home \in Live /\ folders[Home].parent = Root /\ folders[Home].depth = 0
    BY <2>1 DEF HomeStays
  <2>3. moves = 0 => \A f \in Live :
          {x \in File : VerifyFileInFolderSubtree(f, x)}
            = UNION {FetchResourceInfo(d) : d \in Below(Parents, f) \ {f}}
    BY <2>1, LinkLetsOut
  <2> QED
    BY <2>1, <2>2, <2>3, TreeAgrees DEF RecordsAgree
<1> QED
  BY <1>1, FolderInvariant, PTL
=============================================================================
