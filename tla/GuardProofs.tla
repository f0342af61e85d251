----------------------------- MODULE GuardProofs -----------------------------
(***************************************************************************)
(* Who gets through.  The theorems of Permissions: the two recursive walks *)
(* of the resolver agree, nobody but an owner's request makes a content    *)
(* manager, and nobody changes the role of somebody of his rank.  Then     *)
(* those of RateLimiter: no window lets more requests in than its limit,   *)
(* and none is refused without a reason.                                   *)
(***************************************************************************)
EXTENDS Permissions, RateLimiter, FunctionTheorems, FiniteSetTheorems, NaturalsInduction,
        WellFoundedInduction, TLAPS

LEMMA LeastNumber ==
  ASSUME NEW S \in SUBSET Nat, S # {}
  PROVE  \E n \in S : \A m \in S : n <= m
<1> DEFINE R == OpToRel(<, Nat)
<1>1. IsWellFoundedOn(R, Nat)
  BY NatLessThanWellFounded
<1>2. \A m, n \in Nat : <<m, n>> \in R <=> m < n
  BY DEF OpToRel
<1> HIDE DEF R
<1>3. PICK n \in S : \A m \in S : ~(<<m, n>> \in R)
  BY <1>1, WFMin
<1>4. ASSUME NEW m \in S PROVE n <= m
  <2>1. m \in Nat /\ n \in Nat
    OBVIOUS
  <2>2. ~(m < n)
    BY <1>2, <1>3, <2>1
  <2> QED
    BY <2>1, <2>2
<1> QED
  BY <1>4

LEMMA Induction ==
  ASSUME NEW S, 0 \in S, \A n \in S \cap Nat : n + 1 \in S
  PROVE  Nat \subseteq S
<1> SUFFICES ASSUME Nat \ S # {} PROVE FALSE
  OBVIOUS
<1>1. PICK n \in Nat \ S : \A m \in Nat \ S : n <= m
  BY LeastNumber
<1>2. n - 1 \in Nat /\ (n - 1) + 1 = n /\ ~(n <= n - 1)
  BY <1>1
<1>3. n - 1 \in S
  BY <1>1, <1>2
<1> QED
  BY <1>2, <1>3

-----------------------------------------------------------------------------
(* Roles *)

LEMMA Levels ==
  /\ \A r \in Role : Level[r] \in 0..4 /\ (Level[r] = 4 => r = "owner")
  /\ \A r, s \in Role : Level[r] = Level[s] => r = s
  /\ \A r \in AllGrantableRoles : r \in Role /\ Level[r] \in 1..3
  /\ "none" \in Role /\ Level["none"] = 0 /\ "owner" \in Role /\ Level["owner"] = 4
BY DEF Role, Level, AllGrantableRoles

LEMMA HighestRole ==
  ASSUME NEW roles \in SUBSET Role
  PROVE  /\ Highest(roles) \in roles \cup {"none"}
         /\ \A r \in roles : Level[Highest(roles)] >= Level[r]
<1>1. \A r \in roles : r \in {"none", "viewer", "contributor", "content_manager", "owner"}
  BY DEF Role, Level
<1>2. \E h \in roles \cup {"none"} : \A r \in roles : Level[h] >= Level[r]
  <2>1. CASE "owner" \in roles
    BY <1>1, <2>1 DEF Level
  <2>2. CASE "owner" \notin roles /\ "content_manager" \in roles
    BY <1>1, <2>2 DEF Level
  <2>3. CASE "owner" \notin roles /\ "content_manager" \notin roles /\ "contributor" \in roles
    BY <1>1, <2>3 DEF Level
  <2>4. CASE roles \subseteq {"none", "viewer"} /\ "viewer" \in roles
    BY <2>4 DEF Level
  <2>5. CASE roles \subseteq {"none"}
    BY <2>5 DEF Level
  <2> QED
    BY <1>1, <2>1, <2>2, <2>3, <2>4, <2>5
<1> QED
  BY <1>2 DEF Highest

\* What a role comes with grows with its level, each time by something new.
LEMMA PermissionsGrow ==
  ASSUME NEW r \in Role, NEW s \in Role
  PROVE  /\ Level[r] <= Level[s] <=> Permissions(r) \subseteq Permissions(s)
         /\ Permissions(r) \subseteq Permissions("owner")
<1> USE DEF Permissions, FilePermissions, FolderPermissions, PermissionPermissions, AllPermissions
<1>1. /\ Permissions("none") = {}
      /\ Permissions("viewer") \subseteq Permissions("contributor")
      /\ Permissions("contributor") \subseteq Permissions("content_manager")
      /\ Permissions("content_manager") \subseteq Permissions("owner")
  OBVIOUS
<1>2. /\ "file:read" \in Permissions("viewer")
      /\ "permission:grant" \in Permissions("contributor") /\ "permission:grant" \notin Permissions("viewer")
      /\ "file:move_out" \in Permissions("content_manager")
      /\ "file:move_out" \notin Permissions("contributor")
      /\ "root:delete" \in Permissions("owner") /\ "root:delete" \notin Permissions("content_manager")
  OBVIOUS
<1> HIDE DEF Permissions
<1>3. r \in {"none", "viewer", "contributor", "content_manager", "owner"}
  BY DEF Role, Level
<1>4. s \in {"none", "viewer", "contributor", "content_manager", "owner"}
  BY DEF Role, Level
<1>5. /\ Level["none"] = 0 /\ Level["viewer"] = 1 /\ Level["contributor"] = 2
      /\ Level["content_manager"] = 3 /\ Level["owner"] = 4
  BY DEF Level
<1>6. Permissions(r) \subseteq Permissions("owner")
  BY <1>1, <1>3
<1>7. ASSUME Level[r] <= Level[s] PROVE Permissions(r) \subseteq Permissions(s)
  BY <1>1, <1>3, <1>4, <1>5, <1>7
<1>8. ASSUME ~(Level[r] <= Level[s]) PROVE ~(Permissions(r) \subseteq Permissions(s))
  BY <1>1, <1>2, <1>3, <1>4, <1>5, <1>8
<1> QED
  BY <1>6, <1>7, <1>8

-----------------------------------------------------------------------------
(* Walks up the tree *)

\* Every folder is further from the top than its parent.
Ranked(rank) ==
  \A f \in FolderId : parent[f] # Root => parent[f] \in FolderId /\ rank[parent[f]] < rank[f]

WellRanked == \E n \in Nat : \E rank \in [FolderId -> 0..n] : Ranked(rank)

\* What holds of a folder if it holds of its parent holds of all.
LEMMA FromTheTop ==
  ASSUME WellRanked, NEW S,
         \A f \in FolderId : (parent[f] # Root => parent[f] \in S) => f \in S
  PROVE  FolderId \subseteq S
<1>1. PICK n \in Nat : \E rank \in [FolderId -> 0..n] : Ranked(rank)
  BY DEF WellRanked
<1>2. PICK rank \in [FolderId -> 0..n] : Ranked(rank)
  BY <1>1
<1> SUFFICES ASSUME NEW x \in FolderId, x \notin S PROVE FALSE
  OBVIOUS
<1>3. PICK ranks : ranks = {rank[f] : f \in FolderId \ S}
  OBVIOUS
<1>4. ranks \in SUBSET Nat /\ ranks # {}
  BY <1>2, <1>3
<1>5. PICK k \in ranks : \A m \in ranks : k <= m
  BY <1>4, LeastNumber
<1>6. PICK f \in FolderId \ S : k = rank[f]
  BY <1>3, <1>5
<1>7. parent[f] # Root /\ parent[f] \notin S
  BY <1>6
<1>8. parent[f] \in FolderId \ S /\ rank[parent[f]] < rank[f]
  BY <1>2, <1>6, <1>7 DEF Ranked
<1>9. rank[parent[f]] \in ranks /\ rank[parent[f]] \in Nat /\ rank[f] \in Nat
  BY <1>2, <1>3, <1>6, <1>8
<1> QED
  BY <1>5, <1>6, <1>8, <1>9

\* A function that is given at each folder by its value at the parent exists.
Walks(e, step, base) ==
  \A f \in FolderId : e[f] = step[<<f, IF parent[f] = Root THEN base ELSE e[parent[f]]>>]

LEMMA WalkExists ==
  ASSUME WellRanked, NEW V, NEW base \in V, NEW step \in [FolderId \X V -> V]
  PROVE  \E e \in [FolderId -> V] : Walks(e, step, base)
<1>1. PICK n \in Nat : \E rank \in [FolderId -> 0..n] : Ranked(rank)
  BY DEF WellRanked
<1>2. PICK rank \in [FolderId -> 0..n] : Ranked(rank)
  BY <1>1
<1> DEFINE At(e, f) == e[f] = step[<<f, IF parent[f] = Root THEN base ELSE e[parent[f]]>>]
           Done == {k \in Nat : \E e \in [FolderId -> V] : \A f \in FolderId : rank[f] < k => At(e, f)}
<1>3. 0 \in Done
  <2>1. PICK e : e = [f \in FolderId |-> base]
    OBVIOUS
  <2>2. e \in [FolderId -> V] /\ \A f \in FolderId : ~(rank[f] < 0)
    BY <1>2, <2>1
  <2> QED
    BY <2>2
<1>4. ASSUME NEW k \in Done \cap Nat PROVE k + 1 \in Done
  <2>1. PICK e \in [FolderId -> V] : \A f \in FolderId : rank[f] < k => At(e, f)
    OBVIOUS
  <2>2. PICK d : d = [f \in FolderId |->
                        IF rank[f] < k THEN e[f]
                        ELSE step[<<f, IF parent[f] = Root THEN base ELSE e[parent[f]]>>]]
    OBVIOUS
  <2>3. \A f \in FolderId : (IF parent[f] = Root THEN base ELSE e[parent[f]]) \in V
    BY <1>2, <2>1 DEF Ranked
  <2>4. d \in [FolderId -> V]
    BY <2>1, <2>2, <2>3
  <2>5. ASSUME NEW f \in FolderId, rank[f] < k + 1 PROVE At(d, f)
    <3>1. d[f] = step[<<f, IF parent[f] = Root THEN base ELSE e[parent[f]]>>]
      BY <2>1, <2>2
    <3>2. CASE parent[f] = Root
      BY <3>1, <3>2
    <3>3. CASE parent[f] # Root
      <4>1. parent[f] \in FolderId /\ rank[parent[f]] < k
        BY <1>2, <2>5, <3>3 DEF Ranked
      <4>2. d[parent[f]] = e[parent[f]]
        BY <2>2, <4>1
      <4> QED
        BY <3>1, <3>3, <4>2
    <3> QED
      BY <3>2, <3>3
  <2> HIDE DEF At
  <2> QED
    BY <2>4, <2>5
<1>5. n + 1 \in Done
  <2> HIDE DEF Done
  <2> QED
    BY <1>3, <1>4, Induction
<1>6. PICK e \in [FolderId -> V] : \A f \in FolderId : rank[f] < n + 1 => At(e, f)
  BY <1>5
<1>7. \A f \in FolderId : rank[f] < n + 1
  BY <1>2
<1> QED
  BY <1>6, <1>7 DEF Walks

-----------------------------------------------------------------------------
(* The walks of the resolver *)

Above(u, f) == IF parent[f] = Root THEN "none" ELSE GetEffectiveRole(u, parent[f])

\* What the walks compute, one folder at a time.
EffectiveIs ==
  \A u \in User, f \in FolderId :
    /\ GetEffectiveRole(u, f) \in Role /\ Above(u, f) \in Role
    /\ owner[f] = u => GetEffectiveRole(u, f) = "owner"
    /\ owner[f] # u => /\ GetEffectiveRole(u, f) \in RolesGranted(u, f) \cup {Above(u, f), "none"}
                       /\ \A r \in RolesGranted(u, f) \cup {Above(u, f)} :
                            Level[r] <= Level[GetEffectiveRole(u, f)]

CollectIs ==
  \A u \in User, f \in FolderId :
    CollectPermissions(u, f) =
      IF owner[f] = u THEN Permissions("owner")
      ELSE AddFromRoles(RolesGranted(u, f))
             \cup (IF parent[f] = Root THEN {} ELSE CollectPermissions(u, parent[f]))

IsEffective(u, e) ==
  e = [f \in FolderId |->
         IF IsOwner(u, f) THEN "owner"
         ELSE Highest(RolesGranted(u, f) \cup {GetParentEffectiveRole(f, e)})]

IsCollected(u, e) ==
  e = [f \in FolderId |->
         IF IsOwner(u, f) THEN Permissions("owner")
         ELSE AddFromRoles(RolesGranted(u, f)) \cup CollectParentPermissions(f, e)]

LEMMA GrantedRoles ==
  ASSUME TypeOK, NEW u, NEW f
  PROVE  RolesGranted(u, f) \subseteq AllGrantableRoles
BY DEF TypeOK, RolesGranted, FindByResourceAndGrantee, CollectGroupPermissions, PermissionGrant

LEMMA EffectiveWalk == TypeOK /\ WellRanked => EffectiveIs
<1> SUFFICES ASSUME TypeOK, WellRanked, NEW u \in User
             PROVE  \A f \in FolderId :
    /\ GetEffectiveRole(u, f) \in Role /\ Above(u, f) \in Role
    /\ owner[f] = u => GetEffectiveRole(u, f) = "owner"
    /\ owner[f] # u => /\ GetEffectiveRole(u, f) \in RolesGranted(u, f) \cup {Above(u, f), "none"}
                       /\ \A r \in RolesGranted(u, f) \cup {Above(u, f)} :
                            Level[r] <= Level[GetEffectiveRole(u, f)]
  BY DEF EffectiveIs
<1>1. \A f \in FolderId, v \in Role : RolesGranted(u, f) \cup {v} \in SUBSET Role
  BY GrantedRoles, Levels
<1>2. PICK step : step = [x \in FolderId \X Role |->
                            IF owner[x[1]] = u THEN "owner"
                            ELSE Highest(RolesGranted(u, x[1]) \cup {x[2]})]
  OBVIOUS
<1>3. \A f \in FolderId, v \in Role : Highest(RolesGranted(u, f) \cup {v}) \in Role
  BY <1>1, HighestRole, Levels
<1>4. step \in [FolderId \X Role -> Role]
  BY <1>2, <1>3, Levels
<1>5. PICK e \in [FolderId -> Role] : Walks(e, step, "none")
  BY <1>4, WalkExists, Levels
<1>6. \A f \in FolderId : parent[f] \in FolderId \cup {Root}
  BY DEF TypeOK
<1>7. IsEffective(u, e)
  <2>1. ASSUME NEW f \in FolderId
        PROVE  e[f] = IF IsOwner(u, f) THEN "owner"
                      ELSE Highest(RolesGranted(u, f) \cup {GetParentEffectiveRole(f, e)})
    <3>1. GetParentEffectiveRole(f, e) = (IF parent[f] = Root THEN "none" ELSE e[parent[f]])
      BY DEF GetParentEffectiveRole, FindParent
    <3>2. GetParentEffectiveRole(f, e) \in Role
      BY <1>5, <1>6, <3>1, Levels
    <3>3. e[f] = step[<<f, GetParentEffectiveRole(f, e)>>]
      BY <1>5, <3>1 DEF Walks
    <3> QED
      BY <1>2, <3>2, <3>3 DEF IsOwner, Exists
  <2> QED
    BY <1>5, <2>1 DEF IsEffective
<1>8. PICK z : IsEffective(u, z) /\ \A f : GetEffectiveRole(u, f) = z[f]
  BY <1>7 DEF GetEffectiveRole, IsEffective
<1>9. \A f \in FolderId : z[f] = IF IsOwner(u, f) THEN "owner"
                                 ELSE Highest(RolesGranted(u, f) \cup {GetParentEffectiveRole(f, z)})
  BY <1>8 DEF IsEffective

<1> DEFINE Up(f) == IF parent[f] = Root THEN "none" ELSE z[parent[f]]
<1>10. \A f \in FolderId : z[f] = IF owner[f] = u THEN "owner"
                                  ELSE Highest(RolesGranted(u, f) \cup {Up(f)})
  BY <1>9 DEF IsOwner, Exists, GetParentEffectiveRole, FindParent
<1>11. \A f \in FolderId : z[f] \in Role
  <2> DEFINE S == {f \in FolderId : z[f] \in Role}
  <2>1. ASSUME NEW f \in FolderId, parent[f] # Root => parent[f] \in S PROVE f \in S
    <3>1. Up(f) \in Role
      BY <2>1, Levels
    <3>2. z[f] \in Role
      <4> HIDE DEF Up
      <4> QED
        BY <1>3, <1>10, <3>1, Levels
    <3> QED
      BY <3>2
  <2> HIDE DEF Up, S
  <2>2. FolderId \subseteq S
    BY <2>1, FromTheTop
  <2> QED
    BY <2>2 DEF S
<1>12. \A f \in FolderId : Up(f) \in Role /\ Up(f) = Above(u, f)
  BY <1>6, <1>8, <1>11, Levels DEF Above
<1> HIDE DEF Up
<1>13. \A f \in FolderId, v \in Role :
         /\ Highest(RolesGranted(u, f) \cup {v}) \in RolesGranted(u, f) \cup {v, "none"}
         /\ \A r \in RolesGranted(u, f) \cup {v} :
              Level[r] <= Level[Highest(RolesGranted(u, f) \cup {v})]
  <2> SUFFICES ASSUME NEW f \in FolderId, NEW v \in Role
               PROVE  /\ Highest(RolesGranted(u, f) \cup {v}) \in RolesGranted(u, f) \cup {v, "none"}
                      /\ \A r \in RolesGranted(u, f) \cup {v} :
                           Level[r] <= Level[Highest(RolesGranted(u, f) \cup {v})]
    OBVIOUS
  <2>1. PICK roles : roles = RolesGranted(u, f) \cup {v}
    OBVIOUS
  <2>2. roles \in SUBSET Role
    BY <1>1, <2>1
  <2>3. /\ Highest(roles) \in roles \cup {"none"}
        /\ \A r \in roles : Level[Highest(roles)] >= Level[r]
    BY <2>2, HighestRole
  <2>4. \A r \in roles : Level[r] \in Nat /\ Level[Highest(roles)] \in Nat
    BY <2>2, <2>3, Levels
  <2> QED
    BY <2>1, <2>3, <2>4
<1> QED
  BY <1>8, <1>10, <1>11, <1>12, <1>13

LEMMA CollectWalk == TypeOK /\ WellRanked => CollectIs
<1> SUFFICES ASSUME TypeOK, WellRanked, NEW u \in User
             PROVE  \A f \in FolderId :
    CollectPermissions(u, f) =
      IF owner[f] = u THEN Permissions("owner")
      ELSE AddFromRoles(RolesGranted(u, f))
             \cup (IF parent[f] = Root THEN {} ELSE CollectPermissions(u, parent[f]))
  BY DEF CollectIs
<1>1. PICK all : all = UNION {Permissions("owner"), UNION {AddFromRoles(RolesGranted(u, f)) : f \in FolderId}}
  OBVIOUS
<1>2. \A f \in FolderId : AddFromRoles(RolesGranted(u, f)) \subseteq all /\ Permissions("owner") \subseteq all
  BY <1>1
<1>3. PICK step : step = [x \in FolderId \X SUBSET all |->
                            IF owner[x[1]] = u THEN Permissions("owner")
                            ELSE AddFromRoles(RolesGranted(u, x[1])) \cup x[2]]
  OBVIOUS
<1>4. step \in [FolderId \X SUBSET all -> SUBSET all]
  BY <1>2, <1>3
<1>5. PICK e \in [FolderId -> SUBSET all] : Walks(e, step, {})
  BY <1>4, WalkExists
<1>6. \A f \in FolderId : parent[f] \in FolderId \cup {Root}
  BY DEF TypeOK
<1>7. IsCollected(u, e)
  <2>1. ASSUME NEW f \in FolderId
        PROVE  e[f] = IF IsOwner(u, f) THEN Permissions("owner")
                      ELSE AddFromRoles(RolesGranted(u, f)) \cup CollectParentPermissions(f, e)
    <3>1. CollectParentPermissions(f, e) = (IF parent[f] = Root THEN {} ELSE e[parent[f]])
      BY DEF CollectParentPermissions, FindParent
    <3>2. CollectParentPermissions(f, e) \in SUBSET all
      BY <1>5, <1>6, <3>1
    <3>3. e[f] = step[<<f, CollectParentPermissions(f, e)>>]
      BY <1>5, <3>1 DEF Walks
    <3> QED
      BY <1>3, <3>2, <3>3 DEF IsOwner, Exists
  <2> QED
    BY <1>5, <2>1 DEF IsCollected
<1>8. PICK z : IsCollected(u, z) /\ \A f : CollectPermissions(u, f) = z[f]
  BY <1>7 DEF CollectPermissions, IsCollected
<1>9. \A f \in FolderId : z[f] = IF IsOwner(u, f) THEN Permissions("owner")
                                 ELSE AddFromRoles(RolesGranted(u, f)) \cup CollectParentPermissions(f, z)
  BY <1>8 DEF IsCollected
<1> QED
  BY <1>8, <1>9 DEF IsOwner, Exists, CollectParentPermissions, FindParent

\* What a user may do is what the role comes with that the other walk finds.
WalksAgree ==
  \A u \in User, f \in FolderId : CollectPermissions(u, f) = Permissions(GetEffectiveRole(u, f))

LEMMA SameAnswer == TypeOK /\ WellRanked => WalksAgree
<1> SUFFICES ASSUME TypeOK, WellRanked, NEW u \in User
             PROVE  \A f \in FolderId : CollectPermissions(u, f) = Permissions(GetEffectiveRole(u, f))
  BY DEF WalksAgree
<1>1. EffectiveIs /\ CollectIs
  BY EffectiveWalk, CollectWalk
<1> DEFINE S == {f \in FolderId : CollectPermissions(u, f) = Permissions(GetEffectiveRole(u, f))}
<1>2. ASSUME NEW f \in FolderId, parent[f] # Root => parent[f] \in S PROVE f \in S
  <2>1. CASE owner[f] = u
    BY <1>1, <2>1 DEF EffectiveIs, CollectIs
  <2>2. CASE owner[f] # u
    <3>1. PICK h, above, granted : /\ h = GetEffectiveRole(u, f) /\ above = Above(u, f)
                                   /\ granted = RolesGranted(u, f)
      OBVIOUS
    <3>2. CollectPermissions(u, f) = AddFromRoles(granted) \cup Permissions(above)
      <4>1. (IF parent[f] = Root THEN {} ELSE CollectPermissions(u, parent[f])) = Permissions(above)
        BY <1>2, <3>1 DEF Above, Permissions
      <4> QED
        BY <1>1, <2>2, <3>1, <4>1 DEF CollectIs
    <3>3. /\ h \in Role /\ above \in Role /\ granted \subseteq Role
          /\ h \in granted \cup {above, "none"}
          /\ \A r \in granted \cup {above} : Level[r] <= Level[h]
      BY <1>1, <2>2, <3>1, GrantedRoles, Levels DEF EffectiveIs
    <3>4. AddFromRoles(granted) \cup Permissions(above) \subseteq Permissions(h)
      BY <3>3, PermissionsGrow DEF AddFromRoles
    <3>5. Permissions("none") = {}
      BY DEF Permissions
    <3>6. Permissions(h) \subseteq AddFromRoles(granted) \cup Permissions(above)
      BY <3>3, <3>5 DEF AddFromRoles
    <3> QED
      BY <3>1, <3>2, <3>4, <3>6
  <2> QED
    BY <2>1, <2>2
<1>3. FolderId \subseteq S
  <2> HIDE DEF S
  <2> QED
    BY <1>2, FromTheTop
<1> QED
  BY <1>3

LEMMA Thresholds ==
  ASSUME NEW r \in Role
  PROVE  /\ "permission:grant" \in Permissions(r) <=> Level[r] >= 2
         /\ "permission:revoke" \in Permissions(r) <=> Level[r] >= 2
         /\ "permission:read" \in Permissions(r) <=> Level[r] >= 2
         /\ (\E role \in AllGrantableRoles : CanGrant(r, role)) <=> Level[r] >= 2
         /\ \A p \in {"file:read", "file:write", "file:move_out", "root:delete"} :
              p \in Permissions("owner")
<1> USE DEF Permissions, FilePermissions, FolderPermissions, PermissionPermissions, AllPermissions
<1>1. r \in {"none", "viewer", "contributor", "content_manager", "owner"}
  BY DEF Role, Level
<1>2. /\ Level["none"] = 0 /\ Level["viewer"] = 1 /\ Level["contributor"] = 2
      /\ Level["content_manager"] = 3 /\ Level["owner"] = 4
  BY DEF Level
<1>3. \A p \in {"permission:grant", "permission:revoke", "permission:read"} :
        /\ p \notin Permissions("none") /\ p \notin Permissions("viewer")
        /\ p \in Permissions("contributor") /\ p \in Permissions("content_manager")
        /\ p \in Permissions("owner")
  OBVIOUS
<1>4. \A p \in {"file:read", "file:write", "file:move_out", "root:delete"} : p \in Permissions("owner")
  OBVIOUS
<1> HIDE DEF Permissions
<1>5. \A p \in {"permission:grant", "permission:revoke", "permission:read"} :
        p \in Permissions(r) <=> Level[r] >= 2
  BY <1>1, <1>2, <1>3
<1>6. (\E role \in AllGrantableRoles : CanGrant(r, role)) <=> Level[r] >= 2
  <2>1. ASSUME NEW role \in AllGrantableRoles, CanGrant(r, role) PROVE Level[r] >= 2
    BY <2>1, Levels DEF CanGrant
  <2>2. ASSUME Level[r] >= 2 PROVE CanGrant(r, "viewer") /\ "viewer" \in AllGrantableRoles
    BY <1>2, <2>2, Levels DEF CanGrant, AllGrantableRoles
  <2> QED
    BY <2>1, <2>2
<1> QED
  BY <1>4, <1>5, <1>6

LEMMA Agreement == TypeOK /\ WellRanked => ResolversAgree
<1> SUFFICES ASSUME TypeOK, WellRanked, NEW u \in User, NEW f \in Folders
             PROVE  LET has == CollectPermissions(u, f)
                        mayGrant == {"permission:grant", "permission:revoke"} \subseteq has
                    IN
                    /\ has = Permissions(CheckPermission(u, f, "file:read").role)
                    /\ \A role \in Role : RequireRole(u, f, role) <=> Permissions(role) \subseteq has
                    /\ \A p \in {"file:read", "file:write", "file:move_out", "root:delete"} :
                         RequirePermission(u, f, p) <=> p \in has
                    /\ RequireAnyPermission(u, f, AllPermissions \ Permissions("owner")) <=> RequireOwner(u, f)
                    /\ mayGrant <=> \E role \in AllGrantableRoles : CanGrantRole(u, f, role)
                    /\ mayGrant => ListGrants(u, f) = FindByResource(f)
                    /\ parent[f] # Root => CollectPermissions(u, parent[f]) \subseteq has
  BY DEF ResolversAgree
<1>0. f \in FolderId /\ EffectiveIs /\ WalksAgree /\ CollectIs
  BY EffectiveWalk, SameAnswer, CollectWalk DEF Folders
<1>1. PICK role, has : role = GetEffectiveRole(u, f) /\ has = CollectPermissions(u, f)
  OBVIOUS
<1>2. /\ role \in Role /\ has = Permissions(role)
      /\ owner[f] = u => role = "owner"
  BY <1>0, <1>1 DEF EffectiveIs, WalksAgree
<1>3. has = Permissions(CheckPermission(u, f, "file:read").role)
  BY <1>1, <1>2 DEF CheckPermission
<1>4. \A r \in Role : RequireRole(u, f, r) <=> Permissions(r) \subseteq has
  <2>1. \A r \in Role : Level[r] \in Nat
    BY Levels
  <2>2. \A r \in Role : Level[r] <= Level[role] <=> Permissions(r) \subseteq has
    BY <1>2, PermissionsGrow
  <2> QED
    BY <1>1, <1>2, <2>1, <2>2 DEF RequireRole, Includes
<1>5. \A p \in {"file:read", "file:write", "file:move_out", "root:delete"} :
        RequirePermission(u, f, p) <=> p \in has
  BY <1>1, <1>2, Thresholds DEF RequirePermission, HasPermission, IsOwner, Exists
<1>6. RequireAnyPermission(u, f, AllPermissions \ Permissions("owner")) <=> RequireOwner(u, f)
  <2>1. has \subseteq Permissions("owner")
    BY <1>2, PermissionsGrow
  <2>2. "file:move" \in AllPermissions \ Permissions("owner")
    BY DEF AllPermissions, FilePermissions, FolderPermissions, Permissions
  <2> QED
    BY <1>1, <2>1, <1>2, <2>2 DEF RequireAnyPermission, RequireOwner, HasPermission, IsOwner, Exists
<1>7. {"permission:grant", "permission:revoke"} \subseteq has <=> Level[role] >= 2
  BY <1>2, Thresholds
<1>8. (\E r \in AllGrantableRoles : CanGrantRole(u, f, r)) <=> Level[role] >= 2
  BY <1>1, <1>2, Thresholds DEF CanGrantRole
<1>9. Level[role] >= 2 => ListGrants(u, f) = FindByResource(f)
  BY <1>1, <1>2, Thresholds DEF ListGrants, HasPermission
<1>10. parent[f] # Root => CollectPermissions(u, parent[f]) \subseteq has
  <2> SUFFICES ASSUME parent[f] # Root PROVE CollectPermissions(u, parent[f]) \subseteq has
    OBVIOUS
  <2>1. CASE owner[f] # u
    BY <1>0, <1>1, <2>1 DEF CollectIs
  <2>2. CASE owner[f] = u
    <3>1. parent[f] \in FolderId
      BY <1>0 DEF TypeOK
    <3>2. GetEffectiveRole(u, parent[f]) \in Role
      BY <1>0, <3>1 DEF EffectiveIs
    <3>3. CollectPermissions(u, parent[f]) = Permissions(GetEffectiveRole(u, parent[f]))
      BY <1>0, <3>1 DEF WalksAgree
    <3> QED
      BY <1>2, <2>2, <3>2, <3>3, PermissionsGrow
  <2> QED
    BY <2>1, <2>2
<1> QED
  BY <1>1, <1>3, <1>4, <1>5, <1>6, <1>7, <1>8, <1>9, <1>10

-----------------------------------------------------------------------------
(* What the steps keep *)

\* Only what was created has a place in the tree, and requests act on nothing else.
Linked ==
  /\ \A f \in FolderId : parent[f] # Root => {f, parent[f]} \subseteq Folders
  /\ \A r \in Req : req[r].at \in {"grant", "create"} => req[r].on \in Folders

\* Who is to write a grant of a content manager owns the folder, or one above.
OwnersAsk ==
  \A r \in Req, u \in User, f \in FolderId :
    /\ req[r].at = "grant" /\ req[r].role = "content_manager" /\ req[r].by = u /\ req[r].on = f
    => GetEffectiveRole(u, f) = "owner"

\* As long as requests do not overlap, the one that is under way may still do
\* what it was permitted to.
Alone ==
  /\ \A r, q \in Req : req[r] # Idle /\ req[q] # Idle => r = q
  /\ \A r \in Req, u \in User, f \in FolderId, role \in AllGrantableRoles :
       req[r].at = "grant" /\ req[r].by = u /\ req[r].on = f /\ req[r].role = role
         => CanGrantRole(u, f, role)
  /\ \A r \in Req, u \in User :
       req[r].at = "revoke" /\ req[r].by = u
         => \E g \in grants : g.id = req[r].id /\ CanGrantRole(u, g.on, g.role)

Structure == TypeOK /\ Linked /\ WellRanked

PermissionsInv ==
  Structure /\ OwnersAsk /\ ContentManagerFromOwner /\ (~overlap => Alone)

LEMMA RequestShape ==
  ASSUME TypeOK, NEW r \in Req
  PROVE  /\ req[r] = Idle <=> req[r].at = "idle"
         /\ req[r].at \in {"idle", "grant", "revoke", "create"}
         /\ req[r].at \in {"grant", "create"} => req[r].by \in User /\ req[r].on \in FolderId
         /\ req[r].at = "grant" => req[r].to \in Grantee /\ req[r].role \in AllGrantableRoles
         /\ req[r].at = "revoke" => req[r].by \in User /\ req[r].id \in 1..MaxGrants
BY DEF TypeOK, Request, Idle

LEMMA InitStructure == Init => Structure
<1> SUFFICES ASSUME Init PROVE Structure
  OBVIOUS
<1>1. TypeOK
  <2>1. owner \in [FolderId -> User \cup {Unborn}] /\ parent \in [FolderId -> FolderId \cup {Root}]
    BY PermissionsAssumption DEF Init
  <2>2. made \in 0..MaxGrants
    BY PermissionsAssumption DEF Init
  <2>3. overlap \in BOOLEAN
    BY Zenon DEF Init
  <2> QED
    BY <2>1, <2>2, <2>3 DEF Init, TypeOK
<1>2. Linked
  BY DEF Init, Linked, Idle
<1>3. WellRanked
  <2>1. PICK rank : rank = [f \in FolderId |-> 0]
    OBVIOUS
  <2>2. rank \in [FolderId -> 0..0] /\ Ranked(rank)
    BY <2>1 DEF Init, Ranked
  <2> QED
    BY <2>2 DEF WellRanked
<1> QED
  BY <1>1, <1>2, <1>3 DEF Structure

\* A step that leaves the rows of relationships alone.
LEMMA QuietStructure ==
  ASSUME Structure, TypeOK', UNCHANGED <<owner, parent>>,
         \A r \in Req : req'[r].at \in {"grant", "create"} => req'[r].on \in Folders
  PROVE  Structure'
<1>1. Linked'
  BY DEF Structure, Linked, Folders
<1>2. WellRanked'
  BY DEF Structure, WellRanked, Ranked
<1> QED
  BY <1>1, <1>2 DEF Structure

LEMMA CreateStructure ==
  ASSUME Structure, NEW r \in Req, CreateCommit(r)
  PROVE  Structure'
<1>0. TypeOK /\ Linked /\ WellRanked
  BY DEF Structure
<1>1. PICK f \in FolderId \ Folders : InsertRelationships(req[r].by, f, req[r].on)
  BY DEF CreateCommit
<1>2. PICK u, above : u = req[r].by /\ above = req[r].on
  OBVIOUS
<1>3. /\ owner' = [owner EXCEPT ![f] = u] /\ parent' = [parent EXCEPT ![f] = above]
      /\ u \in User /\ above \in Folders /\ above \in FolderId /\ req' = [req EXCEPT ![r] = Idle]
      /\ UNCHANGED <<grants, member, made, overlap>>
  BY <1>0, <1>1, <1>2, RequestShape DEF InsertRelationships, Linked, CreateCommit, Become, Folders
<1>4. Folders' = Folders \cup {f}
  BY <1>0, <1>1, <1>3, PermissionsAssumption DEF Folders, TypeOK
<1>5. TypeOK'
  BY <1>0, <1>1, <1>3, <1>4 DEF TypeOK
<1>6. Linked'
  <2>1. \A x \in FolderId : parent'[x] # Root => {x, parent'[x]} \subseteq Folders'
    BY <1>0, <1>1, <1>3, <1>4 DEF Linked, TypeOK
  <2>2. \A q \in Req : req'[q].at \in {"grant", "create"} => req'[q].on \in Folders'
    BY <1>0, <1>3, <1>4 DEF Linked, TypeOK, Idle
  <2> QED
    BY <2>1, <2>2 DEF Linked
<1>7. WellRanked'
  <2>1. PICK n \in Nat : \E rank \in [FolderId -> 0..n] : Ranked(rank)
    BY <1>0 DEF WellRanked
  <2>2. PICK rank \in [FolderId -> 0..n] : Ranked(rank)
    BY <2>1
  <2>3. PICK deeper : deeper = [rank EXCEPT ![f] = rank[above] + 1]
    OBVIOUS
  <2>4. deeper \in [FolderId -> 0..(n + 1)]
    BY <1>3, <2>1, <2>2, <2>3
  <2>5. \A x \in FolderId : parent[x] # Root => parent[x] # f /\ x # f
    BY <1>0, <1>1 DEF Linked
  <2>6. \A x \in FolderId : parent'[x] # Root =>
          parent'[x] \in FolderId /\ deeper[parent'[x]] < deeper[x]
    <3> SUFFICES ASSUME NEW x \in FolderId, parent'[x] # Root
                 PROVE  parent'[x] \in FolderId /\ deeper[parent'[x]] < deeper[x]
      OBVIOUS
    <3>1. CASE x = f
      <4>1. parent'[x] = above /\ above # f
        BY <1>0, <1>1, <1>3, <3>1 DEF TypeOK
      <4>2. deeper[above] = rank[above] /\ deeper[x] = rank[above] + 1 /\ rank[above] \in Nat
        BY <1>3, <2>2, <2>3, <3>1, <4>1
      <4> QED
        BY <1>3, <4>1, <4>2
    <3>2. CASE x # f
      <4>1. parent'[x] = parent[x]
        BY <1>0, <1>3, <3>2 DEF TypeOK
      <4>2. parent[x] \in FolderId /\ rank[parent[x]] < rank[x] /\ parent[x] # f
        BY <2>2, <2>5, <4>1 DEF Ranked
      <4> QED
        BY <2>2, <2>3, <3>2, <4>1, <4>2
    <3> QED
      BY <3>1, <3>2
  <2>7. n + 1 \in Nat /\ Ranked(deeper)'
    BY <2>1, <2>6 DEF Ranked
  <2> QED
    BY <2>4, <2>7 DEF WellRanked
<1> QED
  BY <1>5, <1>6, <1>7 DEF Structure

LEMMA NextStructure == Structure /\ [Next]_vars => Structure'
<1> SUFFICES ASSUME Structure, [Next]_vars PROVE Structure'
  OBVIOUS
<1>0. TypeOK /\ Linked
  BY DEF Structure
<1>1. ASSUME NEW r \in Req, NEW u \in User, NEW f \in Folders, NEW to \in Grantee,
             NEW role \in AllGrantableRoles, GrantCheck(r, u, f, to, role)
      PROVE  Structure'
  <2>1. PICK q : /\ q = [at |-> "grant", by |-> u, on |-> f, to |-> to, role |-> role]
                 /\ Begin(r, q)
    BY <1>1 DEF GrantCheck
  <2>2. q \in Request /\ q.at = "grant" /\ q.on \in Folders
    BY <2>1 DEF Request, Folders
  <2>3. TypeOK'
    BY <1>0, <2>1, <2>2 DEF TypeOK, Begin, Become, Folders, Busy
  <2> QED
    BY <1>0, <2>1, <2>2, <2>3, QuietStructure DEF Begin, Become, TypeOK, Linked
<1>2. ASSUME NEW r \in Req, GrantCommit(r) PROVE Structure'
  <2>1. PICK g : g = NewPermissionGrant(req[r])
    OBVIOUS
  <2>2. /\ made \in Nat /\ made + 1 \in 1..MaxGrants
        /\ g.id = made + 1 /\ SameGrant(g, req[r])
        /\ g \in PermissionGrant /\ g.on \in Folders
    BY <1>0, <1>2, <2>1, RequestShape, PermissionsAssumption
       DEF GrantCommit, NewPermissionGrant, PermissionGrant, Linked, TypeOK, SameGrant
  <2>3. \A h \in grants : h.id # g.id /\ ~SameGrant(h, g) /\ ~SameGrant(g, h)
    BY <1>0, <1>2, <2>2 DEF GrantCommit, MayInsert, TypeOK, PermissionGrant, SameGrant
  <2>4. grants' = grants \cup {g} /\ made' = made + 1 /\ req' = [req EXCEPT ![r] = Idle]
        /\ UNCHANGED <<owner, parent, member, overlap>>
    BY <1>2, <2>1 DEF GrantCommit, Become
  <2>5. TypeOK'
    <3>1. grants' \subseteq PermissionGrant /\ made' \in 0..MaxGrants
      BY <1>0, <2>2, <2>4 DEF TypeOK
    <3>2. \A h, i \in grants' : h.id = i.id \/ SameGrant(h, i) => h = i
      BY <1>0, <2>3, <2>4 DEF TypeOK
    <3>3. \A h \in grants' : h.on \in Folders' /\ h.id <= made'
      BY <1>0, <2>2, <2>4 DEF TypeOK, Folders, PermissionGrant
    <3> QED
      BY <1>0, <2>4, <3>1, <3>2, <3>3 DEF TypeOK, SameGrant
  <2> QED
    BY <1>0, <2>4, <2>5, QuietStructure DEF TypeOK, Linked, Idle
<1>3. ASSUME NEW r \in Req, NEW u \in User, NEW id \in 1..made, RevokeCheck(r, u, id)
      PROVE  Structure'
  <2>1. PICK q : q = [at |-> "revoke", by |-> u, id |-> id] /\ Begin(r, q)
    BY <1>3 DEF RevokeCheck
  <2>2. q \in Request /\ q.at = "revoke"
    BY <1>0, <2>1, PermissionsAssumption DEF Request, TypeOK
  <2>3. TypeOK'
    BY <1>0, <2>1, <2>2 DEF TypeOK, Begin, Become, Folders, Busy
  <2> QED
    BY <1>0, <2>1, <2>2, <2>3, QuietStructure DEF Begin, Become, TypeOK, Linked
<1>4. ASSUME NEW r \in Req, RevokeCommit(r) PROVE Structure'
  <2>1. TypeOK'
    BY <1>0, <1>4 DEF TypeOK, RevokeCommit, Become, Delete, Folders
  <2> QED
    BY <1>0, <1>4, <2>1, QuietStructure DEF RevokeCommit, Become, TypeOK, Linked, Idle
<1>5. ASSUME NEW r \in Req, NEW u \in User, NEW f \in Folders, CreateCheck(r, u, f)
      PROVE  Structure'
  <2>1. PICK q : q = [at |-> "create", by |-> u, on |-> f] /\ Begin(r, q)
    BY <1>5 DEF CreateCheck
  <2>2. q \in Request /\ q.at = "create" /\ q.on \in Folders
    BY <2>1 DEF Request, Folders
  <2>3. TypeOK'
    BY <1>0, <2>1, <2>2 DEF TypeOK, Begin, Become, Folders, Busy
  <2> QED
    BY <1>0, <2>1, <2>2, <2>3, QuietStructure DEF Begin, Become, TypeOK, Linked
<1>6. ASSUME NEW r \in Req, Refuse(r) PROVE Structure'
  <2>1. TypeOK'
    BY <1>0, <1>6 DEF TypeOK, Refuse, Become, Folders
  <2> QED
    BY <1>0, <1>6, <2>1, QuietStructure DEF Refuse, Become, TypeOK, Linked, Idle
<1>7. ASSUME NEW m \in Group \X User, ChangeMember(m) PROVE Structure'
  <2>1. TypeOK'
    BY <1>0, <1>7 DEF TypeOK, ChangeMember, Folders, Busy
  <2> QED
    BY <1>0, <1>7, <2>1, QuietStructure DEF ChangeMember, Linked
<1>8. CASE UNCHANGED vars
  <2>1. TypeOK'
    BY <1>0, <1>8 DEF TypeOK, vars, Folders
  <2> QED
    BY <1>0, <1>8, <2>1, QuietStructure DEF vars, Linked
<1>9. ASSUME NEW r \in Req, CreateCommit(r) PROVE Structure'
  BY <1>9, CreateStructure
<1> QED
  BY <1>1, <1>2, <1>3, <1>4, <1>5, <1>6, <1>7, <1>8, <1>9
     DEF Next, GrantRole, RevokeGrant, CreateFolder

LEMMA EffectiveThen == Structure /\ [Next]_vars => EffectiveIs /\ EffectiveIs'
<1>1. Structure => EffectiveIs
  BY EffectiveWalk DEF Structure
<1> QED
  BY <1>1, NextStructure, PTL

\* Ownership is inherited, and not lost.
LEMMA OwnersStay ==
  ASSUME Structure, EffectiveIs, EffectiveIs',
         \A f \in Folders : owner'[f] = owner[f] /\ parent'[f] = parent[f]
  PROVE  \A u \in User, f \in Folders :
           GetEffectiveRole(u, f) = "owner" => GetEffectiveRole(u, f)' = "owner"
<1> SUFFICES ASSUME NEW u \in User
             PROVE  \A f \in Folders :
                      GetEffectiveRole(u, f) = "owner" => GetEffectiveRole(u, f)' = "owner"
  OBVIOUS
<1>0. TypeOK /\ Linked /\ WellRanked
  BY DEF Structure
<1>1. PICK S : S = {f \in FolderId : f \in Folders /\ GetEffectiveRole(u, f) = "owner"
                                       => GetEffectiveRole(u, f)' = "owner"}
  OBVIOUS
<1>2. ASSUME NEW f \in FolderId, parent[f] # Root => parent[f] \in S,
             f \in Folders, GetEffectiveRole(u, f) = "owner"
      PROVE  GetEffectiveRole(u, f)' = "owner"
  <2>1. CASE owner[f] = u
    BY <1>2, <2>1 DEF EffectiveIs
  <2>2. CASE owner[f] # u
    <3>1. GetEffectiveRole(u, f) \notin RolesGranted(u, f)
      BY <1>0, <1>2, GrantedRoles DEF AllGrantableRoles
    <3>2. Above(u, f) = "owner"
      BY <1>2, <2>2, <3>1 DEF EffectiveIs
    <3>3. parent[f] # Root /\ parent[f] \in Folders /\ GetEffectiveRole(u, parent[f]) = "owner"
      BY <1>0, <1>2, <3>2 DEF Above, Linked
    <3>4. PICK p : p = parent[f]
      OBVIOUS
    <3>5. GetEffectiveRole(u, p)' = "owner" /\ p \in FolderId
      BY <1>1, <1>2, <3>3, <3>4 DEF Folders
    <3>6. Above(u, f)' = "owner"
      BY <1>2, <3>3, <3>4, <3>5 DEF Above
    <3>7. PICK h : h = GetEffectiveRole(u, f)'
      OBVIOUS
    <3>8. h \in Role /\ Level["owner"] <= Level[h]
      BY <1>2, <2>2, <3>6, <3>7 DEF EffectiveIs
    <3> QED
      BY <3>7, <3>8, Levels
  <2> QED
    BY <2>1, <2>2
<1>3. FolderId \subseteq S
  BY <1>0, <1>1, <1>2, FromTheTop
<1> QED
  BY <1>1, <1>3 DEF Folders

\* h is the highest of the roles granted and the role above.
Tops(h, granted, above) ==
  /\ granted \subseteq Role /\ above \in Role
  /\ h \in granted \cup {above, "none"}
  /\ \A r \in granted \cup {above} : Level[r] <= Level[h]

\* Two collections of roles that agree above a level have the same highest role,
\* unless neither has one above that level.
LEMMA SameHighest ==
  ASSUME NEW k \in Nat, NEW R, NEW R2, NEW a, NEW a2, NEW h, NEW h2,
         Tops(h, R, a), Tops(h2, R2, a2),
         \A r \in Role : Level[r] > k => (r \in R <=> r \in R2),
         a = a2 \/ (Level[a] <= k /\ Level[a2] <= k)
  PROVE  h = h2 \/ (Level[h] <= k /\ Level[h2] <= k)
<1>1. h \in Role /\ h2 \in Role /\ a \in Role /\ a2 \in Role /\ \A r \in Role : Level[r] \in Nat
  BY Levels DEF Tops
<1>2. Level[h] > k => Level[h] <= Level[h2]
  BY <1>1, Levels DEF Tops
<1>3. Level[h2] > k => Level[h2] <= Level[h]
  BY <1>1, Levels DEF Tops
<1>4. Level[h] = Level[h2] => h = h2
  BY <1>1, Levels
<1> QED
  BY <1>1, <1>2, <1>3, <1>4

LEMMA OneFolder ==
  ASSUME TypeOK, TypeOK', EffectiveIs, EffectiveIs', NEW k \in Nat, NEW v \in User, NEW f \in FolderId,
         owner'[f] = owner[f],
         \A r \in Role : Level[r] > k => (r \in RolesGranted(v, f)' <=> r \in RolesGranted(v, f)),
         \/ Above(v, f)' = Above(v, f)
         \/ Level[Above(v, f)] <= k /\ Level[Above(v, f)'] <= k
  PROVE  \/ GetEffectiveRole(v, f)' = GetEffectiveRole(v, f)
         \/ Level[GetEffectiveRole(v, f)] <= k /\ Level[GetEffectiveRole(v, f)'] <= k
<1>1. PICK h, h2, a, a2, R, R2 :
        /\ h = GetEffectiveRole(v, f) /\ h2 = GetEffectiveRole(v, f)'
        /\ a = Above(v, f) /\ a2 = Above(v, f)'
        /\ R = RolesGranted(v, f) /\ R2 = RolesGranted(v, f)'
  OBVIOUS
<1>2. CASE owner[f] = v
  BY <1>2 DEF EffectiveIs
<1>3. CASE owner[f] # v
  <2>1. Tops(h, R, a)
    BY <1>1, <1>3, GrantedRoles, Levels DEF EffectiveIs, Tops
  <2>2. Tops(h2, R2, a2)
    <3>1. R2 \subseteq AllGrantableRoles
      BY <1>1 DEF TypeOK, RolesGranted, FindByResourceAndGrantee, CollectGroupPermissions, PermissionGrant
    <3> QED
      BY <1>1, <1>3, <3>1, Levels DEF EffectiveIs, Tops
  <2>5. \A r \in Role : Level[r] > k => (r \in R <=> r \in R2)
    BY <1>1
  <2>6. a = a2 \/ (Level[a] <= k /\ Level[a2] <= k)
    BY <1>1
  <2>7. h = h2 \/ (Level[h] <= k /\ Level[h2] <= k)
    BY <2>1, <2>2, <2>5, <2>6, SameHighest
  <2> QED
    BY <1>1, <2>7
<1> QED
  BY <1>2, <1>3

\* A step after which every folder grants the same roles above a level changes
\* no role above that level, however the roles are inherited.
LEMMA HighRolesStay ==
  ASSUME Structure, TypeOK', EffectiveIs, EffectiveIs', UNCHANGED <<owner, parent>>, NEW k \in Nat,
         \A v \in User, f \in FolderId : \A r \in Role :
           Level[r] > k => (r \in RolesGranted(v, f)' <=> r \in RolesGranted(v, f))
  PROVE  \A v \in User, f \in FolderId :
           \/ GetEffectiveRole(v, f)' = GetEffectiveRole(v, f)
           \/ Level[GetEffectiveRole(v, f)] <= k /\ Level[GetEffectiveRole(v, f)'] <= k
<1> SUFFICES ASSUME NEW v \in User
             PROVE  \A f \in FolderId :
                      \/ GetEffectiveRole(v, f)' = GetEffectiveRole(v, f)
                      \/ Level[GetEffectiveRole(v, f)] <= k /\ Level[GetEffectiveRole(v, f)'] <= k
  OBVIOUS
<1>0. TypeOK /\ Linked /\ WellRanked
  BY DEF Structure
<1>1. PICK S : S = {f \in FolderId :
                      \/ GetEffectiveRole(v, f)' = GetEffectiveRole(v, f)
                      \/ Level[GetEffectiveRole(v, f)] <= k /\ Level[GetEffectiveRole(v, f)'] <= k}
  OBVIOUS
<1>2. ASSUME NEW f \in FolderId, parent[f] # Root => parent[f] \in S PROVE f \in S
  <2>1. \/ Above(v, f)' = Above(v, f)
        \/ Level[Above(v, f)] <= k /\ Level[Above(v, f)'] <= k
    <3>1. CASE parent[f] = Root
      BY <3>1 DEF Above
    <3>2. CASE parent[f] # Root
      <4>1. PICK p : p = parent[f]
        OBVIOUS
      <4>2. Above(v, f) = GetEffectiveRole(v, p) /\ Above(v, f)' = GetEffectiveRole(v, p)'
        BY <3>2, <4>1 DEF Above
      <4>3. \/ GetEffectiveRole(v, p)' = GetEffectiveRole(v, p)
            \/ Level[GetEffectiveRole(v, p)] <= k /\ Level[GetEffectiveRole(v, p)'] <= k
        BY <1>1, <1>2, <3>2, <4>1
      <4> QED
        BY <4>2, <4>3
    <3> QED
      BY <3>1, <3>2
  <2>2. \/ GetEffectiveRole(v, f)' = GetEffectiveRole(v, f)
        \/ Level[GetEffectiveRole(v, f)] <= k /\ Level[GetEffectiveRole(v, f)'] <= k
    BY <1>0, <2>1, OneFolder
  <2> QED
    BY <1>1, <2>2
<1>3. FolderId \subseteq S
  BY <1>0, <1>1, <1>2, FromTheTop
<1> QED
  BY <1>1, <1>3

LEMMA SameRolesThere ==
  ASSUME TypeOK, TypeOK', EffectiveIs, EffectiveIs', NEW v \in User, NEW f \in FolderId,
         owner'[f] = owner[f], RolesGranted(v, f)' = RolesGranted(v, f), Above(v, f)' = Above(v, f)
  PROVE  GetEffectiveRole(v, f)' = GetEffectiveRole(v, f)
<1>1. \/ GetEffectiveRole(v, f)' = GetEffectiveRole(v, f)
      \/ Level[GetEffectiveRole(v, f)] <= 0 /\ Level[GetEffectiveRole(v, f)'] <= 0
  BY OneFolder
<1>2. GetEffectiveRole(v, f) \in Role /\ GetEffectiveRole(v, f)' \in Role
  BY DEF EffectiveIs
<1>3. \A h, g \in Role : Level[h] <= 0 /\ Level[g] <= 0 => h = g
  BY Levels
<1> QED
  BY <1>1, <1>2, <1>3

LEMMA SameRoles ==
  ASSUME Structure, TypeOK', EffectiveIs, EffectiveIs', UNCHANGED <<owner, parent, grants, member>>
  PROVE  \A v \in User, f \in FolderId : GetEffectiveRole(v, f)' = GetEffectiveRole(v, f)
<1>1. \A v \in User, f \in FolderId : RolesGranted(v, f)' = RolesGranted(v, f)
  BY DEF RolesGranted, FindByResourceAndGrantee, CollectGroupPermissions
<1>2. \A v \in User, f \in FolderId :
        \/ GetEffectiveRole(v, f)' = GetEffectiveRole(v, f)
        \/ Level[GetEffectiveRole(v, f)] <= 0 /\ Level[GetEffectiveRole(v, f)'] <= 0
  BY <1>1, HighRolesStay
<1>3. \A h, g \in Role : Level[h] <= 0 /\ Level[g] <= 0 => h = g
  BY Levels
<1>4. \A v \in User, f \in FolderId : GetEffectiveRole(v, f) \in Role /\ GetEffectiveRole(v, f)' \in Role
  BY DEF EffectiveIs
<1> QED
  BY <1>2, <1>3, <1>4

\* One grant more or less of a role below the one somebody has there changes
\* nobody's role who ranks as high as he, there or further down.
LEMMA RoleChange ==
  ASSUME Structure, TypeOK', EffectiveIs, EffectiveIs', UNCHANGED <<owner, parent>>,
         NEW u \in User, NEW on \in FolderId, NEW role \in AllGrantableRoles,
         Level[role] < Level[GetEffectiveRole(u, on)],
         \A v \in User, f \in FolderId : f # on => RolesGranted(v, f)' = RolesGranted(v, f),
         \A v \in User : \A r \in Role :
           r # role => (r \in RolesGranted(v, on)' <=> r \in RolesGranted(v, on))
  PROVE  \A v \in User, f \in FolderId :
           Level[GetEffectiveRole(v, f)] >= Level[GetEffectiveRole(u, f)]
             => GetEffectiveRole(v, f)' = GetEffectiveRole(v, f)
<1>0. TypeOK /\ Linked /\ WellRanked
  BY DEF Structure
<1>1. PICK k : k = Level[role]
  OBVIOUS
<1>2. k \in Nat /\ k < 4
  BY <1>1, Levels
<1>3. \A v \in User, f \in FolderId : \A r \in Role :
        Level[r] > k => (r \in RolesGranted(v, f)' <=> r \in RolesGranted(v, f))
  <2> SUFFICES ASSUME NEW v \in User, NEW f \in FolderId, NEW r \in Role, Level[r] > k
               PROVE  r \in RolesGranted(v, f)' <=> r \in RolesGranted(v, f)
    OBVIOUS
  <2>1. r # role
    BY <1>1, <1>2
  <2>2. CASE f = on
    BY <2>1, <2>2
  <2>3. CASE f # on
    BY <2>3
  <2> QED
    BY <2>2, <2>3
<1>4. \A v \in User, f \in FolderId :
        \/ GetEffectiveRole(v, f)' = GetEffectiveRole(v, f)
        \/ Level[GetEffectiveRole(v, f)] <= k /\ Level[GetEffectiveRole(v, f)'] <= k
  BY <1>2, <1>3, HighRolesStay
<1>5. PICK S : S = {f \in FolderId :
                      \/ Level[GetEffectiveRole(u, f)] > k
                      \/ \A v \in User : GetEffectiveRole(v, f)' = GetEffectiveRole(v, f)}
  OBVIOUS
<1>6. ASSUME NEW f \in FolderId, parent[f] # Root => parent[f] \in S PROVE f \in S
  <2>1. CASE f = on
    BY <1>1, <1>2, <1>5, <2>1, Levels DEF EffectiveIs
  <2>2. CASE f # on /\ parent[f] = Root
    <3>1. \A v \in User : Above(v, f)' = Above(v, f)
      BY <2>2 DEF Above
    <3>2. \A v \in User : GetEffectiveRole(v, f)' = GetEffectiveRole(v, f)
      BY <1>0, <2>2, <3>1, SameRolesThere
    <3> QED
      BY <1>5, <3>2
  <2>3. CASE f # on /\ parent[f] # Root
    <3>1. PICK p : p = parent[f]
      OBVIOUS
    <3>2. \A v \in User : Above(v, f) = GetEffectiveRole(v, p) /\ Above(v, f)' = GetEffectiveRole(v, p)'
      BY <2>3, <3>1 DEF Above
    <3>3. CASE Level[GetEffectiveRole(u, p)] > k
      <4>1. PICK h, a : h = GetEffectiveRole(u, f) /\ a = Above(u, f)
        OBVIOUS
      <4>2. h \in Role /\ a \in Role /\ Level[a] > k /\ (h = "owner" \/ Level[a] <= Level[h])
        BY <3>2, <3>3, <4>1 DEF EffectiveIs
      <4>3. Level[h] > k
        BY <1>2, <4>2, Levels
      <4> QED
        BY <1>5, <4>1, <4>3
    <3>4. CASE \A v \in User : GetEffectiveRole(v, p)' = GetEffectiveRole(v, p)
      <4>1. \A v \in User : GetEffectiveRole(v, f)' = GetEffectiveRole(v, f)
        BY <1>0, <2>3, <3>2, <3>4, SameRolesThere
      <4> QED
        BY <1>5, <4>1
    <3> QED
      BY <1>5, <1>6, <2>3, <3>1, <3>3, <3>4
  <2> QED
    BY <2>1, <2>2, <2>3
<1>7. FolderId \subseteq S
  BY <1>0, <1>6, FromTheTop
<1> SUFFICES ASSUME NEW v \in User, NEW f \in FolderId,
                    Level[GetEffectiveRole(v, f)] >= Level[GetEffectiveRole(u, f)]
             PROVE  GetEffectiveRole(v, f)' = GetEffectiveRole(v, f)
  OBVIOUS
<1>8. PICK h, g : h = GetEffectiveRole(v, f) /\ g = GetEffectiveRole(u, f)
  OBVIOUS
<1>9. Level[h] \in Nat /\ Level[g] \in Nat /\ Level[h] >= Level[g]
  BY <1>8, Levels DEF EffectiveIs
<1>10. Level[g] > k \/ GetEffectiveRole(v, f)' = GetEffectiveRole(v, f)
  BY <1>5, <1>7, <1>8
<1> QED
  BY <1>2, <1>4, <1>8, <1>9, <1>10

-----------------------------------------------------------------------------
(* The invariant *)

\* What was given by an owner stays so, and what is new comes from one.
LEMMA OwnersKept ==
  ASSUME Structure, OwnersAsk, ContentManagerFromOwner, EffectiveIs, EffectiveIs',
         \A f \in Folders : owner'[f] = owner[f] /\ parent'[f] = parent[f],
         \A r \in Req, u \in User, f \in FolderId :
           req'[r] # req[r] /\ req'[r].at = "grant" /\ req'[r].role = "content_manager"
             /\ req'[r].by = u /\ req'[r].on = f
             => f \in Folders /\ GetEffectiveRole(u, f) = "owner",
         \A g \in grants' :
           g \notin grants => /\ g.by \in User /\ g.on \in Folders
                              /\ g.role = "content_manager" => GetEffectiveRole(g.by, g.on) = "owner"
  PROVE  OwnersAsk' /\ ContentManagerFromOwner'
<1>1. \A u \in User, f \in Folders :
        GetEffectiveRole(u, f) = "owner" => GetEffectiveRole(u, f)' = "owner"
  BY OwnersStay
<1>2. OwnersAsk'
  <2> SUFFICES ASSUME NEW r \in Req, NEW u \in User, NEW f \in FolderId,
                      req'[r].at = "grant", req'[r].role = "content_manager",
                      req'[r].by = u, req'[r].on = f
               PROVE  GetEffectiveRole(u, f)' = "owner"
    BY DEF OwnersAsk
  <2>1. f \in Folders /\ GetEffectiveRole(u, f) = "owner"
    BY DEF OwnersAsk, Structure, Linked
  <2> QED
    BY <1>1, <2>1
<1>3. ContentManagerFromOwner'
  <2> SUFFICES ASSUME NEW g \in grants', g.role = "content_manager"
               PROVE  GetEffectiveRole(g.by, g.on)' = "owner"
    BY DEF ContentManagerFromOwner
  <2>1. PICK u, f : u = g.by /\ f = g.on
    OBVIOUS
  <2>2. u \in User /\ f \in Folders /\ GetEffectiveRole(u, f) = "owner"
    BY <2>1 DEF ContentManagerFromOwner, Structure, TypeOK, PermissionGrant
  <2> QED
    BY <1>1, <2>1, <2>2
<1> QED
  BY <1>2, <1>3

LEMMA NextOwners ==
  ASSUME Structure, OwnersAsk, ContentManagerFromOwner, EffectiveIs, EffectiveIs', [Next]_vars
  PROVE  OwnersAsk' /\ ContentManagerFromOwner'
<1>0. TypeOK /\ Linked
  BY DEF Structure
<1> DEFINE RowsKept == \A f \in Folders : owner'[f] = owner[f] /\ parent'[f] = parent[f]
           Asked == \A r \in Req, u \in User, f \in FolderId :
             req'[r] # req[r] /\ req'[r].at = "grant" /\ req'[r].role = "content_manager"
               /\ req'[r].by = u /\ req'[r].on = f
               => f \in Folders /\ GetEffectiveRole(u, f) = "owner"
           Given == \A g \in grants' :
             g \notin grants => /\ g.by \in User /\ g.on \in Folders
                                /\ g.role = "content_manager" => GetEffectiveRole(g.by, g.on) = "owner"
<1>1. ASSUME NEW r \in Req, NEW u \in User, NEW f \in Folders, NEW to \in Grantee,
             NEW role \in AllGrantableRoles, GrantCheck(r, u, f, to, role)
      PROVE  RowsKept /\ Asked /\ Given
  <2>1. PICK q : /\ q = [at |-> "grant", by |-> u, on |-> f, to |-> to, role |-> role]
                 /\ Begin(r, q)
    BY <1>1 DEF GrantCheck
  <2>2. q.by = u /\ q.on = f /\ q.role = role
    BY <2>1
  <2>3. role = "content_manager" => GetEffectiveRole(u, f) = "owner"
    <3>1. PICK h : h = GetEffectiveRole(u, f)
      OBVIOUS
    <3>2. h \in Role /\ CanGrant(h, role)
      BY <1>1, <3>1 DEF GrantCheck, CanGrantRole, EffectiveIs, Folders
    <3> QED
      BY <3>1, <3>2, Levels DEF CanGrant, Level
  <2> QED
    BY <1>0, <2>1, <2>2, <2>3 DEF Begin, Become, TypeOK
<1>2. ASSUME NEW r \in Req, GrantCommit(r) PROVE RowsKept /\ Asked /\ Given
  <2>1. PICK g, u, f : g = NewPermissionGrant(req[r]) /\ u = req[r].by /\ f = req[r].on
    OBVIOUS
  <2>2. /\ g.by = u /\ g.on = f /\ g.role = req[r].role
        /\ u \in User /\ f \in Folders /\ f \in FolderId
        /\ g.role = "content_manager" => GetEffectiveRole(u, f) = "owner"
    BY <1>0, <1>2, <2>1, RequestShape DEF GrantCommit, NewPermissionGrant, Linked, OwnersAsk
  <2>3. grants' = grants \cup {g} /\ req' = [req EXCEPT ![r] = Idle] /\ UNCHANGED <<owner, parent>>
    BY <1>2, <2>1 DEF GrantCommit, Become
  <2> QED
    BY <1>0, <2>2, <2>3 DEF TypeOK, Idle
<1>3. ASSUME NEW r \in Req, NEW u \in User, NEW id \in 1..made, RevokeCheck(r, u, id)
      PROVE  RowsKept /\ Asked /\ Given
  BY <1>0, <1>3 DEF RevokeCheck, Begin, Become, TypeOK
<1>4. ASSUME NEW r \in Req, RevokeCommit(r) PROVE RowsKept /\ Asked /\ Given
  BY <1>0, <1>4 DEF RevokeCommit, Delete, Become, TypeOK, Idle
<1>5. ASSUME NEW r \in Req, NEW u \in User, NEW f \in Folders, CreateCheck(r, u, f)
      PROVE  RowsKept /\ Asked /\ Given
  BY <1>0, <1>5 DEF CreateCheck, Begin, Become, TypeOK
<1>6. ASSUME NEW r \in Req, CreateCommit(r) PROVE RowsKept /\ Asked /\ Given
  BY <1>0, <1>6 DEF CreateCommit, InsertRelationships, Become, TypeOK, Folders, Idle
<1>7. ASSUME NEW r \in Req, Refuse(r) PROVE RowsKept /\ Asked /\ Given
  BY <1>0, <1>7 DEF Refuse, Become, TypeOK, Idle
<1>8. ASSUME NEW m \in Group \X User, ChangeMember(m) PROVE RowsKept /\ Asked /\ Given
  BY <1>8 DEF ChangeMember
<1>9. ASSUME UNCHANGED vars PROVE RowsKept /\ Asked /\ Given
  BY <1>9 DEF vars
<1>10. RowsKept /\ Asked /\ Given
  <2> HIDE DEF RowsKept, Asked, Given
  <2> QED
    BY <1>1, <1>2, <1>3, <1>4, <1>5, <1>6, <1>7, <1>8, <1>9
       DEF Next, GrantRole, RevokeGrant, CreateFolder
<1> QED
  BY <1>10, OwnersKept

LEMMA NextAlone ==
  ASSUME Structure, TypeOK', ~overlap => Alone, EffectiveIs, EffectiveIs', [Next]_vars
  PROVE  ~overlap' => Alone'
<1> SUFFICES ASSUME ~overlap' PROVE Alone'
  OBVIOUS
<1>0. TypeOK
  BY DEF Structure
<1> DEFINE Quiet == \A r \in Req : req'[r] = Idle
\* A request begins when no other is under way, and finds the rows as it read them.
<1>1. ASSUME NEW r \in Req, NEW q, Begin(r, q),
             \A u \in User, f \in FolderId, role \in AllGrantableRoles :
               q.at = "grant" /\ q.by = u /\ q.on = f /\ q.role = role => CanGrantRole(u, f, role),
             \A u \in User : q.at = "revoke" /\ q.by = u
               => \E g \in grants : g.id = q.id /\ CanGrantRole(u, g.on, g.role)
      PROVE  Alone'
  <2>1. /\ \A p \in Req : req[p] = Idle
        /\ req' = [req EXCEPT ![r] = q] /\ UNCHANGED <<owner, parent, grants, member>>
    BY <1>1 DEF Begin, Become, Busy
  <2>2. \A v \in User, f \in FolderId : GetEffectiveRole(v, f)' = GetEffectiveRole(v, f)
    BY <2>1, SameRoles
  <2>3. \A v \in User, f \in FolderId, role \in AllGrantableRoles :
          CanGrantRole(v, f, role)' <=> CanGrantRole(v, f, role)
    BY <2>2 DEF CanGrantRole
  <2>4. \A p \in Req : IF p = r THEN req'[p] = q ELSE req'[p] = Idle
    BY <1>0, <2>1 DEF TypeOK
  <2>5. \A u \in User, f \in FolderId, role \in AllGrantableRoles :
          q.at = "grant" /\ q.by = u /\ q.on = f /\ q.role = role => CanGrantRole(u, f, role)'
    BY <1>1, <2>3
  <2>6. ASSUME NEW u \in User, q.at = "revoke", q.by = u
        PROVE  \E g \in grants' : g.id = q.id /\ CanGrantRole(u, g.on, g.role)'
    <3>1. PICK g \in grants : g.id = q.id /\ CanGrantRole(u, g.on, g.role)
      BY <1>1, <2>6
    <3>2. PICK f, role : f = g.on /\ role = g.role
      OBVIOUS
    <3>3. f \in FolderId /\ role \in AllGrantableRoles
      BY <1>0, <3>2 DEF TypeOK, PermissionGrant
    <3>4. CanGrantRole(u, f, role)'
      BY <2>3, <3>1, <3>2, <3>3
    <3> QED
      BY <2>1, <3>1, <3>2, <3>4
  <2> QED
    BY <2>4, <2>5, <2>6 DEF Alone, Idle
<1>2. ASSUME Quiet PROVE Alone'
  BY <1>2 DEF Alone, Idle
<1>3. ASSUME NEW r \in Req, NEW u \in User, NEW f \in Folders, NEW to \in Grantee,
             NEW role \in AllGrantableRoles, GrantCheck(r, u, f, to, role)
      PROVE  Alone'
  <2>1. PICK q : /\ q = [at |-> "grant", by |-> u, on |-> f, to |-> to, role |-> role]
                 /\ Begin(r, q)
    BY <1>3 DEF GrantCheck
  <2>2. q.at = "grant" /\ q.by = u /\ q.on = f /\ q.role = role /\ CanGrantRole(u, f, role)
    BY <1>3, <2>1 DEF GrantCheck
  <2> QED
    BY <1>1, <2>1, <2>2
<1>4. ASSUME NEW r \in Req, NEW u \in User, NEW id \in 1..made, RevokeCheck(r, u, id)
      PROVE  Alone'
  <2>1. PICK q, g : /\ q = [at |-> "revoke", by |-> u, id |-> id] /\ Begin(r, q)
                    /\ g \in grants /\ g.id = id /\ CanGrantRole(u, g.on, g.role)
    BY <1>4 DEF RevokeCheck, FindByID
  <2>2. q.at = "revoke" /\ q.by = u /\ q.id = id
    BY <2>1
  <2> QED
    BY <1>1, <2>1, <2>2
<1>5. ASSUME NEW r \in Req, NEW u \in User, NEW f \in Folders, CreateCheck(r, u, f)
      PROVE  Alone'
  <2>1. PICK q : q = [at |-> "create", by |-> u, on |-> f] /\ Begin(r, q)
    BY <1>5 DEF CreateCheck
  <2>2. q.at = "create"
    BY <2>1
  <2> QED
    BY <1>1, <2>1, <2>2
\* It ends, and none is under way.
<1>6. ASSUME NEW r \in Req, GrantCommit(r) \/ RevokeCommit(r) \/ CreateCommit(r) \/ Refuse(r)
      PROVE  Alone'
  <2>1. req[r] # Idle /\ req' = [req EXCEPT ![r] = Idle] /\ overlap' = overlap
    BY <1>6 DEF GrantCommit, RevokeCommit, CreateCommit, Refuse, Become, Idle
  <2>2. Quiet
    BY <1>0, <2>1 DEF TypeOK, Alone
  <2> QED
    BY <1>2, <2>2
<1>7. ASSUME NEW m \in Group \X User, ChangeMember(m) PROVE Alone'
  <2>1. Quiet
    BY <1>7 DEF ChangeMember, Busy
  <2> QED
    BY <1>2, <2>1
<1>8. ASSUME UNCHANGED vars PROVE Alone'
  <2>1. UNCHANGED <<owner, parent, grants, member, req, overlap>>
    BY <1>8 DEF vars
  <2>2. \A v \in User, f \in FolderId : GetEffectiveRole(v, f)' = GetEffectiveRole(v, f)
    BY <2>1, SameRoles
  <2>3. \A v \in User, f \in FolderId, role \in AllGrantableRoles :
          CanGrantRole(v, f, role)' <=> CanGrantRole(v, f, role)
    BY <2>2 DEF CanGrantRole
  <2>4. \A r \in Req, u \in User, f \in FolderId, role \in AllGrantableRoles :
          req'[r].at = "grant" /\ req'[r].by = u /\ req'[r].on = f /\ req'[r].role = role
            => CanGrantRole(u, f, role)'
    BY <2>1, <2>3 DEF Alone
  <2>5. ASSUME NEW r \in Req, NEW u \in User, req'[r].at = "revoke", req'[r].by = u
        PROVE  \E g \in grants' : g.id = req'[r].id /\ CanGrantRole(u, g.on, g.role)'
    <3>1. PICK g \in grants : g.id = req[r].id /\ CanGrantRole(u, g.on, g.role)
      BY <2>1, <2>5 DEF Alone
    <3>2. PICK f, role : f = g.on /\ role = g.role
      OBVIOUS
    <3>3. f \in FolderId /\ role \in AllGrantableRoles
      BY <1>0, <3>2 DEF TypeOK, PermissionGrant
    <3>4. CanGrantRole(u, f, role)'
      BY <2>3, <3>1, <3>2, <3>3
    <3> QED
      BY <2>1, <3>1, <3>2, <3>4
  <2> QED
    BY <2>1, <2>4, <2>5 DEF Alone
<1> QED
  BY <1>3, <1>4, <1>5, <1>6, <1>7, <1>8 DEF Next, GrantRole, RevokeGrant, CreateFolder

LEMMA InitPermissions == Init => PermissionsInv
<1>1. Init => OwnersAsk /\ ContentManagerFromOwner /\ Alone
  BY DEF Init, OwnersAsk, ContentManagerFromOwner, Alone, Idle
<1> QED
  BY <1>1, InitStructure DEF PermissionsInv

LEMMA NextPermissions == PermissionsInv /\ [Next]_vars => PermissionsInv'
<1> SUFFICES ASSUME PermissionsInv, [Next]_vars PROVE PermissionsInv'
  OBVIOUS
<1>1. Structure /\ Structure' /\ EffectiveIs /\ EffectiveIs'
  BY NextStructure, EffectiveThen DEF PermissionsInv
<1>2. OwnersAsk' /\ ContentManagerFromOwner'
  BY <1>1, NextOwners DEF PermissionsInv
<1>3. ~overlap' => Alone'
  BY <1>1, NextAlone DEF PermissionsInv, Structure
<1> QED
  BY <1>1, <1>2, <1>3 DEF PermissionsInv

-----------------------------------------------------------------------------
(* Theorems *)

\* Folders have one parent each of lower rank, grants are those owners asked for,
\* and a request that runs alone is still allowed what it was allowed at first.
THEOREM PermissionsInvariance == Spec => []PermissionsInv
BY InitPermissions, NextPermissions, PTL DEF Spec

\* Rows and requests are well formed, and no grant is there twice.
THEOREM PermissionsTypeCorrect == Spec => []TypeOK
<1>1. PermissionsInv => TypeOK
  BY DEF PermissionsInv, Structure
<1> QED
  BY <1>1, PermissionsInvariance, PTL

\* The two recursive walks of the resolver agree, for trees of any size and depth
\* and any grants to users and groups, and so do levels and permissions.
THEOREM WalksOfResolverAgree == Spec => []ResolversAgree
<1>1. PermissionsInv => ResolversAgree
  BY Agreement DEF PermissionsInv, Structure
<1> QED
  BY <1>1, PermissionsInvariance, PTL

\* However requests overlap, a grant of a content manager is by somebody who owns
\* the folder or one above it, to this day.
THEOREM ContentManagersAreGivenByOwners == Spec => []ContentManagerFromOwner
<1>1. PermissionsInv => ContentManagerFromOwner
  BY DEF PermissionsInv
<1> QED
  BY <1>1, PermissionsInvariance, PTL

LEMMA GrantChange ==
  ASSUME TypeOK, NEW g, grants' = grants \cup {g} \/ (g \in grants /\ grants' = grants \ {g}),
         UNCHANGED member
  PROVE  /\ \A v \in User, f \in FolderId : f # g.on => RolesGranted(v, f)' = RolesGranted(v, f)
         /\ \A v \in User : \A r \in Role :
              r # g.role => (r \in RolesGranted(v, g.on)' <=> r \in RolesGranted(v, g.on))
<1>1. \A f : f # g.on => FindByResource(f)' = FindByResource(f)
  BY DEF FindByResource
<1>2. ASSUME NEW v \in User, NEW f \in FolderId, f # g.on
      PROVE  RolesGranted(v, f)' = RolesGranted(v, f)
  <2>1. \A to : FindByResourceAndGrantee(f, to)' = FindByResourceAndGrantee(f, to)
    BY <1>2 DEF FindByResourceAndGrantee
  <2>2. CollectGroupPermissions(v, f)' = CollectGroupPermissions(v, f)
    BY <2>1 DEF CollectGroupPermissions
  <2> QED
    BY <2>1, <2>2 DEF RolesGranted
<1>3. ASSUME NEW v \in User, NEW f, f = g.on, NEW r \in Role, r # g.role
      PROVE  r \in RolesGranted(v, f)' <=> r \in RolesGranted(v, f)
  <2>1. \A h : h.role = r => (h \in grants' <=> h \in grants)
    BY <1>3
  <2>2. r \in RolesGranted(v, f) <=>
          \E h \in grants : h.role = r /\ h.on = f /\ (h.to = v \/ \E m \in member : m[2] = v /\ h.to = m[1])
    BY DEF RolesGranted, FindByResourceAndGrantee, CollectGroupPermissions
  <2>3. r \in RolesGranted(v, f)' <=>
          \E h \in grants' : h.role = r /\ h.on = f /\ (h.to = v \/ \E m \in member : m[2] = v /\ h.to = m[1])
    BY DEF RolesGranted, FindByResourceAndGrantee, CollectGroupPermissions
  <2> QED
    BY <2>1, <2>2, <2>3
<1>4. PICK on : on = g.on
  OBVIOUS
<1>5. \A v \in User : \A r \in Role :
        r # g.role => (r \in RolesGranted(v, on)' <=> r \in RolesGranted(v, on))
  BY <1>3, <1>4
<1> QED
  BY <1>2, <1>4, <1>5

LEMMA NextRank ==
  ASSUME PermissionsInv, [Next]_vars, ~overlap', NEW r \in Req,
         req[r].at \in {"grant", "revoke"}, req'[r] = Idle
  PROVE  \A v \in User, f \in FolderId :
           Level[GetEffectiveRole(v, f)] >= Level[GetEffectiveRole(req[r].by, f)]
             => GetEffectiveRole(v, f)' = GetEffectiveRole(v, f)
<1>0. /\ Structure /\ Structure' /\ EffectiveIs /\ EffectiveIs' /\ TypeOK /\ TypeOK'
      /\ ~overlap => Alone
  BY NextStructure, EffectiveThen DEF PermissionsInv, Structure
<1>1. PICK u : u = req[r].by
  OBVIOUS
<1>2. u \in User /\ req[r] # Idle
  BY <1>0, <1>1, RequestShape DEF Idle
<1>3. GrantCommit(r) \/ RevokeCommit(r) \/ UNCHANGED <<owner, parent, grants, member>>
  <2>1. ASSUME NEW p \in Req, NEW q, Begin(p, q), q.at # "idle" PROVE FALSE
    BY <1>0, <1>2, <2>1 DEF Begin, Become, TypeOK, Idle
  <2>2. ASSUME NEW p \in Req, GrantCommit(p) \/ RevokeCommit(p) \/ CreateCommit(p) PROVE p = r
    BY <1>0, <1>2, <2>2 DEF GrantCommit, RevokeCommit, CreateCommit, Become, TypeOK
  <2>3. ~CreateCommit(r)
    BY DEF CreateCommit
  <2>4. ASSUME NEW p \in Req, NEW v \in User, NEW f \in Folders, NEW to \in Grantee,
               NEW role \in AllGrantableRoles, GrantCheck(p, v, f, to, role)
        PROVE  FALSE
    BY <2>1, <2>4 DEF GrantCheck
  <2>5. ASSUME NEW p \in Req, NEW v \in User, NEW id \in 1..made, RevokeCheck(p, v, id)
        PROVE  FALSE
    BY <2>1, <2>5 DEF RevokeCheck
  <2>6. ASSUME NEW p \in Req, NEW v \in User, NEW f \in Folders, CreateCheck(p, v, f)
        PROVE  FALSE
    BY <2>1, <2>6 DEF CreateCheck
  <2>7. ASSUME NEW p \in Req, Refuse(p) PROVE UNCHANGED <<owner, parent, grants, member>>
    BY <2>7 DEF Refuse
  <2>8. ASSUME NEW m \in Group \X User, ChangeMember(m) PROVE FALSE
    BY <1>2, <2>8 DEF ChangeMember
  <2>9. ~UNCHANGED vars
    BY <1>2 DEF vars
  <2> QED
    BY <2>2, <2>3, <2>4, <2>5, <2>6, <2>7, <2>8, <2>9 DEF Next, GrantRole, RevokeGrant, CreateFolder
<1>4. CASE GrantCommit(r)
  <2>1. PICK g, on, role : g = NewPermissionGrant(req[r]) /\ on = req[r].on /\ role = req[r].role
    OBVIOUS
  <2>2. /\ g.on = on /\ g.role = role /\ on \in FolderId /\ role \in AllGrantableRoles
        /\ grants' = grants \cup {g} /\ UNCHANGED <<owner, parent, member, overlap>>
        /\ req[r].at = "grant"
    BY <1>0, <1>4, <2>1, RequestShape DEF GrantCommit, NewPermissionGrant
  <2>3. CanGrantRole(u, on, role)
    BY <1>0, <1>1, <1>2, <2>1, <2>2 DEF Alone
  <2>4. Level[role] < Level[GetEffectiveRole(u, on)]
    BY <1>0, <1>2, <2>2, <2>3, Levels DEF CanGrantRole, CanGrant, EffectiveIs
  <2>5. /\ \A v \in User, f \in FolderId : f # on => RolesGranted(v, f)' = RolesGranted(v, f)
        /\ \A v \in User : \A x \in Role :
             x # role => (x \in RolesGranted(v, on)' <=> x \in RolesGranted(v, on))
    BY <1>0, <2>2, GrantChange
  <2> QED
    BY <1>0, <1>1, <1>2, <2>2, <2>4, <2>5, RoleChange
<1>5. CASE RevokeCommit(r)
  <2>1. /\ req[r].at = "revoke" /\ UNCHANGED <<owner, parent, member, overlap>>
        /\ grants' = {g \in grants : g.id # req[r].id}
    BY <1>5 DEF RevokeCommit, Delete
  <2>2. PICK g \in grants : g.id = req[r].id /\ CanGrantRole(u, g.on, g.role)
    BY <1>0, <1>1, <1>2, <2>1 DEF Alone
  <2>3. PICK on, role : on = g.on /\ role = g.role
    OBVIOUS
  <2>4. on \in FolderId /\ role \in AllGrantableRoles /\ grants' = grants \ {g}
    BY <1>0, <2>1, <2>2, <2>3 DEF TypeOK, PermissionGrant
  <2>5. Level[role] < Level[GetEffectiveRole(u, on)]
    BY <1>0, <1>2, <2>2, <2>3, <2>4, Levels DEF CanGrantRole, CanGrant, EffectiveIs
  <2>6. /\ \A v \in User, f \in FolderId : f # on => RolesGranted(v, f)' = RolesGranted(v, f)
        /\ \A v \in User : \A x \in Role :
             x # role => (x \in RolesGranted(v, on)' <=> x \in RolesGranted(v, on))
    BY <1>0, <2>1, <2>3, <2>4, GrantChange
  <2> QED
    BY <1>0, <1>1, <1>2, <2>1, <2>4, <2>5, <2>6, RoleChange
<1>6. CASE UNCHANGED <<owner, parent, grants, member>>
  BY <1>0, <1>6, SameRoles
<1> QED
  BY <1>3, <1>4, <1>5, <1>6

\* As long as requests do not overlap, no grant and no revocation changes the role
\* of somebody who ranks as high as the one who asked, on any folder.
THEOREM RankIsRespected == Spec => RankRespected
<1>1. PermissionsInv /\ [Next]_vars =>
        [~overlap' => \A r \in Req : req[r].at \in {"grant", "revoke"} /\ req'[r] = Idle =>
           \A v \in User, f \in Folders :
             Level[GetEffectiveRole(v, f)] >= Level[GetEffectiveRole(req[r].by, f)] =>
               GetEffectiveRole(v, f)' = GetEffectiveRole(v, f)]_vars
  BY NextRank DEF Folders
<1> QED
  BY <1>1, PermissionsInvariance, PTL DEF Spec, RankRespected

-----------------------------------------------------------------------------
(* The rate limiter: what the invariant says *)

\* A stamped request is on time; no stamp is of the future.
OnTime ==
  \A r \in Call : calls[r] # New =>
    /\ calls[r].stamp <= clock
    /\ calls[r].pc = "stamped" => clock <= calls[r].stamp + MaxDelay

\* The key lives as long as its entries count.
EntriesLive ==
  /\ IsFiniteSet(entries)
  /\ \A e \in entries : e.at <= clock /\ e.at + Window <= expires

\* What was admitted is in the set, until no punctual script can miss it.
AdmittedStored ==
  \A r \in Call : calls[r].pc = "admitted" =>
    EntryOf(r) \in entries \/ calls[r].stamp + Window <= clock

Runs == Call \X (0..MaxRetries)

\* Run n of the script for r recorded an entry stamped at.
RecordedAt(r, n, at) == calls[r] # New /\ calls[r].stamp = at /\ MayRecord(r, n)

\* The entries come from different runs.
Traced ==
  \E run \in [entries -> Runs] :
    /\ \A e, d \in entries : run[e] = run[d] => e = d
    /\ \A e \in entries : RecordedAt(run[e][1], run[e][2], e.at)

RateInv ==
  LimiterTypeOK /\ OnTime /\ EntriesLive /\ AdmittedStored /\ Traced /\ WindowLimit /\ RefusedForReason

-----------------------------------------------------------------------------
(* What a request looks like, and what a step of one leaves alone *)

LEMMA CallShape ==
  ASSUME LimiterTypeOK, NEW r \in Call
  PROVE  /\ calls[r] = New <=> calls[r].pc = "new"
         /\ calls[r] # New => calls[r].stamp \in Time /\ calls[r].lost \in 0..MaxRetries + 1
         /\ calls[r].pc = "stamped" =>
              calls[r] = [pc |-> "stamped", stamp |-> calls[r].stamp, lost |-> calls[r].lost]
         /\ calls[r].pc = "admitted" => calls[r].draw \in Draw /\ EntryOf(r) \in Entry
         /\ calls[r].pc \in {"new", "stamped", "admitted", "refused", "unchecked"}
BY LimiterAssumption DEF LimiterTypeOK, Result, New, EntryOf, Entry

LEMMA OtherCalls ==
  ASSUME LimiterTypeOK, NEW r \in Call, NEW state, Proceed(r, state)
  PROVE  /\ calls'[r] = state
         /\ \A q \in Call : q # r => calls'[q] = calls[q]
BY DEF LimiterTypeOK, Proceed

-----------------------------------------------------------------------------
(* The sorted set *)

LEMMA KeptEntries ==
  ASSUME LimiterTypeOK, EntriesLive, NEW stamp \in Time
  PROVE  /\ Kept(stamp) \subseteq entries
         /\ IsFiniteSet(Kept(stamp))
         /\ Cardinality(Kept(stamp)) \in Nat
         /\ Cardinality(Kept(stamp)) <= Limit
<1>1. Kept(stamp) \subseteq entries
  BY DEF Kept, Stored
<1>2. Cardinality(entries) \in Nat /\ Cardinality(entries) <= Limit /\ Limit \in Nat
  BY FS_CardinalityType, LimiterAssumption DEF EntriesLive, LimiterTypeOK
<1>3. IsFiniteSet(Kept(stamp)) /\ Cardinality(Kept(stamp)) <= Cardinality(entries)
  BY <1>1, FS_Subset DEF EntriesLive
<1>4. Cardinality(Kept(stamp)) \in Nat
  BY <1>3, FS_CardinalityType
<1> QED
  BY <1>1, <1>2, <1>3, <1>4

\* Recording never exceeds the limit.
LEMMA RecordKeepsLimit ==
  ASSUME LimiterTypeOK, EntriesLive, NEW stamp \in Time, NEW d, HasRoom(stamp)
  PROVE  LET with == Kept(stamp) \cup {[at |-> stamp, draw |-> d]} IN
         /\ IsFiniteSet(with)
         /\ Cardinality(with) \in Nat
         /\ Cardinality(with) <= Limit
<1> DEFINE with == Kept(stamp) \cup {[at |-> stamp, draw |-> d]}
<1>1. /\ IsFiniteSet(Kept(stamp)) /\ Cardinality(Kept(stamp)) \in Nat
      /\ Cardinality(Kept(stamp)) < Limit /\ Limit \in Nat
  BY KeptEntries, LimiterAssumption DEF HasRoom
<1>2. /\ IsFiniteSet(with)
      /\ \/ Cardinality(with) = Cardinality(Kept(stamp))
         \/ Cardinality(with) = Cardinality(Kept(stamp)) + 1
  BY <1>1, FS_AddElement
<1> HIDE DEF with
<1>3. Cardinality(with) \in Nat /\ Cardinality(with) <= Limit
  BY <1>1, <1>2
<1> QED
  BY <1>2, <1>3 DEF with

\* An entry that a script drops is older than a window.
LEMMA DroppedIsOld ==
  ASSUME LimiterTypeOK, EntriesLive, NEW stamp \in Time, stamp <= clock,
         NEW e \in entries, e \notin Kept(stamp)
  PROVE  e.at + Window <= clock
<1>1. /\ e.at \in Nat /\ e.at + Window <= expires
      /\ clock \in Nat /\ stamp \in Nat /\ expires \in Nat /\ Window \in Nat
  BY LimiterAssumption DEF LimiterTypeOK, EntriesLive, Entry, Time
<1>2. CASE clock < expires
  <2>1. ~(e.at > stamp - Window)
    BY <1>2 DEF Kept, Stored
  <2> QED
    BY <1>1, <2>1
<1>3. CASE ~(clock < expires)
  BY <1>1, <1>3
<1> QED
  BY <1>2, <1>3

\* What a run of the script does to the set, whether it records its request
\* (new holds the entry) or turns it away (new is empty).
Written(stamp, new) ==
  /\ entries' = Kept(stamp) \cup new
  /\ \/ new = {} /\ UNCHANGED expires
     \/ /\ HasRoom(stamp) /\ expires' = clock + Window
        /\ \E d \in Draw : new = {[at |-> stamp, draw |-> d]}

LEMMA ScriptWrites ==
  ASSUME NEW r \in Call, Admit(r) \/ Deny(r) \/ Lose(r)
  PROVE  \E new : Written(calls[r].stamp, new)
<1>1. ASSUME NEW d \in Draw, HasRoom(calls[r].stamp), Record(calls[r].stamp, d)
      PROVE  Written(calls[r].stamp, {[at |-> calls[r].stamp, draw |-> d]})
  BY <1>1 DEF Record, Written
<1>2. ASSUME TurnAway(calls[r].stamp)
      PROVE  Written(calls[r].stamp, {})
  BY <1>2 DEF TurnAway, Written
<1> QED
  BY <1>1, <1>2 DEF Admit, Deny, Lose

LEMMA WrittenSet ==
  ASSUME LimiterTypeOK, EntriesLive, NEW stamp \in Time, stamp <= clock, UNCHANGED clock,
         NEW new, Written(stamp, new)
  PROVE  /\ entries' \subseteq Entry
         /\ Cardinality(entries') <= Limit
         /\ expires' \in 0..MaxTime + Window
         /\ EntriesLive'
         /\ \A e \in entries : e \in entries' \/ e.at + Window <= clock
<1>0. /\ clock \in Nat /\ stamp \in Nat /\ expires \in Nat /\ Window \in Nat /\ MaxTime \in Nat
      /\ clock <= MaxTime /\ expires <= MaxTime + Window /\ entries \subseteq Entry
      /\ \A e \in Entry : e.at \in Nat
  BY LimiterAssumption DEF LimiterTypeOK, Time, Entry
<1>1. \A e \in entries : e \in entries' \/ e.at + Window <= clock
  BY DroppedIsOld DEF Written
<1>2. CASE new = {} /\ UNCHANGED expires
  <2>1. entries' = Kept(stamp)
    BY <1>2 DEF Written
  <2>2. /\ entries' \subseteq entries /\ IsFiniteSet(entries') /\ Cardinality(entries') <= Limit
    BY <2>1, KeptEntries
  <2> QED
    BY <1>0, <1>1, <1>2, <2>2 DEF EntriesLive, LimiterTypeOK
<1>3. ASSUME NEW d \in Draw, new = {[at |-> stamp, draw |-> d]},
             HasRoom(stamp), expires' = clock + Window
      PROVE  /\ entries' \subseteq Entry
             /\ Cardinality(entries') <= Limit
             /\ expires' \in 0..MaxTime + Window
             /\ EntriesLive'
  <2>1. entries' = Kept(stamp) \cup {[at |-> stamp, draw |-> d]}
    BY <1>3 DEF Written
  <2>2. IsFiniteSet(entries') /\ Cardinality(entries') <= Limit
    BY <1>3, <2>1, RecordKeepsLimit
  <2>3. Kept(stamp) \subseteq entries /\ [at |-> stamp, draw |-> d] \in Entry
    BY KeptEntries DEF Entry
  <2>4. expires' \in 0..MaxTime + Window
    BY <1>0, <1>3
  <2>5. ASSUME NEW e \in entries' PROVE e.at <= clock' /\ e.at + Window <= expires'
    <3>1. e.at \in Nat /\ e.at <= clock
      BY <1>0, <2>1, <2>3 DEF EntriesLive
    <3> QED
      BY <1>0, <1>3, <3>1
  <2> QED
    BY <1>0, <2>1, <2>2, <2>3, <2>4, <2>5 DEF EntriesLive
<1> QED
  BY <1>1, <1>2, <1>3 DEF Written

-----------------------------------------------------------------------------
(* The steps *)

LEMMA StampedByStep ==
  ASSUME LimiterTypeOK, OnTime, NEW r \in Call, Admit(r) \/ Deny(r) \/ Lose(r) \/ Unchecked(r)
  PROVE  /\ calls[r].pc = "stamped" /\ calls[r] # New
         /\ calls[r].stamp \in Time /\ calls[r].lost \in 0..MaxRetries + 1
         /\ calls[r].stamp <= clock /\ clock <= calls[r].stamp + MaxDelay
         /\ UNCHANGED clock
<1>1. calls[r].pc = "stamped" /\ UNCHANGED clock
  BY DEF Admit, Deny, Lose, Unchecked, MayRun
<1>2. calls[r] # New /\ calls[r].stamp \in Time /\ calls[r].lost \in 0..MaxRetries + 1
  BY <1>1, CallShape DEF New
<1> QED
  BY <1>1, <1>2, LimiterAssumption DEF OnTime

\* A refused request is told when its window moves on: there is an oldest entry.
LEMMA OldestIsThere ==
  ASSUME LimiterTypeOK, EntriesLive, NEW stamp \in Time, ~HasRoom(stamp)
  PROVE  Oldest(stamp) \in Kept(stamp) /\ Oldest(stamp).at \in Nat
<1>1. Kept(stamp) # {}
  <2>1. Cardinality({}) = 0
    BY FS_EmptySet
  <2> QED
    BY <2>1, LimiterAssumption DEF HasRoom
<1>2. Kept(stamp) \subseteq Entry /\ \A e \in Entry : e.at \in Nat
  BY KeptEntries DEF LimiterTypeOK, Entry, Time
<1> DEFINE Times == {e.at : e \in Kept(stamp)}
<1>3. Times \in SUBSET Nat /\ Times # {}
  BY <1>1, <1>2
<1>4. PICK n \in Times : \A m \in Times : n <= m
  <2> HIDE DEF Times
  <2> QED
    BY <1>3, LeastNumber
<1>5. PICK e \in Kept(stamp) : e.at = n
  OBVIOUS
<1>6. \A d \in Kept(stamp) : e.at <= d.at
  BY <1>4, <1>5
<1>7. Oldest(stamp) \in Kept(stamp)
  BY <1>6 DEF Oldest
<1> QED
  BY <1>2, <1>7

LEMMA StepLimiterType ==
  ASSUME LimiterTypeOK, OnTime, EntriesLive, [LimiterNext]_limiterVars
  PROVE  LimiterTypeOK' /\ OnTime' /\ EntriesLive'
<1>0. /\ clock \in Nat /\ clock <= MaxTime /\ MaxTime \in Nat /\ Window \in Nat
      /\ Limit \in Nat /\ MaxRetries \in Nat /\ MaxDelay \in Nat
      /\ \A q \in Call : calls[q] # New => calls[q].stamp \in Nat
  BY CallShape, LimiterAssumption DEF LimiterTypeOK, Time
<1>1. CASE Tick
  <2>1. clock' = clock + 1 /\ clock < MaxTime /\ UNCHANGED <<entries, expires, calls>>
        /\ \A q \in Call : calls[q].pc = "stamped" => clock < calls[q].stamp + MaxDelay
    BY <1>1 DEF Tick
  <2>2. LimiterTypeOK'
    BY <1>0, <2>1 DEF LimiterTypeOK, Time
  <2>3. OnTime'
    <3>1. ASSUME NEW q \in Call, calls[q] # New
          PROVE  /\ calls[q].stamp <= clock'
                 /\ calls[q].pc = "stamped" => clock' <= calls[q].stamp + MaxDelay
      <4>1. calls[q].stamp \in Nat /\ calls[q].stamp <= clock
        BY <1>0, <3>1 DEF OnTime
      <4> QED
        BY <1>0, <2>1, <4>1
    <3> QED
      BY <2>1, <3>1 DEF OnTime
  <2>4. EntriesLive'
    <3>1. \A e \in entries : e.at \in Nat
      BY DEF LimiterTypeOK, Entry, Time
    <3> QED
      BY <1>0, <2>1, <3>1 DEF EntriesLive
  <2> QED
    BY <2>2, <2>3, <2>4
<1>2. ASSUME NEW r \in Call, Stamp(r)
      PROVE  LimiterTypeOK' /\ OnTime' /\ EntriesLive'
  <2>1. PICK state : state = [pc |-> "stamped", stamp |-> clock, lost |-> 0]
    OBVIOUS
  <2>2. UNCHANGED <<clock, entries, expires>> /\ Proceed(r, state)
    BY <1>2, <2>1 DEF Stamp
  <2>3. LimiterTypeOK'
    BY <1>0, <2>1, <2>2 DEF LimiterTypeOK, Proceed
  <2>4. OnTime'
    BY <1>0, <2>1, <2>2, OtherCalls DEF OnTime
  <2> QED
    BY <2>2, <2>3, <2>4 DEF EntriesLive
<1>3. ASSUME NEW r \in Call, Admit(r) \/ Deny(r) \/ Lose(r) \/ Unchecked(r)
      PROVE  LimiterTypeOK' /\ OnTime' /\ EntriesLive'
  <2>1. PICK stamp, lost : stamp = calls[r].stamp /\ lost = calls[r].lost
    OBVIOUS
  <2>2. /\ calls[r] = [pc |-> "stamped", stamp |-> stamp, lost |-> lost]
        /\ stamp \in Time /\ lost \in 0..MaxRetries + 1
        /\ stamp <= clock /\ clock <= stamp + MaxDelay /\ UNCHANGED clock
    BY <1>3, <2>1, StampedByStep, CallShape
  <2>3. /\ entries' \subseteq Entry /\ Cardinality(entries') <= Limit
        /\ expires' \in 0..MaxTime + Window /\ EntriesLive'
    <3>1. CASE Admit(r) \/ Deny(r) \/ Lose(r)
      <4>1. PICK new : Written(stamp, new)
        BY <2>1, <3>1, ScriptWrites
      <4> QED
        BY <2>2, <4>1, WrittenSet
    <3>2. CASE Unchecked(r)
      BY <2>2, <3>2 DEF Unchecked, LimiterTypeOK, EntriesLive
    <3> QED
      BY <1>3, <3>1, <3>2
  <2>4. PICK state : /\ Proceed(r, state) /\ state # New /\ state.stamp = stamp
                     /\ \/ state \in Result
                        \/ state = [pc |-> "stamped", stamp |-> stamp, lost |-> lost + 1]
                           /\ lost \in 0..MaxRetries
    <3>1. CASE Admit(r)
      <4>1. PICK d \in Draw : Proceed(r, [pc |-> "admitted", stamp |-> stamp, lost |-> lost, draw |-> d,
                                         remaining |-> Limit - Cardinality(Kept(stamp)) - 1])
        BY <2>1, <3>1 DEF Admit
      <4>2. Cardinality(Kept(stamp)) \in Nat /\ Cardinality(Kept(stamp)) < Limit
        BY <2>1, <2>2, <3>1, KeptEntries DEF Admit, HasRoom
      <4>3. Limit - Cardinality(Kept(stamp)) - 1 \in 0..Limit - 1
        BY <1>0, <4>2
      <4>4. lost \in 0..MaxRetries
        BY <1>0, <2>1, <2>2, <3>1 DEF Admit, MayRun
      <4> QED
        BY <2>2, <4>1, <4>3, <4>4 DEF Result, New
    <3>2. CASE Deny(r)
      <4>1. Proceed(r, [pc |-> "refused", stamp |-> stamp, lost |-> lost,
                       reset |-> Oldest(stamp).at + Window])
        BY <2>1, <3>2 DEF Deny
      <4>2. Oldest(stamp).at + Window \in Nat
        BY <1>0, <2>1, <2>2, <3>2, OldestIsThere DEF Deny
      <4>3. lost \in 0..MaxRetries
        BY <1>0, <2>1, <2>2, <3>2 DEF Deny, MayRun
      <4> QED
        BY <2>2, <4>1, <4>2, <4>3 DEF Result, New
    <3>3. CASE Lose(r)
      <4>1. Proceed(r, [calls[r] EXCEPT !.lost = @ + 1]) /\ lost \in 0..MaxRetries
        BY <1>0, <2>1, <2>2, <3>3 DEF Lose, MayRun
      <4> QED
        BY <2>2, <4>1 DEF New
    <3>4. CASE Unchecked(r)
      BY <2>1, <2>2, <3>4 DEF Unchecked, Result, New
    <3> QED
      BY <1>3, <3>1, <3>2, <3>3, <3>4
  <2>5. state \in Result \cup {New} \cup [pc: {"stamped"}, stamp: Time, lost: 0..MaxRetries + 1]
    BY <1>0, <2>2, <2>4
  <2>6. LimiterTypeOK'
    BY <2>2, <2>3, <2>4, <2>5 DEF LimiterTypeOK, Proceed
  <2>7. OnTime'
    BY <2>2, <2>4, OtherCalls DEF OnTime
  <2> QED
    BY <2>3, <2>6, <2>7
<1>4. CASE UNCHANGED limiterVars
  BY <1>4 DEF limiterVars, LimiterTypeOK, OnTime, EntriesLive
<1> QED
  BY <1>1, <1>2, <1>3, <1>4 DEF LimiterNext, ByIP

\* A stamp stays, a finished request stays as it is, and what may have recorded
\* an entry still may.
Grown ==
  \A q \in Call : calls[q] # New =>
    /\ calls'[q] # New /\ calls'[q].stamp = calls[q].stamp
    /\ \A n \in 0..MaxRetries : MayRecord(q, n) => MayRecord(q, n)'
    /\ calls[q].pc \in {"admitted", "refused"} => calls'[q] = calls[q]

LEMMA RequestsGrow ==
  ASSUME LimiterTypeOK, [LimiterNext]_limiterVars
  PROVE  Grown
<1>1. ASSUME UNCHANGED calls PROVE Grown
  BY <1>1 DEF Grown, MayRecord
<1>2. ASSUME NEW r \in Call, Stamp(r) PROVE Grown
  <2>1. calls[r] = New /\ \A q \in Call : q # r => calls'[q] = calls[q]
    BY <1>2, OtherCalls DEF Stamp
  <2> QED
    BY <2>1 DEF Grown, MayRecord
<1>3. ASSUME NEW r \in Call, Admit(r) \/ Deny(r) \/ Lose(r) \/ Unchecked(r)
      PROVE  Grown
  <2>1. PICK stamp, lost : stamp = calls[r].stamp /\ lost = calls[r].lost
    OBVIOUS
  <2>2. /\ calls[r] = [pc |-> "stamped", stamp |-> stamp, lost |-> lost]
        /\ lost \in Nat
    BY <1>3, <2>1, CallShape, LimiterAssumption
       DEF Admit, Deny, Lose, Unchecked, MayRun, New
  <2>3. PICK state : /\ Proceed(r, state) /\ state # New /\ state.stamp = stamp
                     /\ state.lost \in {lost, lost + 1}
    <3>1. CASE Lose(r)
      BY <2>2, <3>1 DEF Lose, New
    <3>2. CASE Admit(r)
      <4>1. \E d, left : Proceed(r, [pc |-> "admitted", stamp |-> stamp, lost |-> lost, draw |-> d,
                                    remaining |-> left])
        BY <2>1, <3>2 DEF Admit
      <4> QED
        BY <4>1 DEF New
    <3>3. CASE Deny(r)
      <4>1. \E reset : Proceed(r, [pc |-> "refused", stamp |-> stamp, lost |-> lost, reset |-> reset])
        BY <2>1, <3>3 DEF Deny
      <4> QED
        BY <4>1 DEF New
    <3>4. CASE Unchecked(r)
      BY <2>1, <3>4 DEF Unchecked, New
    <3> QED
      BY <1>3, <3>1, <3>2, <3>3, <3>4
  <2>4. calls'[r] = state /\ \A q \in Call : q # r => calls'[q] = calls[q]
    BY <2>3, OtherCalls
  <2>5. \A n \in 0..MaxRetries : MayRecord(r, n) => n < state.lost
    BY <2>2, <2>3, LimiterAssumption DEF MayRecord
  <2>6. \A n \in 0..MaxRetries : MayRecord(r, n) => MayRecord(r, n)'
    BY <2>4, <2>5 DEF MayRecord
  <2>7. calls[r].pc = "stamped"
    BY <2>2
  <2> QED
    BY <2>1, <2>3, <2>4, <2>6, <2>7 DEF Grown, MayRecord
<1> QED
  BY <1>1, <1>2, <1>3 DEF LimiterNext, ByIP, Tick, limiterVars

LEMMA RunsAreFinite ==
  ASSUME NEW S \in SUBSET Runs
  PROVE  IsFiniteSet(S)
<1>1. IsFiniteSet(0..MaxRetries)
  BY FS_Interval, LimiterAssumption
<1>2. IsFiniteSet(Runs)
  BY <1>1, FS_Product, LimiterAssumption DEF Runs
<1> QED
  BY <1>2, FS_Subset

\* A run of the script adds at most one entry, and no other run of the same
\* request had the same number.
LEMMA ScriptTraced ==
  ASSUME Traced, Grown, NEW r \in Call, NEW stamp, NEW lost \in 0..MaxRetries,
         NEW new, Written(stamp, new),
         ~MayRecord(r, lost),
         new = {} \/ RecordedAt(r, lost, stamp)'
  PROVE  Traced'
<1>1. PICK run \in [entries -> Runs] :
        /\ \A e, d \in entries : run[e] = run[d] => e = d
        /\ \A e \in entries : RecordedAt(run[e][1], run[e][2], e.at)
  BY DEF Traced
<1>2. Kept(stamp) \subseteq entries /\ entries' = Kept(stamp) \cup new
  BY DEF Kept, Stored, Written
<1>3. new = {} \/ \E d : new = {[at |-> stamp, draw |-> d]}
  BY DEF Written
<1>4. PICK old : old = Kept(stamp)
  OBVIOUS
<1>5. PICK next : next = [e \in old \cup new |-> IF e \in old THEN run[e] ELSE <<r, lost>>]
  OBVIOUS
<1>6. next \in [entries' -> Runs]
  BY <1>2, <1>4, <1>5 DEF Runs
<1>7. \A e \in old : run[e] # <<r, lost>>
  BY <1>1, <1>2, <1>4 DEF RecordedAt
<1>8. \A e, d \in entries' : next[e] = next[d] => e = d
  BY <1>1, <1>2, <1>3, <1>4, <1>5, <1>7
<1>9. ASSUME NEW e \in entries' PROVE RecordedAt(next[e][1], next[e][2], e.at)'
  <2>1. CASE e \in old
    <3>1. PICK q \in Call, n \in 0..MaxRetries : run[e] = <<q, n>>
      BY <1>1, <1>2, <1>4, <2>1 DEF Runs
    <3>2. RecordedAt(q, n, e.at) /\ next[e] = <<q, n>>
      BY <1>1, <1>2, <1>4, <1>5, <2>1, <3>1
    <3>3. RecordedAt(q, n, e.at)'
      BY <3>2 DEF RecordedAt, Grown
    <3> QED
      BY <3>2, <3>3 DEF RecordedAt, MayRecord
  <2>2. CASE e \notin old
    <3>1. next[e] = <<r, lost>> /\ e.at = stamp /\ RecordedAt(r, lost, stamp)'
      BY <1>2, <1>3, <1>4, <1>5, <2>2
    <3> QED
      BY <3>1 DEF RecordedAt, MayRecord
  <2> QED
    BY <2>1, <2>2
<1> QED
  BY <1>6, <1>8, <1>9 DEF Traced

LEMMA StepTraced ==
  ASSUME RateInv, [LimiterNext]_limiterVars
  PROVE  Traced'
<1>0. LimiterTypeOK /\ OnTime /\ Traced /\ Grown
  BY RequestsGrow DEF RateInv
<1>1. CASE UNCHANGED entries
  <2>1. PICK run \in [entries -> Runs] :
          /\ \A e, d \in entries : run[e] = run[d] => e = d
          /\ \A e \in entries : RecordedAt(run[e][1], run[e][2], e.at)
    BY <1>0 DEF Traced
  <2>2. ASSUME NEW e \in entries PROVE RecordedAt(run[e][1], run[e][2], e.at)'
    <3>1. PICK q \in Call, n \in 0..MaxRetries : run[e] = <<q, n>>
      BY <2>1 DEF Runs
    <3>2. RecordedAt(q, n, e.at)
      BY <2>1, <3>1
    <3>3. RecordedAt(q, n, e.at)'
      BY <1>0, <1>1, <3>2 DEF RecordedAt, Grown
    <3> QED
      BY <3>1, <3>3 DEF RecordedAt, MayRecord
  <2> QED
    BY <1>1, <2>1, <2>2 DEF Traced
<1>2. ASSUME NEW r \in Call, Admit(r) \/ Deny(r) \/ Lose(r)
      PROVE  Traced'
  <2>1. PICK stamp, lost : stamp = calls[r].stamp /\ lost = calls[r].lost
    OBVIOUS
  <2>2. calls[r].pc = "stamped" /\ calls[r] # New /\ lost \in 0..MaxRetries /\ lost \in Nat
    BY <1>0, <1>2, <2>1, StampedByStep, LimiterAssumption DEF Admit, Deny, Lose, MayRun
  <2>3. ~MayRecord(r, lost)
    BY <2>1, <2>2 DEF MayRecord
  <2>4. \/ Written(stamp, {})
        \/ \E new : Written(stamp, new) /\ (Admit(r) \/ Lose(r))
    BY <1>2, <2>1, ScriptWrites DEF Deny, TurnAway, Written
  <2>5. ASSUME Admit(r) \/ Lose(r) PROVE RecordedAt(r, lost, stamp)'
    <3>1. PICK state : /\ Proceed(r, state) /\ state # New /\ state.stamp = stamp
                       /\ \/ state.lost = lost /\ state.pc = "admitted"
                          \/ state.lost = lost + 1
      <4>1. CASE Admit(r)
        BY <2>1, <4>1 DEF Admit, New
      <4>2. CASE Lose(r)
        <5>1. calls[r] = [pc |-> "stamped", stamp |-> stamp, lost |-> lost]
          BY <1>0, <2>1, <2>2, CallShape
        <5> QED
          BY <4>2, <5>1 DEF Lose, New
      <4> QED
        BY <2>5, <4>1, <4>2
    <3>2. calls'[r] = state
      BY <1>0, <3>1, OtherCalls
    <3> QED
      BY <2>2, <3>1, <3>2 DEF RecordedAt, MayRecord
  <2>6. CASE Written(stamp, {})
    BY <1>0, <2>2, <2>3, <2>6, ScriptTraced
  <2>7. CASE \E new : Written(stamp, new) /\ (Admit(r) \/ Lose(r))
    BY <1>0, <2>2, <2>3, <2>5, <2>7, ScriptTraced
  <2> QED
    BY <2>4, <2>6, <2>7
<1> QED
  BY <1>1, <1>2 DEF LimiterNext, ByIP, Tick, Stamp, Unchecked, limiterVars

\* A step other than an admission admits nobody.
LEMMA NobodyElseAdmitted ==
  ASSUME LimiterTypeOK, [LimiterNext]_limiterVars, ~\E r \in Call : Admit(r)
  PROVE  \A q \in Call : calls'[q].pc = "admitted" => calls[q].pc = "admitted" /\ calls'[q] = calls[q]
<1>1. CASE UNCHANGED calls
  BY <1>1
<1>2. ASSUME NEW r \in Call, Stamp(r) \/ Deny(r) \/ Lose(r) \/ Unchecked(r)
      PROVE  \E state : Proceed(r, state) /\ state.pc # "admitted"
  <2>1. CASE Lose(r)
    <3>1. calls[r].pc = "stamped" /\ Proceed(r, [calls[r] EXCEPT !.lost = @ + 1])
      BY <2>1 DEF Lose, MayRun
    <3>2. calls[r] = [pc |-> "stamped", stamp |-> calls[r].stamp, lost |-> calls[r].lost]
      BY <3>1, CallShape
    <3> QED
      BY <3>1, <3>2
  <2>2. CASE Deny(r)
    <3>1. \E stamp, lost, reset :
            Proceed(r, [pc |-> "refused", stamp |-> stamp, lost |-> lost, reset |-> reset])
      BY <2>2 DEF Deny
    <3> QED
      BY <3>1
  <2>3. CASE Stamp(r) \/ Unchecked(r)
    BY <2>3 DEF Stamp, Unchecked
  <2> QED
    BY <1>2, <2>1, <2>2, <2>3
<1>3. CASE \E r \in Call : Stamp(r) \/ Deny(r) \/ Lose(r) \/ Unchecked(r)
  BY <1>2, <1>3, OtherCalls
<1> QED
  BY <1>1, <1>3 DEF LimiterNext, ByIP, Tick, limiterVars

\* An admission, and what a punctual script finds in the set.
LEMMA Admission ==
  ASSUME RateInv, NEW r \in Call, Admit(r)
  PROVE  \E stamp \in Time, d \in Draw :
           /\ stamp <= clock /\ clock <= stamp + MaxDelay
           /\ UNCHANGED clock
           /\ entries' = Kept(stamp) \cup {[at |-> stamp, draw |-> d]}
           /\ EntryOf(r)' = [at |-> stamp, draw |-> d]
           /\ calls'[r].pc = "admitted" /\ calls'[r].stamp = stamp
           /\ calls[r].pc = "stamped"
           /\ \A q \in Call : q # r => calls'[q] = calls[q]
<1>0. LimiterTypeOK /\ OnTime
  BY DEF RateInv
<1>1. PICK stamp : stamp = calls[r].stamp
  OBVIOUS
<1>2. /\ stamp \in Time /\ stamp <= clock /\ clock <= stamp + MaxDelay
      /\ UNCHANGED clock /\ calls[r].pc = "stamped"
  BY <1>0, <1>1, StampedByStep
<1>3. PICK d, lost, left :
        /\ d \in Draw
        /\ Record(stamp, d)
        /\ Proceed(r, [pc |-> "admitted", stamp |-> stamp, lost |-> lost, draw |-> d, remaining |-> left])
  BY <1>1 DEF Admit
<1>4. /\ calls'[r] = [pc |-> "admitted", stamp |-> stamp, lost |-> lost, draw |-> d, remaining |-> left]
      /\ \A q \in Call : q # r => calls'[q] = calls[q]
  BY <1>0, <1>3, OtherCalls
<1> QED
  BY <1>2, <1>3, <1>4 DEF Record, EntryOf

LEMMA AdmittedShape ==
  ASSUME LimiterTypeOK, NEW q \in Call, calls[q].pc = "admitted"
  PROVE  /\ calls[q] # New /\ calls[q].stamp \in Nat
         /\ EntryOf(q).at = calls[q].stamp
         /\ Window \in Nat /\ MaxDelay \in Nat /\ clock \in Nat
<1>1. calls[q] # New
  BY DEF New
<1>2. calls[q].stamp \in Time
  BY <1>1, CallShape
<1> QED
  BY <1>1, <1>2, LimiterAssumption DEF EntryOf, Time, LimiterTypeOK

LEMMA StepAdmitted ==
  ASSUME RateInv, [LimiterNext]_limiterVars
  PROVE  AdmittedStored'
<1>0. LimiterTypeOK /\ OnTime /\ EntriesLive /\ AdmittedStored /\ clock \in Nat
  BY DEF RateInv, LimiterTypeOK, Time
<1>1. ASSUME NEW q \in Call, calls[q].pc = "admitted"
      PROVE  EntryOf(q) \in entries' \/ calls[q].stamp + Window <= clock'
  <2>1. /\ calls[q].stamp \in Nat /\ Window \in Nat
        /\ EntryOf(q) \in entries \/ calls[q].stamp + Window <= clock
        /\ EntryOf(q).at = calls[q].stamp
    BY <1>0, <1>1, AdmittedShape DEF AdmittedStored
  <2>2. CASE UNCHANGED entries /\ clock' \in {clock, clock + 1}
    BY <1>0, <2>1, <2>2
  <2>3. ASSUME NEW r \in Call, Admit(r) \/ Deny(r) \/ Lose(r)
        PROVE  EntryOf(q) \in entries' \/ calls[q].stamp + Window <= clock'
    <3>1. PICK stamp, new : stamp = calls[r].stamp /\ Written(stamp, new)
      BY <2>3, ScriptWrites
    <3>2. stamp \in Time /\ stamp <= clock /\ UNCHANGED clock
      BY <1>0, <2>3, <3>1, StampedByStep
    <3>3. \A e \in entries : e \in entries' \/ e.at + Window <= clock
      BY <1>0, <3>1, <3>2, WrittenSet
    <3> QED
      BY <2>1, <3>2, <3>3
  <2> QED
    BY <2>2, <2>3 DEF LimiterNext, ByIP, Tick, Stamp, Unchecked, limiterVars
<1>2. CASE ~\E r \in Call : Admit(r)
  <2>1. \A q \in Call : calls'[q].pc = "admitted" => calls[q].pc = "admitted" /\ calls'[q] = calls[q]
    BY <1>0, <1>2, NobodyElseAdmitted
  <2> QED
    BY <1>1, <2>1 DEF AdmittedStored, EntryOf
<1>3. ASSUME NEW r \in Call, Admit(r) PROVE AdmittedStored'
  <2>1. PICK stamp \in Time, d \in Draw :
          /\ entries' = Kept(stamp) \cup {[at |-> stamp, draw |-> d]}
          /\ EntryOf(r)' = [at |-> stamp, draw |-> d]
          /\ \A q \in Call : q # r => calls'[q] = calls[q]
    BY <1>3, Admission
  <2> QED
    BY <1>1, <2>1 DEF AdmittedStored, EntryOf
<1> QED
  BY <1>2, <1>3

\* Whoever was admitted in a window that is still open is in the set.
LEMMA StepWindow ==
  ASSUME RateInv, [LimiterNext]_limiterVars
  PROVE  WindowLimit'
<1>0. LimiterTypeOK /\ OnTime /\ EntriesLive /\ AdmittedStored /\ WindowLimit
  BY DEF RateInv
<1> DEFINE Known(t) == {EntryOf(q) : q \in Admitted(t, t + Window - MaxDelay)}
<1>1. CASE ~\E r \in Call : Admit(r)
  <2>1. \A q \in Call : calls'[q].pc = "admitted" => calls[q].pc = "admitted" /\ calls'[q] = calls[q]
    BY <1>0, <1>1, NobodyElseAdmitted
  <2>2. \A q \in Call : calls[q].pc = "admitted" => calls'[q] = calls[q]
    BY <1>0, RequestsGrow DEF Grown, New
  <2>3. \A t \in -Window..MaxTime : Known(t)' = Known(t)
    BY <2>1, <2>2 DEF Admitted, EntryOf
  <2> HIDE DEF Known
  <2>4. \A t \in -Window..MaxTime : Cardinality(Known(t)') <= Limit
    BY <1>0, <2>3 DEF WindowLimit, Known
  <2> QED
    BY <2>4 DEF WindowLimit, Known
<1>2. ASSUME NEW r \in Call, Admit(r), NEW t \in -Window..MaxTime
      PROVE  Cardinality(Known(t)') <= Limit
  <2>1. PICK stamp \in Time, d \in Draw :
          /\ stamp <= clock /\ clock <= stamp + MaxDelay
          /\ UNCHANGED clock
          /\ entries' = Kept(stamp) \cup {[at |-> stamp, draw |-> d]}
          /\ EntryOf(r)' = [at |-> stamp, draw |-> d]
          /\ calls'[r].pc = "admitted" /\ calls'[r].stamp = stamp
          /\ calls[r].pc = "stamped"
          /\ \A q \in Call : q # r => calls'[q] = calls[q]
    BY <1>2, Admission
  <2>2. CASE stamp \notin t + 1..t + Window - MaxDelay
    <3>1. Known(t)' = Known(t)
      BY <2>1, <2>2 DEF Admitted, EntryOf
    <3> QED
      BY <1>0, <3>1 DEF WindowLimit
  <2>3. CASE stamp \in t + 1..t + Window - MaxDelay
    <3>1. ASSUME NEW q \in Call, calls[q].pc = "admitted", calls[q].stamp \in t + 1..t + Window - MaxDelay
          PROVE  EntryOf(q) \in Kept(stamp)
      <4>1. /\ t \in Int /\ Window \in Nat /\ MaxDelay \in Nat /\ stamp \in Nat /\ clock \in Nat
            /\ calls[q].stamp \in Nat /\ EntryOf(q).at = calls[q].stamp
        BY <1>0, <3>1, AdmittedShape DEF Time
      <4>2. ~(calls[q].stamp + Window <= clock)
        BY <2>1, <2>3, <3>1, <4>1
      <4>3. EntryOf(q) \in entries
        BY <1>0, <3>1, <4>2 DEF AdmittedStored
      <4> QED
        BY <1>0, <2>1, <4>1, <4>2, <4>3, DroppedIsOld
    <3>2. Known(t)' \subseteq entries'
      BY <2>1, <3>1 DEF Admitted, EntryOf
    <3>3. IsFiniteSet(entries') /\ Cardinality(entries') <= Limit
      BY <1>0, StepLimiterType DEF LimiterTypeOK, EntriesLive
    <3>4. PICK now, all : now = Known(t)' /\ all = entries'
      OBVIOUS
    <3>5. IsFiniteSet(all) /\ now \in SUBSET all /\ Cardinality(all) <= Limit
      BY <3>2, <3>3, <3>4
    <3>6. IsFiniteSet(now) /\ Cardinality(now) <= Cardinality(all)
      BY <3>5, FS_Subset
    <3>7. Cardinality(now) \in Nat /\ Cardinality(all) \in Nat /\ Limit \in Nat
      BY <3>5, <3>6, FS_CardinalityType, LimiterAssumption
    <3> QED
      BY <3>4, <3>5, <3>6, <3>7
  <2> QED
    BY <2>2, <2>3
<1>3. ASSUME NEW r \in Call, Admit(r) PROVE WindowLimit'
  <2> HIDE DEF Known
  <2>1. \A t \in -Window..MaxTime : Cardinality(Known(t)') <= Limit
    BY <1>2, <1>3
  <2> QED
    BY <2>1 DEF WindowLimit, Known
<1> QED
  BY <1>1, <1>3

\* The runs that RefusedForReason counts.
Reasons(r) ==
  {run \in {q \in Call : calls[q] # New /\ calls[q].stamp > calls[r].stamp - Window} \X (0..MaxRetries) :
     MayRecord(run[1], run[2])}

LEMMA ReasonsFinite ==
  ASSUME NEW r \in Call
  PROVE  IsFiniteSet(Reasons(r)) /\ IsFiniteSet(Reasons(r)')
<1>1. Reasons(r) \subseteq Runs /\ Reasons(r)' \subseteq Runs
  BY DEF Reasons, Runs
<1>2. PICK now, next : now = Reasons(r) /\ next = Reasons(r)'
  OBVIOUS
<1>3. IsFiniteSet(now) /\ IsFiniteSet(next)
  BY <1>1, <1>2, RunsAreFinite
<1> QED
  BY <1>2, <1>3

\* Reasons last.
LEMMA ReasonsGrow ==
  ASSUME Grown, NEW r \in Call, calls'[r] = calls[r]
  PROVE  Cardinality(Reasons(r)) \in Nat
         /\ Cardinality(Reasons(r)') \in Nat
         /\ Cardinality(Reasons(r)) <= Cardinality(Reasons(r)')
<1>1. ASSUME NEW run \in Reasons(r) PROVE run \in Reasons(r)'
  <2>1. PICK q \in Call, n \in 0..MaxRetries :
          /\ run = <<q, n>> /\ calls[q] # New /\ calls[q].stamp > calls[r].stamp - Window
          /\ MayRecord(q, n)
    BY DEF Reasons
  <2>2. calls'[q] # New /\ calls'[q].stamp = calls[q].stamp /\ MayRecord(q, n)'
    BY <2>1 DEF Grown
  <2>3. q \in {p \in Call : calls'[p] # New /\ calls'[p].stamp > calls'[r].stamp - Window}
    BY <2>1, <2>2
  <2>4. run[1] = q /\ run[2] = n
    BY <2>1
  <2>5. MayRecord(run[1], run[2])'
    BY <2>2, <2>4 DEF MayRecord
  <2> QED
    BY <2>1, <2>3, <2>5 DEF Reasons
<1>2. PICK now, next : now = Reasons(r) /\ next = Reasons(r)'
  OBVIOUS
<1>3. now \in SUBSET next
  BY <1>1, <1>2
<1>4. IsFiniteSet(now) /\ IsFiniteSet(next)
  BY <1>2, ReasonsFinite
<1>5. Cardinality(now) <= Cardinality(next) /\ Cardinality(now) \in Nat /\ Cardinality(next) \in Nat
  BY <1>3, <1>4, FS_Subset, FS_CardinalityType
<1> QED
  BY <1>2, <1>5

\* The entries that leave no room come from different runs stamped in the window.
LEMMA RefusalHasReasons ==
  ASSUME RateInv, [LimiterNext]_limiterVars, NEW r \in Call, Deny(r)
  PROVE  Limit <= Cardinality(Reasons(r)')
<1>0. /\ LimiterTypeOK /\ OnTime /\ EntriesLive /\ Limit \in Nat
      /\ LimiterTypeOK' /\ EntriesLive' /\ Traced'
  BY StepLimiterType, StepTraced, LimiterAssumption DEF RateInv
<1>1. PICK stamp : stamp = calls[r].stamp
  OBVIOUS
<1>2. stamp \in Time /\ entries' = Kept(stamp) /\ ~(Cardinality(Kept(stamp)) < Limit)
  BY <1>0, <1>1, StampedByStep DEF Deny, TurnAway, HasRoom
<1>3. calls'[r].stamp = stamp
  BY <1>0, <1>1, RequestsGrow, StampedByStep DEF Grown
<1>4. PICK all, run :
        /\ all = entries' /\ run \in [all -> Runs]
        /\ \A e, d \in all : run[e] = run[d] => e = d
        /\ \A e \in all : RecordedAt(run[e][1], run[e][2], e.at)'
  BY <1>0 DEF Traced
<1>5. PICK reasons : reasons = Reasons(r)'
  OBVIOUS
<1>6. ASSUME NEW e \in all PROVE run[e] \in reasons
  <2>1. PICK q \in Call, n \in 0..MaxRetries : run[e] = <<q, n>>
    BY <1>4 DEF Runs
  <2>2. run[e][1] = q /\ run[e][2] = n
    BY <2>1
  <2>3. calls'[q] # New /\ calls'[q].stamp = e.at /\ MayRecord(run[e][1], run[e][2])'
    BY <1>4, <2>2 DEF RecordedAt, MayRecord
  <2>4. e.at > stamp - Window
    BY <1>2, <1>4 DEF Kept
  <2> QED
    BY <1>3, <1>5, <2>1, <2>3, <2>4 DEF Reasons
<1>7. run \in Injection(all, reasons)
  BY <1>4, <1>6 DEF Injection, IsInjective
<1>8. IsFiniteSet(reasons)
  BY <1>5, ReasonsFinite
<1>9. Cardinality(all) <= Cardinality(reasons) /\ Cardinality(reasons) \in Nat
  BY <1>7, <1>8, FS_Injection, FS_CardinalityType
<1>10. Cardinality(all) \in Nat /\ ~(Cardinality(all) < Limit)
  BY <1>0, <1>2, <1>4, KeptEntries
<1> QED
  BY <1>0, <1>5, <1>9, <1>10

LEMMA StepRefused ==
  ASSUME RateInv, [LimiterNext]_limiterVars
  PROVE  RefusedForReason'
<1>0. LimiterTypeOK /\ RefusedForReason /\ Grown /\ Limit \in Nat
  BY RequestsGrow, LimiterAssumption DEF RateInv
<1>1. ASSUME NEW r \in Call, calls'[r].pc = "refused"
      PROVE  Limit <= Cardinality(Reasons(r)')
  <2>1. CASE calls[r].pc = "refused"
    <3>1. calls'[r] = calls[r]
      BY <1>0, <2>1 DEF Grown, New
    <3>2. Limit <= Cardinality(Reasons(r))
      BY <1>0, <2>1 DEF RefusedForReason, Reasons
    <3> QED
      BY <1>0, <3>1, <3>2, ReasonsGrow
  <2>2. CASE calls[r].pc # "refused"
    <3>1. Deny(r)
      <4>1. CASE UNCHANGED calls
        BY <1>1, <2>2, <4>1
      <4>2. ASSUME NEW q \in Call, Stamp(q) \/ Admit(q) \/ Lose(q) \/ Unchecked(q)
            PROVE  \E state : Proceed(q, state) /\ state.pc # "refused"
        <5>1. CASE Lose(q)
          <6>1. calls[q] = [pc |-> "stamped", stamp |-> calls[q].stamp, lost |-> calls[q].lost]
            BY <1>0, <5>1, CallShape DEF Lose, MayRun
          <6> QED
            BY <5>1, <6>1 DEF Lose
        <5>2. CASE Admit(q)
          <6>1. \E stamp, lost, d, left :
                  Proceed(q, [pc |-> "admitted", stamp |-> stamp, lost |-> lost, draw |-> d,
                             remaining |-> left])
            BY <5>2 DEF Admit
          <6> QED
            BY <6>1
        <5>3. CASE Stamp(q) \/ Unchecked(q)
          BY <5>3 DEF Stamp, Unchecked
        <5> QED
          BY <4>2, <5>1, <5>2, <5>3
      <4>3. ASSUME NEW q \in Call, Deny(q) PROVE r = q
        BY <1>0, <1>1, <2>2, <4>3, OtherCalls DEF Deny
      <4> QED
        BY <1>0, <1>1, <2>2, <4>1, <4>2, <4>3, OtherCalls DEF LimiterNext, ByIP, Tick, limiterVars
    <3> QED
      BY <3>1, RefusalHasReasons
  <2> QED
    BY <2>1, <2>2
<1> QED
  BY <1>1 DEF RefusedForReason, Reasons

-----------------------------------------------------------------------------

LEMMA InitRate == LimiterInit => RateInv
<1> SUFFICES ASSUME LimiterInit PROVE RateInv
  OBVIOUS
<1>1. /\ clock = 0 /\ entries = {} /\ expires = 0 /\ calls = [r \in Call |-> New]
      /\ IsFiniteSet({}) /\ Cardinality({}) = 0
      /\ Limit \in Nat /\ Window \in Nat /\ MaxTime \in Nat
  BY FS_EmptySet, LimiterAssumption DEF LimiterInit
<1>2. LimiterTypeOK
  BY <1>1 DEF LimiterTypeOK, Time
<1>3. \A r \in Call : calls[r] = New /\ calls[r].pc = "new"
  BY <1>1 DEF New
<1>4. OnTime /\ EntriesLive /\ AdmittedStored /\ RefusedForReason
  BY <1>1, <1>3 DEF OnTime, EntriesLive, AdmittedStored, RefusedForReason
<1>5. Traced
  <2>1. PICK none : none = [e \in {} |-> <<>>]
    OBVIOUS
  <2>2. none \in [{} -> Runs]
    BY <2>1
  <2> QED
    BY <1>1, <2>2 DEF Traced
<1>6. WindowLimit
  <2>1. \A from, to : Admitted(from, to) = {}
    BY <1>3 DEF Admitted
  <2>2. \A from, to : {EntryOf(r) : r \in Admitted(from, to)} = {}
    BY <2>1
  <2> QED
    BY <1>1, <2>2 DEF WindowLimit
<1> QED
  BY <1>2, <1>4, <1>5, <1>6 DEF RateInv

LEMMA NextRate ==
  ASSUME RateInv, [LimiterNext]_limiterVars
  PROVE  RateInv'
BY StepLimiterType, StepAdmitted, StepTraced, StepWindow, StepRefused DEF RateInv

\* The sorted set holds what the scripts recorded and nothing else that counts,
\* as RateInv says in its parts.
THEOREM RateInvariance == LimiterSpec => []RateInv
BY InitRate, NextRate, PTL DEF LimiterSpec

\* The set holds no more entries than the limit, and every answer of the script
\* is well formed: a refusal always knows when to come back.
THEOREM RateTypeCorrect == LimiterSpec => []LimiterTypeOK
<1>1. RateInv => LimiterTypeOK
  BY DEF RateInv
<1> QED
  BY <1>1, RateInvariance, PTL

\* However late and in whatever order the scripts run, and however many answers
\* are lost, no window less the longest delay admits more than the limit.
THEOREM LimitIsKept == LimiterSpec => []WindowLimit
<1>1. RateInv => WindowLimit
  BY DEF RateInv
<1> QED
  BY <1>1, RateInvariance, PTL

\* The limit turns nobody away for what was never let in: refusals count for
\* nothing, and every entry counts once.
THEOREM RefusalsAreJustified == LimiterSpec => []RefusedForReason
<1>1. RateInv => RefusedForReason
  BY DEF RateInv
<1> QED
  BY <1>1, RateInvariance, PTL
=============================================================================
