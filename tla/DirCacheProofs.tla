--------------------------- MODULE DirCacheProofs ---------------------------
(***************************************************************************)
(* While requests only create and list directories, the cache of the 115   *)
(* driver is never wrong, ensureDir ends up in the directory asked for, and*)
(* nobody can tell that there is a cache; while they create and remove, a  *)
(* stale id is still of no other path, so only what was asked for goes; and*)
(* whatever requests do, a cached id is one of its own account, and every  *)
(* request comes to an end.  This holds for any number of accounts,        *)
(* requests and names, any depth, with a table or without, across lost     *)
(* answers, failing statements and restarts.                               *)
(***************************************************************************)
EXTENDS DirCache, SequenceTheorems, TLAPS

\* Nobody moves, renames or removes directories.
Growing == Requests \subseteq {r \in PathRequests : r.op \in {"mkdir", "add", "list"}}

(* Of an account: the root is where it was, an id is in one place, and was *)
(* given out by this account.                                              *)
TreeSound ==
    \A p \in Profiles, q \in Paths :
        /\ tree[p][<<>>] = RootId
        /\ tree[p][q] = RootId => q = <<>>
        /\ tree[p][q] \in DirIds => tree[p][q] \in used[p]
        /\ \A r \in Paths : tree[p][q] = tree[p][r] /\ tree[p][q] # NoDir => q = r

Types ==
    /\ tree \in [Profiles -> [Paths -> Ids \cup {NoDir}]]
    /\ used \in [Profiles -> SUBSET DirIds]
    /\ memory \in [Profiles -> [Paths -> Ids \cup {NoDir}]]
    /\ table \in [Profiles -> [Paths -> Ids \cup {NoDir}]]
    /\ pc \in [Workers -> Pcs]
    /\ req \in [Workers -> Requests \cup {NoRequest}]
    /\ frame \in [Workers -> Frames]

(* Of a path that is being resolved: it is the whole path of the request or*)
(* the prefix that ensureDir is at, whose parent it has.                   *)
GoalFits(t, r, f) ==
    /\ f.goal \in Named
    /\ Len(f.goal) <= Len(r.path)
    /\ f.goal = Upto(r.path, Len(f.goal))
    /\ f.stage \in {"whole", "prefix", "exists", "made"}
    /\ f.stage = "whole" => f.goal = r.path
    /\ f.stage # "whole" => /\ r.op \in {"mkdir", "add"}
                            /\ t[r.profile][Parent(f.goal)] = f.held

(* Of an id that was found: it is the one at the path, or at the part of it*)
(* that the walk has behind it.                                            *)
IdFits(t, p, r, f) ==
    /\ p \in {"fill", "saveMemory", "saveTable"} => t[r.profile][f.goal] = f.at
    /\ p = "walk" => /\ f.walked < Len(f.goal)
                     /\ t[r.profile][Upto(f.goal, f.walked)] = f.at
    /\ p \in {"act", "done"} => t[r.profile][r.path] = f.at
    /\ p = "act" => r.op = "add"
    /\ p = "mkdir" => f.stage = "prefix"
    /\ p # "listParent"

Local(t, p, r, f) ==
    p # "idle" => r \in Requests /\ GoalFits(t, r, f) /\ IdFits(t, p, r, f)

GrowingInv ==
    /\ Types
    /\ TreeSound
    /\ CacheAccurate
    /\ \A w \in Workers : Local(tree, pc[w], req[w], frame[w])

-----------------------------------------------------------------------------
(* Paths                                                                   *)

LEMMA PathsAreSequences ==
    \A q : q \in Paths <=> q \in Seq(Names) /\ Len(q) <= MaxDepth
<1>1. MaxDepth \in Nat
  BY BoundsAssumption
<1>2. ASSUME NEW q \in Paths PROVE q \in Seq(Names) /\ Len(q) <= MaxDepth
  <2>1. PICK n \in 0..MaxDepth : q \in [1..n -> Names]
    BY DEF Paths
  <2> QED BY <2>1, <1>1
<1>3. ASSUME NEW q \in Seq(Names), Len(q) <= MaxDepth PROVE q \in Paths
  <2>1. q \in [1..Len(q) -> Names] /\ Len(q) \in 0..MaxDepth
    BY <1>3, <1>1, LenProperties
  <2> QED BY <2>1 DEF Paths
<1> QED BY <1>2, <1>3

LEMMA EmptyPath == <<>> \in Paths /\ Len(<<>>) = 0
<1>1. <<>> \in Seq(Names) /\ Len(<<>>) = 0
  BY EmptySeq
<1>2. 0 <= MaxDepth
  BY BoundsAssumption
<1> QED BY <1>1, <1>2, PathsAreSequences

LEMMA NamedPaths ==
    ASSUME NEW q \in Named
    PROVE  q \in Paths /\ q \in Seq(Names) /\ Len(q) \in 1..MaxDepth
<1>1. q \in Seq(Names) /\ Len(q) <= MaxDepth /\ q # <<>>
  BY PathsAreSequences DEF Named
<1>2. Len(q) \in Nat \ {0}
  BY <1>1, EmptySeq
<1> QED BY <1>1, <1>2, BoundsAssumption DEF Named

(* A prefix of a path is a path, and the next name leads to the next one.  *)
LEMMA Prefixes ==
    ASSUME NEW q \in Paths, NEW n \in 0..Len(q)
    PROVE  /\ Upto(q, n) \in Paths
           /\ Len(Upto(q, n)) = n
           /\ n > 0 => Upto(q, n) \in Named
           /\ n < Len(q) => /\ q[n + 1] \in Names
                            /\ Append(Upto(q, n), q[n + 1]) = Upto(q, n + 1)
<1>1. q \in Seq(Names) /\ Len(q) \in Nat /\ Len(q) <= MaxDepth
  BY PathsAreSequences, LenProperties
<1>2. \A i \in 1..Len(q) : q[i] \in Names
  BY <1>1, ElementOfSeq
<1>3. Upto(q, n) \in Seq(Names) /\ Len(Upto(q, n)) = n
  BY <1>1, <1>2, SubSeqProperties DEF Upto
<1>4. Upto(q, n) \in Paths
  BY <1>1, <1>3, PathsAreSequences, BoundsAssumption
<1>5. n > 0 => Upto(q, n) \in Named
  BY <1>3, <1>4, EmptySeq DEF Named
<1>6. ASSUME n < Len(q) PROVE Append(Upto(q, n), q[n + 1]) = Upto(q, n + 1)
  <2>1. q[n + 1] \in Names
    BY <1>1, <1>2, <1>6
  <2>2. SubSeq(q, 1, n + 1) = SubSeq(q, 1, (n + 1) - 1) \o <<q[n + 1]>>
    BY <1>1, <1>6, SubSeqRecursiveSecond
  <2>3. (n + 1) - 1 = n
    BY <1>1
  <2> QED BY <1>3, <2>1, <2>2, <2>3, AppendIsConcat DEF Upto
<1> QED BY <1>1, <1>2, <1>3, <1>4, <1>5, <1>6

LEMMA WholePath == \A q \in Paths : Upto(q, Len(q)) = q
  BY PathsAreSequences, SubSeqFull DEF Upto

LEMMA Parents ==
    ASSUME NEW q \in Named
    PROVE  /\ Parent(q) \in Paths
           /\ Parent(q) = Upto(q, Len(q) - 1)
           /\ q[Len(q)] \in Names
           /\ Append(Parent(q), q[Len(q)]) = q
<1>1. q \in Paths /\ Len(q) \in 1..MaxDepth
  BY NamedPaths
<1>2. Len(q) - 1 \in 0..Len(q) /\ Len(q) - 1 < Len(q) /\ (Len(q) - 1) + 1 = Len(q)
  BY <1>1, BoundsAssumption
<1>3. Parent(q) = Upto(q, Len(q) - 1)
  BY DEF Parent, Upto
<1> QED BY <1>1, <1>2, <1>3, Prefixes, WholePath

(* The parent of the next prefix is the one before.                        *)
LEMMA PrefixOfPrefix ==
    ASSUME NEW q \in Paths, NEW n \in 0..Len(q), NEW m \in 0..n
    PROVE  Upto(Upto(q, n), m) = Upto(q, m)
<1>1. q \in Seq(Names) /\ Len(q) \in Nat
  BY PathsAreSequences, LenProperties
<1>2. Upto(q, n) \in Paths /\ Len(Upto(q, n)) = n
  BY Prefixes
<1>3. m \in 0..Len(q) /\ m \in 0..Len(Upto(q, n))
  BY <1>1, <1>2
<1>4. /\ Upto(q, m) \in Seq(Names) /\ Len(Upto(q, m)) = m
      /\ Upto(Upto(q, n), m) \in Seq(Names) /\ Len(Upto(Upto(q, n), m)) = m
  BY <1>2, <1>3, Prefixes, PathsAreSequences
<1>5. \A i \in 1..Len(q) : q[i] \in Names
  BY <1>1, ElementOfSeq
<1>6. \A i \in 1..n : Upto(q, n)[i] = q[i] /\ q[i] \in Names
  <2>1. \A i \in 1..n : q[i] \in Names
    BY <1>1, <1>5
  <2>2. \A i \in 1..(n - 1 + 1) : SubSeq(q, 1, n)[i] = q[1 + i - 1]
    BY <2>1, SubSeqProperties
  <2> QED BY <2>1, <2>2 DEF Upto
<1>7. \A i \in 1..m : Upto(q, m)[i] = q[i]
  <2>1. \A i \in 1..m : q[i] \in Names
    BY <1>1, <1>5
  <2>2. \A i \in 1..(m - 1 + 1) : SubSeq(q, 1, m)[i] = q[1 + i - 1]
    BY <2>1, SubSeqProperties
  <2> QED BY <2>2 DEF Upto
<1>8. \A i \in 1..m : Upto(Upto(q, n), m)[i] = Upto(q, n)[i]
  <2> DEFINE s == Upto(q, n)
  <2>1. \A i \in 1..m : s[i] \in Names
    BY <1>6
  <2> HIDE DEF s
  <2>2. \A i \in 1..(m - 1 + 1) : SubSeq(s, 1, m)[i] = s[1 + i - 1]
    BY <2>1, SubSeqProperties
  <2>3. \A i \in 1..m : Upto(s, m)[i] = s[i]
    BY <2>2 DEF Upto
  <2> QED BY <2>3 DEF s
<1>9. \A i \in 1..m : Upto(Upto(q, n), m)[i] = Upto(q, m)[i]
  BY <1>6, <1>7, <1>8
<1> QED BY <1>4, <1>9, SeqEqual
-----------------------------------------------------------------------------
(* The provider                                                            *)

LEMMA IdsDistinct ==
    RootId \in Ids /\ NoDir \notin Ids /\ RootId \notin DirIds /\ DirIds \subseteq Ids
  BY IdsAssumption DEF Ids

(* An id is at one path, so that a call with it goes to that path.         *)
LEMMA PathOfId ==
    ASSUME TreeSound, NEW p \in Profiles, NEW q \in Paths, tree[p][q] # NoDir
    PROVE  Exists(p, tree[p][q]) /\ PathOf(p, tree[p][q]) = q
<1>1. Exists(p, tree[p][q])
  BY DEF Exists
<1>2. \A r \in Paths : tree[p][r] = tree[p][q] => r = q
  BY DEF TreeSound
<1>3. \E r \in Paths : tree[p][r] = tree[p][q]
  OBVIOUS
<1>4. PathOf(p, tree[p][q]) \in Paths /\ tree[p][PathOf(p, tree[p][q])] = tree[p][q]
  BY <1>3 DEF PathOf
<1> QED BY <1>1, <1>2, <1>4

LEMMA ListedId ==
    ASSUME TreeSound, NEW p \in Profiles, NEW q \in Paths, tree[p][q] # NoDir,
           NEW n, Append(q, n) \in Paths
    PROVE  Listed(p, tree[p][q], n) = tree[p][Append(q, n)]
  BY PathOfId DEF Listed

\* Slots fill and keep their ids.
Grows == \A p \in Profiles, q \in Paths : tree[p][q] # NoDir => tree'[p][q] = tree[p][q]

(* A directory is created where there was none, with an id that is new.    *)
LEMMA Creation ==
    ASSUME TreeSound, NEW p \in Profiles, NEW q \in Named, NEW id \in Fresh,
           tree[p][Parent(q)] # NoDir,
           CloudMkdir(p, tree[p][Parent(q)], q[Len(q)], id)
    PROVE  /\ tree[p][q] = NoDir
           /\ tree' = [tree EXCEPT ![p][q] = id]
           /\ used' = [used EXCEPT ![p] = @ \cup {id}]
           /\ id \in DirIds
           /\ \A o \in Profiles, r \in Paths : tree[o][r] # id
<1>1. q \in Paths /\ Parent(q) \in Paths /\ Append(Parent(q), q[Len(q)]) = q
  BY Parents, NamedPaths
<1>2. PathOf(p, tree[p][Parent(q)]) = Parent(q)
  BY <1>1, PathOfId
<1>3. id \in DirIds /\ \A o \in Profiles : id \notin used[o]
  BY DEF Fresh
<1>4. \A o \in Profiles, r \in Paths : tree[o][r] # id
  BY <1>3 DEF TreeSound
<1> QED BY <1>1, <1>2, <1>3, <1>4 DEF CloudMkdir

LEMMA CreationIsSound ==
    ASSUME Types, TreeSound, CacheAccurate, NEW p \in Profiles, NEW q \in Named, NEW id \in DirIds,
           tree[p][q] = NoDir,
           tree' = [tree EXCEPT ![p][q] = id],
           used' = [used EXCEPT ![p] = @ \cup {id}],
           \A o \in Profiles, r \in Paths : tree[o][r] # id,
           UNCHANGED <<memory, table>>
    PROVE  /\ tree' \in [Profiles -> [Paths -> Ids \cup {NoDir}]]
           /\ used' \in [Profiles -> SUBSET DirIds]
           /\ tree'[p][q] = id
           /\ Grows /\ TreeSound' /\ CacheAccurate'
<1>1. q \in Paths /\ q # <<>> /\ <<>> \in Paths
  BY EmptyPath DEF Named
<1>2. id \in Ids /\ id # NoDir /\ id # RootId
  BY IdsDistinct
<1>3. /\ tree' \in [Profiles -> [Paths -> Ids \cup {NoDir}]]
      /\ used' \in [Profiles -> SUBSET DirIds]
  BY <1>1, <1>2 DEF Types
<1>4. \A o \in Profiles, r \in Paths :
          tree'[o][r] = IF o = p /\ r = q THEN id ELSE tree[o][r]
  BY <1>1 DEF Types
<1>5. \A o \in Profiles : used'[o] = IF o = p THEN used[p] \cup {id} ELSE used[o]
  BY DEF Types
<1>6. Grows
  BY <1>4 DEF Grows
<1>7. TreeSound'
  <2> SUFFICES ASSUME NEW o \in Profiles, NEW r \in Paths
               PROVE  /\ tree'[o][<<>>] = RootId
                      /\ tree'[o][r] = RootId => r = <<>>
                      /\ tree'[o][r] \in DirIds => tree'[o][r] \in used'[o]
                      /\ \A t \in Paths : tree'[o][r] = tree'[o][t] /\ tree'[o][r] # NoDir => r = t
    BY DEF TreeSound
  <2>1. tree'[o][<<>>] = RootId
    BY <1>1, <1>4 DEF TreeSound
  <2>2. tree'[o][r] = RootId => r = <<>>
    BY <1>2, <1>4 DEF TreeSound
  <2>3. tree'[o][r] \in DirIds => tree'[o][r] \in used'[o]
    BY <1>4, <1>5 DEF TreeSound
  <2>4. ASSUME NEW t \in Paths, tree'[o][r] = tree'[o][t], tree'[o][r] # NoDir PROVE r = t
    BY <1>4, <2>4 DEF TreeSound
  <2> QED BY <2>1, <2>2, <2>3, <2>4
<1>8. CacheAccurate'
  BY <1>4 DEF CacheAccurate
<1> QED BY <1>1, <1>3, <1>4, <1>6, <1>7, <1>8

-----------------------------------------------------------------------------
(* Control                                                                 *)

LEMMA RequestKinds ==
    ASSUME Growing, NEW r \in Requests
    PROVE  /\ r.profile \in Profiles /\ r.path \in Named
           /\ r.op \in {"mkdir", "add", "list"}
  BY DEF Growing, PathRequests

(* What a request knows stays true while directories appear.               *)
LEMMA LocalKept ==
    ASSUME Growing, Grows, NEW p, NEW r, NEW f \in Frames, Local(tree, p, r, f)
    PROVE  Local(tree', p, r, f)
<1> SUFFICES ASSUME p # "idle" PROVE Local(tree', p, r, f)
  BY DEF Local
<1>1. r \in Requests /\ GoalFits(tree, r, f) /\ IdFits(tree, p, r, f)
  BY DEF Local
<1>2. r.profile \in Profiles /\ r.path \in Named /\ r.path \in Paths
  BY <1>1, RequestKinds, NamedPaths
<1>3. f.goal \in Named /\ f.goal \in Paths /\ Parent(f.goal) \in Paths
  BY <1>1, NamedPaths, Parents DEF GoalFits
<1>4. f.held # NoDir /\ f.at # NoDir /\ f.walked \in Nat /\ Len(f.goal) \in Nat
  BY <1>3, IdsDistinct, NamedPaths, BoundsAssumption DEF Frames
<1>5. f.walked < Len(f.goal) => Upto(f.goal, f.walked) \in Paths
  BY <1>3, <1>4, Prefixes
<1>6. GoalFits(tree', r, f)
  BY <1>1, <1>2, <1>3, <1>4 DEF GoalFits, Grows
<1>7. IdFits(tree', p, r, f)
  BY <1>1, <1>2, <1>3, <1>4, <1>5 DEF IdFits, Grows
<1> QED BY <1>1, <1>6, <1>7 DEF Local

\* One worker goes on, the others stay where they are.
Goes(w) ==
    /\ pc' \in [Workers -> Pcs]
    /\ req' \in [Workers -> Requests \cup {NoRequest}]
    /\ frame' \in [Workers -> Frames]
    /\ \A v \in Workers \ {w} : pc'[v] = pc[v] /\ req'[v] = req[v] /\ frame'[v] = frame[v]

LEMMA ToGoes ==
    ASSUME Types, NEW w \in Workers, NEW p \in Pcs, NEW f \in Frames, To(w, p, f), UNCHANGED req
    PROVE  Goes(w) /\ pc'[w] = p /\ frame'[w] = f /\ req'[w] = req[w]
  BY DEF Types, To, Goes

LEMMA BlankFrame == Blank \in Frames
  BY EmptyPath, IdsDistinct, BoundsAssumption DEF Blank, Frames, Stages

LEMMA LeaveGoes ==
    ASSUME Types, NEW w \in Workers, Leave(w)
    PROVE  Goes(w) /\ pc'[w] = "idle"
  BY BlankFrame DEF Types, Leave, Goes, Pcs

LEMMA ResolveGoes ==
    ASSUME Types, NEW w \in Workers, NEW why \in Stages, NEW path \in Paths, NEW held \in Ids,
           Resolve(w, why, path, held), UNCHANGED req
    PROVE  /\ Goes(w) /\ pc'[w] = "memory" /\ req'[w] = req[w]
           /\ frame'[w].stage = why /\ frame'[w].goal = path /\ frame'[w].held = held
<1> DEFINE f == [Blank EXCEPT !.stage = why, !.goal = path, !.held = held]
<1>1. /\ f \in Frames
      /\ f.stage = why /\ f.goal = path /\ f.held = held
  BY BlankFrame DEF Frames
<1>2. To(w, "memory", f)
  BY DEF Resolve
<1> HIDE DEF f
<1> QED BY <1>1, <1>2, ToGoes DEF Pcs

\* What is known of a request whose resolution begins.
LEMMA MemoryFits ==
    ASSUME NEW t, NEW r \in Requests, NEW f, GoalFits(t, r, f)
    PROVE  Local(t, "memory", r, f)
  BY DEF Local, IdFits

(* resolveDirID has found the right id: the request goes on with the next  *)
(* prefix below it, or is where it was going to.                           *)
LEMMA FoundFits ==
    ASSUME Types, Growing, NEW w \in Workers, NEW id \in Ids, req[w] \in Requests,
           GoalFits(tree, req[w], frame[w]),
           tree[req[w].profile][frame[w].goal] = id,
           Found(w, id), UNCHANGED req
    PROVE  Goes(w) /\ Local(tree, pc'[w], req'[w], frame'[w])
<1> DEFINE r == req[w]
           f == frame[w]
           end == IF r.op = "add" THEN "act" ELSE "done"
           found == [f EXCEPT !.at = id]
<1>1. r.profile \in Profiles /\ r.path \in Named /\ r.op \in {"mkdir", "add", "list"}
  BY RequestKinds
<1>2. f \in Frames
  BY DEF Types
<1>3. /\ found \in Frames /\ end \in Pcs
      /\ found.at = id /\ found.goal = f.goal /\ found.stage = f.stage /\ found.held = f.held
  BY <1>2 DEF Frames, Pcs
<1>4. ASSUME f.goal = r.path, To(w, end, found)
      PROVE  Goes(w) /\ Local(tree, pc'[w], req'[w], frame'[w])
  <2>1. Goes(w) /\ pc'[w] = end /\ frame'[w] = found /\ req'[w] = r
    BY <1>3, <1>4, ToGoes
  <2>2. GoalFits(tree, r, found)
    BY <1>3 DEF GoalFits
  <2>3. IdFits(tree, end, r, found)
    BY <1>3, <1>4 DEF IdFits
  <2> QED BY <2>1, <2>2, <2>3 DEF Local
<1>5. CASE f.stage = "whole"
  <2>1. f.goal = r.path
    BY <1>5 DEF GoalFits
  <2>2. To(w, end, found)
    BY <1>5 DEF Found
  <2> QED BY <2>1, <2>2, <1>4
<1>6. CASE f.stage \in {"prefix", "exists", "made"}
  <2>1. EnsureNext(w, id)
    BY <1>6 DEF Found
  <2>2. CASE f.goal = r.path
    BY <2>1, <2>2, <1>4 DEF EnsureNext
  <2>3. CASE f.goal # r.path
    <3> DEFINE n == Len(f.goal)
               next == Upto(r.path, n + 1)
    <3>1. f.goal \in Named /\ n \in Nat /\ n <= Len(r.path) /\ f.goal = Upto(r.path, n)
          /\ r.op \in {"mkdir", "add"}
      BY <1>6, NamedPaths DEF GoalFits
    <3>2. r.path \in Paths /\ Len(r.path) \in Nat
      BY <1>1, NamedPaths
    <3>3. n # Len(r.path)
      BY <3>1, <3>2, <2>3, WholePath
    <3>4. n + 1 \in 0..Len(r.path) /\ n + 1 > 0 /\ n \in 0..(n + 1) /\ (n + 1) - 1 = n
      BY <3>1, <3>2, <3>3
    <3>5. next \in Named /\ next \in Paths /\ Len(next) = n + 1
      BY <3>2, <3>4, Prefixes, NamedPaths
    <3>6. Parent(next) = f.goal
      <4>1. Parent(next) = Upto(next, n)
        BY <3>4, <3>5, Parents
      <4> QED BY <4>1, <3>1, <3>2, <3>4, PrefixOfPrefix
    <3>7. Resolve(w, "prefix", next, id)
      BY <2>1, <2>3 DEF EnsureNext
    <3> HIDE DEF next
    <3>8. /\ Goes(w) /\ pc'[w] = "memory" /\ req'[w] = r
          /\ frame'[w].stage = "prefix" /\ frame'[w].goal = next /\ frame'[w].held = id
      BY <3>5, <3>7, ResolveGoes DEF Stages
    <3>9. GoalFits(tree, r, frame'[w])
      BY <3>1, <3>2, <3>4, <3>5, <3>6, <3>8 DEF GoalFits, next
    <3> QED BY <3>8, <3>9, MemoryFits
  <2> QED BY <2>2, <2>3
<1> QED BY <1>5, <1>6 DEF GoalFits

(* It has found none: ensureDir takes over, or creates the directory.      *)
LEMMA NotFoundFits ==
    ASSUME Types, TreeSound, Growing, NEW w \in Workers, req[w] \in Requests,
           GoalFits(tree, req[w], frame[w]), NotFound(w)
    PROVE  Goes(w) /\ Local(tree, pc'[w], req'[w], frame'[w])
<1> DEFINE r == req[w]
           f == frame[w]
           first == Upto(r.path, 1)
<1>1. r.profile \in Profiles /\ r.path \in Named /\ r.op \in {"mkdir", "add", "list"}
  BY RequestKinds
<1>2. f \in Frames /\ f.stage \in {"whole", "prefix", "exists", "made"}
  BY DEF Types, GoalFits
<1>3. CASE f.stage = "whole" /\ r.op # "list"
  <2>1. Resolve(w, "prefix", first, RootId) /\ UNCHANGED req
    BY <1>3 DEF NotFound, Stay
  <2>2. r.path \in Paths /\ Len(r.path) \in Nat /\ 1 \in 0..Len(r.path) /\ 1 > 0
    BY <1>1, NamedPaths, BoundsAssumption
  <2>3. first \in Named /\ first \in Paths /\ Len(first) = 1
    BY <2>2, Prefixes, NamedPaths
  <2>4. Parent(first) = <<>>
    <3>1. Len(first) - 1 = 0
      BY <2>3
    <3>2. SubSeq(first, 1, 0) = <<>>
      BY SubSeqEmpty, 0 < 1
    <3> QED BY <3>1, <3>2 DEF Parent
  <2> HIDE DEF first
  <2>5. /\ Goes(w) /\ pc'[w] = "memory" /\ req'[w] = r
        /\ frame'[w].stage = "prefix" /\ frame'[w].goal = first /\ frame'[w].held = RootId
    BY <2>1, <2>3, ResolveGoes, IdsDistinct DEF Stages
  <2>6. tree[r.profile][<<>>] = RootId
    BY <1>1, <2>2 DEF TreeSound
  <2>7. GoalFits(tree, r, frame'[w])
    <3>1. first = Upto(r.path, Len(first))
      BY <2>3, Zenon DEF first
    <3>3. Len(first) <= Len(r.path)
      BY <2>2, <2>3
    <3>2. r.op \in {"mkdir", "add"}
      BY <1>1, <1>3
    <3> QED BY <2>3, <2>4, <2>5, <2>6, <3>1, <3>2, <3>3 DEF GoalFits
  <2> QED BY <2>5, <2>7, MemoryFits
<1>4. CASE f.stage = "prefix"
  <2>1. To(w, "mkdir", f) /\ UNCHANGED req
    BY <1>4 DEF NotFound, Stay
  <2>2. Goes(w) /\ pc'[w] = "mkdir" /\ frame'[w] = f /\ req'[w] = r
    BY <1>2, <2>1, ToGoes DEF Pcs
  <2> QED BY <1>4, <2>2 DEF Local, IdFits
<1>5. CASE ~(f.stage = "whole" /\ r.op # "list") /\ f.stage # "prefix"
  <2>1. Leave(w)
    BY <1>2, <1>5 DEF NotFound
  <2> QED BY <2>1, LeaveGoes DEF Local
<1> QED BY <1>3, <1>4, <1>5

-----------------------------------------------------------------------------
(* Steps                                                                   *)

\* The worker goes on, knowing what is true; who has an answer leaves.
Fits(w) ==
    /\ Goes(w)
    /\ Local(tree', pc'[w], req'[w], frame'[w])
    /\ pc[w] \in {"act", "done"} => pc'[w] = "idle"

\* The directories stay, the caches are right.
Remembers ==
    /\ UNCHANGED <<tree, used>>
    /\ memory' \in [Profiles -> [Paths -> Ids \cup {NoDir}]]
    /\ table' \in [Profiles -> [Paths -> Ids \cup {NoDir}]]
    /\ CacheAccurate'

\* One directory more, with an id of its own.
Creates ==
    \E p \in Profiles, q \in Named, id \in DirIds :
        /\ tree[p][q] = NoDir
        /\ tree[p][Parent(q)] # NoDir
        /\ \A o \in Profiles, r \in Paths : tree[o][r] # id
        /\ tree' = [tree EXCEPT ![p][q] = id]
        /\ used' = [used EXCEPT ![p] = @ \cup {id}]
        /\ UNCHANGED <<memory, table>>

\* The worker has no answer, neither before nor after the step.
Silent(w) == pc[w] \notin {"act", "done"} /\ pc'[w] \notin {"act", "done"}

LEMMA NothingWritten ==
    ASSUME Types, CacheAccurate, UNCHANGED <<tree, used, memory, table>>
    PROVE  Remembers
  BY DEF Types, CacheAccurate, Remembers

LEMMA Leaves ==
    ASSUME Types, CacheAccurate, NEW w \in Workers, Leave(w),
           UNCHANGED <<tree, used, memory, table>>
    PROVE  Fits(w) /\ Remembers
  BY LeaveGoes, NothingWritten DEF Fits, Local

\* What is known of a worker in the middle of a request.
LEMMA Busy ==
    ASSUME GrowingInv, Growing, NEW w \in Workers, pc[w] # "idle"
    PROVE  /\ Types /\ TreeSound /\ CacheAccurate
           /\ req[w] \in Requests /\ req[w].profile \in Profiles
           /\ frame[w] \in Frames
           /\ GoalFits(tree, req[w], frame[w]) /\ IdFits(tree, pc[w], req[w], frame[w])
           /\ frame[w].goal \in Named /\ frame[w].goal \in Paths
           /\ frame[w].at \in Ids /\ frame[w].held \in Ids
<1>1. Types /\ TreeSound /\ CacheAccurate /\ Local(tree, pc[w], req[w], frame[w])
  BY DEF GrowingInv
<1>2. /\ req[w] \in Requests /\ GoalFits(tree, req[w], frame[w])
      /\ IdFits(tree, pc[w], req[w], frame[w])
  BY <1>1 DEF Local
<1>3. frame[w] \in Frames /\ frame[w].at \in Ids /\ frame[w].held \in Ids
  BY <1>1 DEF Types, Frames
<1>4. frame[w].goal \in Named /\ frame[w].goal \in Paths
  BY <1>2, NamedPaths DEF GoalFits
<1> QED BY <1>1, <1>2, <1>3, <1>4, RequestKinds

LEMMA FoundGoesOn ==
    ASSUME GrowingInv, Growing, NEW w \in Workers, pc[w] # "idle", pc[w] \notin {"act", "done"},
           NEW id \in Ids, tree[req[w].profile][frame[w].goal] = id,
           Found(w, id), UNCHANGED <<req, tree>>
    PROVE  Fits(w)
  BY Busy, FoundFits DEF Fits

LEMMA NotFoundGoesOn ==
    ASSUME GrowingInv, Growing, NEW w \in Workers, pc[w] # "idle", pc[w] \notin {"act", "done"},
           NotFound(w), UNCHANGED tree
    PROVE  Fits(w)
  BY Busy, NotFoundFits DEF Fits

(* A step inside of a resolution changes the id and how far the walk is.   *)
LEMMA GoesOn ==
    ASSUME GrowingInv, Growing, NEW w \in Workers, pc[w] # "idle", pc[w] \notin {"act", "done"},
           NEW p \in Pcs, NEW f \in Frames, To(w, p, f), UNCHANGED <<req, tree>>,
           f.stage = frame[w].stage, f.goal = frame[w].goal, f.held = frame[w].held,
           IdFits(tree, p, req[w], f)
    PROVE  Fits(w)
<1>1. GoalFits(tree, req[w], f) /\ req[w] \in Requests
  BY Busy DEF GoalFits
<1>2. Goes(w) /\ pc'[w] = p /\ frame'[w] = f /\ req'[w] = req[w]
  BY Busy, ToGoes
<1> QED BY <1>1, <1>2 DEF Fits, Local

LEMMA AcceptFits ==
    ASSUME GrowingInv, Growing, NEW w \in Workers, Accept(w)
    PROVE  Fits(w) /\ Remembers
<1>1. PICK r \in Requests :
          /\ req' = [req EXCEPT ![w] = r]
          /\ Resolve(w, IF r.op \in {"mkdir", "add", "list"} THEN "whole" ELSE "target",
                     r.path, RootId)
  BY DEF Accept
<1>2. r.path \in Named /\ r.path \in Paths /\ r.op \in {"mkdir", "add", "list"}
  BY RequestKinds, NamedPaths
<1> DEFINE f == [Blank EXCEPT !.stage = "whole", !.goal = r.path, !.held = RootId]
<1>3. To(w, "memory", f)
  BY <1>1, <1>2 DEF Resolve
<1>4. f \in Frames /\ f.stage = "whole" /\ f.goal = r.path
  BY <1>2, BlankFrame, IdsDistinct DEF Frames, Stages
<1> HIDE DEF f
<1>5. Types /\ CacheAccurate
  BY DEF GrowingInv
<1>6. Goes(w) /\ pc'[w] = "memory" /\ req'[w] = r /\ frame'[w] = f
  BY <1>1, <1>3, <1>4, <1>5 DEF Types, To, Goes, Pcs
<1>7. GoalFits(tree, r, f)
  <2>1. r.path = Upto(r.path, Len(r.path))
    BY <1>2, WholePath
  <2>2. Len(r.path) <= Len(r.path)
    BY <1>2, NamedPaths, BoundsAssumption
  <2> QED BY <1>2, <1>4, <2>1, <2>2 DEF GoalFits
<1>8. UNCHANGED <<tree, used, memory, table>> /\ pc[w] = "idle"
  BY DEF Accept
<1> QED BY <1>5, <1>6, <1>7, <1>8, MemoryFits, NothingWritten DEF Fits

LEMMA ReadMemoryFits ==
    ASSUME GrowingInv, Growing, NEW w \in Workers, ReadMemory(w)
    PROVE  Fits(w) /\ Remembers
<1> DEFINE id == memory[req[w].profile][frame[w].goal]
<1>1. /\ pc[w] = "memory" /\ UNCHANGED <<tree, used, memory, table, req>>
      /\ IF id # NoDir THEN Found(w, id)
         ELSE To(w, IF Persistent THEN "table" ELSE "lookup", frame[w])
  BY DEF ReadMemory
<1>2. CASE id # NoDir
  <2>1. id \in Ids /\ tree[req[w].profile][frame[w].goal] = id
    BY <1>1, <1>2, Busy DEF Types, CacheAccurate
  <2> HIDE DEF id
  <2> QED BY <1>1, <1>2, <2>1, Busy, FoundGoesOn, NothingWritten
<1>3. CASE id = NoDir
  <2> DEFINE p == IF Persistent THEN "table" ELSE "lookup"
  <2>1. To(w, p, frame[w]) /\ p \in Pcs
    BY <1>1, <1>3 DEF Pcs
  <2>2. IdFits(tree, p, req[w], frame[w])
    BY DEF IdFits
  <2> HIDE DEF p, id
  <2> QED BY <1>1, <2>1, <2>2, Busy, GoesOn, NothingWritten
<1> QED BY <1>2, <1>3

LEMMA ReadTableFits ==
    ASSUME GrowingInv, Growing, NEW w \in Workers, ReadTable(w)
    PROVE  Fits(w) /\ Remembers
<1> DEFINE id == table[req[w].profile][frame[w].goal]
           f == [frame[w] EXCEPT !.at = id]
<1>1. pc[w] = "table" /\ UNCHANGED <<tree, used, memory, table, req>>
  BY DEF ReadTable
<1>2. CASE id # NoDir /\ To(w, "fill", f)
  <2>1. id \in Ids /\ tree[req[w].profile][frame[w].goal] = id
    BY <1>1, <1>2, Busy DEF Types, CacheAccurate
  <2>2. /\ f \in Frames /\ "fill" \in Pcs
        /\ f.at = id /\ f.stage = frame[w].stage /\ f.goal = frame[w].goal /\ f.held = frame[w].held
    BY <1>1, <2>1, Busy DEF Frames, Pcs
  <2>3. IdFits(tree, "fill", req[w], f)
    BY <2>1, <2>2 DEF IdFits
  <2> HIDE DEF f, id
  <2> QED BY <1>1, <1>2, <2>2, <2>3, Busy, GoesOn, NothingWritten
<1>3. CASE To(w, "lookup", frame[w])
  <2>1. IdFits(tree, "lookup", req[w], frame[w]) /\ "lookup" \in Pcs
    BY DEF IdFits, Pcs
  <2> QED BY <1>1, <1>3, <2>1, Busy, GoesOn, NothingWritten
<1> QED BY <1>2, <1>3 DEF ReadTable

LEMMA LookupFits ==
    ASSUME GrowingInv, Growing, NEW w \in Workers, Lookup(w)
    PROVE  Fits(w) /\ Remembers
<1> DEFINE id == tree[req[w].profile][frame[w].goal]
           f == [frame[w] EXCEPT !.at = id]
           g == [frame[w] EXCEPT !.at = RootId, !.walked = 0]
<1>1. pc[w] = "lookup" /\ UNCHANGED <<tree, used, memory, table, req>>
  BY DEF Lookup
<1>2. CASE id # NoDir /\ To(w, "saveMemory", f)
  <2>1. id \in Ids
    BY <1>1, <1>2, Busy DEF Types
  <2>2. /\ f \in Frames /\ "saveMemory" \in Pcs
        /\ f.at = id /\ f.stage = frame[w].stage /\ f.goal = frame[w].goal /\ f.held = frame[w].held
    BY <1>1, <2>1, Busy DEF Frames, Pcs
  <2>3. IdFits(tree, "saveMemory", req[w], f)
    BY <2>1, <2>2 DEF IdFits
  <2> HIDE DEF f, id
  <2> QED BY <1>1, <1>2, <2>2, <2>3, Busy, GoesOn, NothingWritten
<1>3. CASE To(w, "walk", g)
  <2>1. /\ g \in Frames /\ "walk" \in Pcs /\ g.at = RootId /\ g.walked = 0
        /\ g.stage = frame[w].stage /\ g.goal = frame[w].goal /\ g.held = frame[w].held
    <3>1. 0 \in 0..MaxDepth /\ RootId \in Ids
      BY IdsDistinct, BoundsAssumption
    <3>2. frame[w] \in Frames
      BY <1>1, Busy
    <3> QED BY <3>1, <3>2 DEF Frames, Pcs
  <2>2. 0 < Len(g.goal)
    BY <1>1, <2>1, Busy, NamedPaths
  <2>3. Upto(g.goal, 0) = <<>>
    BY SubSeqEmpty, 0 < 1 DEF Upto
  <2>4. tree[req[w].profile][<<>>] = RootId
    BY <1>1, Busy DEF TreeSound
  <2> HIDE DEF g
  <2>5. IdFits(tree, "walk", req[w], g)
    BY <2>1, <2>2, <2>3, <2>4 DEF IdFits
  <2> QED BY <1>1, <1>3, <2>1, <2>5, Busy, GoesOn, NothingWritten
<1> QED BY <1>2, <1>3 DEF Lookup

LEMMA WalkFits ==
    ASSUME GrowingInv, Growing, NEW w \in Workers, Walk(w)
    PROVE  Fits(w) /\ Remembers
<1> DEFINE f == frame[w]
           n == f.walked
           id == Listed(req[w].profile, f.at, f.goal[n + 1])
           next == IF n + 1 = Len(f.goal) THEN "saveMemory" ELSE "walk"
           g == [f EXCEPT !.at = id, !.walked = n + 1]
<1>1. pc[w] = "walk" /\ UNCHANGED <<tree, used, memory, table>>
  BY DEF Walk
<1>2. CASE NotFound(w)
  BY <1>1, <1>2, Busy, NotFoundGoesOn, NothingWritten
<1>3. CASE id # NoDir /\ To(w, next, g) /\ UNCHANGED req
  <2>1. /\ f \in Frames /\ n \in 0..MaxDepth /\ n < Len(f.goal) /\ f.at \in Ids
        /\ tree[req[w].profile][Upto(f.goal, n)] = f.at
        /\ req[w].profile \in Profiles /\ f.goal \in Paths /\ f.goal \in Named /\ Types /\ TreeSound
    BY <1>1, Busy DEF IdFits, Frames
  <2>2. Len(f.goal) \in 1..MaxDepth
    BY <2>1, NamedPaths
  <2>3. n \in 0..Len(f.goal) /\ n + 1 \in 0..Len(f.goal) /\ n + 1 \in 0..MaxDepth
    BY <2>1, <2>2, BoundsAssumption
  <2>4. /\ Upto(f.goal, n) \in Paths /\ Upto(f.goal, n + 1) \in Paths
        /\ Append(Upto(f.goal, n), f.goal[n + 1]) = Upto(f.goal, n + 1)
    BY <2>1, <2>3, Prefixes
  <2>5. id = tree[req[w].profile][Upto(f.goal, n + 1)]
    <3>1. f.at # NoDir
      BY <2>1, IdsDistinct
    <3> DEFINE q == Upto(f.goal, n)
               name == f.goal[n + 1]
    <3>2. q \in Paths /\ Append(q, name) \in Paths /\ tree[req[w].profile][q] = f.at
      BY <2>1, <2>4
    <3>3. Append(q, name) = Upto(f.goal, n + 1)
      BY <2>4
    <3> HIDE DEF q, name
    <3>4. Listed(req[w].profile, f.at, name) = tree[req[w].profile][Append(q, name)]
      BY <2>1, <3>1, <3>2, ListedId
    <3>5. id = Listed(req[w].profile, f.at, name)
      BY Zenon DEF name
    <3> QED BY <3>3, <3>4, <3>5
  <2>6. id \in Ids
    BY <1>3, <2>1, <2>4, <2>5 DEF Types
  <2>7. /\ g \in Frames /\ next \in Pcs /\ g.at = id /\ g.walked = n + 1
        /\ g.stage = f.stage /\ g.goal = f.goal /\ g.held = f.held
    BY <2>1, <2>3, <2>6 DEF Frames, Pcs
  <2>8. n + 1 = Len(f.goal) => Upto(f.goal, n + 1) = f.goal
    BY <2>1, WholePath
  <2>9. n + 1 # Len(f.goal) => n + 1 < Len(f.goal)
    BY <2>2, <2>3
  <2>10. IdFits(tree, next, req[w], g)
    BY <2>5, <2>7, <2>8, <2>9 DEF IdFits
  <2> HIDE DEF g, next
  <2> QED BY <1>1, <1>3, <2>7, <2>10, Busy, GoesOn, NothingWritten
<1> QED BY <1>2, <1>3 DEF Walk, Stay

LEMMA EntryTyped ==
    ASSUME NEW c \in [Profiles -> [Paths -> Ids \cup {NoDir}]],
           NEW p \in Profiles, NEW q \in Paths, NEW id \in Ids
    PROVE  [c EXCEPT ![p][q] = id] \in [Profiles -> [Paths -> Ids \cup {NoDir}]]
  OBVIOUS

(* Writing a right entry to either cache.                                  *)
LEMMA CacheWritten ==
    ASSUME Types, CacheAccurate, NEW p \in Profiles, NEW q \in Paths, NEW id \in Ids,
           tree[p][q] = id, UNCHANGED <<tree, used>>,
           memory' \in {memory, [memory EXCEPT ![p][q] = id]},
           table' \in {table, [table EXCEPT ![p][q] = id]}
    PROVE  Remembers
<1>1. /\ memory' \in [Profiles -> [Paths -> Ids \cup {NoDir}]]
      /\ table' \in [Profiles -> [Paths -> Ids \cup {NoDir}]]
  <2>1. /\ memory \in [Profiles -> [Paths -> Ids \cup {NoDir}]]
        /\ table \in [Profiles -> [Paths -> Ids \cup {NoDir}]]
    BY DEF Types
  <2>2. /\ [memory EXCEPT ![p][q] = id] \in [Profiles -> [Paths -> Ids \cup {NoDir}]]
        /\ [table EXCEPT ![p][q] = id] \in [Profiles -> [Paths -> Ids \cup {NoDir}]]
    BY <2>1, EntryTyped
  <2> QED BY <2>1, <2>2, Zenon
<1>2. \A o \in Profiles, r \in Paths :
          memory'[o][r] = memory[o][r] \/ (o = p /\ r = q /\ memory'[o][r] = id)
  BY DEF Types
<1>3. \A o \in Profiles, r \in Paths :
          table'[o][r] = table[o][r] \/ (o = p /\ r = q /\ table'[o][r] = id)
  BY DEF Types
<1>4. \A o \in Profiles, r \in Paths : {memory[o][r], table[o][r]} \subseteq {tree[o][r], NoDir}
  BY DEF CacheAccurate
<1>5. \A o \in Profiles, r \in Paths : memory'[o][r] \in {tree[o][r], NoDir}
  BY <1>2, <1>4
<1>6. \A o \in Profiles, r \in Paths : table'[o][r] \in {tree[o][r], NoDir}
  BY <1>3, <1>4
<1>7. CacheAccurate'
  BY <1>5, <1>6 DEF CacheAccurate
<1> QED BY <1>1, <1>7 DEF Remembers

LEMMA FillMemoryFits ==
    ASSUME GrowingInv, Growing, NEW w \in Workers, FillMemory(w)
    PROVE  Fits(w) /\ Remembers
<1>1. /\ pc[w] = "fill" /\ UNCHANGED <<tree, used, table, req>> /\ Found(w, frame[w].at)
      /\ memory' = [memory EXCEPT ![req[w].profile][frame[w].goal] = frame[w].at]
  BY DEF FillMemory, Remember
<1>2. tree[req[w].profile][frame[w].goal] = frame[w].at
  BY <1>1, Busy DEF IdFits
<1>3. Remembers
  BY <1>1, <1>2, Busy, CacheWritten
<1> QED BY <1>1, <1>2, <1>3, Busy, FoundGoesOn

LEMMA SaveMemoryFits ==
    ASSUME GrowingInv, Growing, NEW w \in Workers, SaveMemory(w)
    PROVE  Fits(w) /\ Remembers
<1>1. /\ pc[w] = "saveMemory" /\ UNCHANGED <<tree, used, table, req>>
      /\ memory' = [memory EXCEPT ![req[w].profile][frame[w].goal] = frame[w].at]
      /\ IF Persistent THEN To(w, "saveTable", frame[w]) ELSE Found(w, frame[w].at)
  BY DEF SaveMemory, Remember
<1>2. tree[req[w].profile][frame[w].goal] = frame[w].at
  BY <1>1, Busy DEF IdFits
<1>3. Remembers
  BY <1>1, <1>2, Busy, CacheWritten
<1>4. CASE Persistent
  <2>1. IdFits(tree, "saveTable", req[w], frame[w]) /\ "saveTable" \in Pcs
    BY <1>2 DEF IdFits, Pcs
  <2> QED BY <1>1, <1>3, <1>4, <2>1, Busy, GoesOn
<1>5. CASE ~Persistent
  BY <1>1, <1>2, <1>3, <1>5, Busy, FoundGoesOn
<1> QED BY <1>4, <1>5

LEMMA SaveTableFits ==
    ASSUME GrowingInv, Growing, NEW w \in Workers, SaveTable(w)
    PROVE  Fits(w) /\ Remembers
<1>1. /\ pc[w] = "saveTable" /\ UNCHANGED <<tree, used, memory, req>> /\ Found(w, frame[w].at)
      /\ table' \in {table, [table EXCEPT ![req[w].profile][frame[w].goal] = frame[w].at]}
  BY DEF SaveTable
<1>2. tree[req[w].profile][frame[w].goal] = frame[w].at
  BY <1>1, Busy DEF IdFits
<1>3. Remembers
  BY <1>1, <1>2, Busy, CacheWritten
<1> QED BY <1>1, <1>2, <1>3, Busy, FoundGoesOn

-----------------------------------------------------------------------------
(* Mkdir and the ends of requests                                          *)

(* The directory is made at the prefix, below the parent ensureDir found.  *)
LEMMA MkdirPlace ==
    ASSUME GrowingInv, Growing, NEW w \in Workers, NEW id \in Fresh, pc[w] = "mkdir",
           CloudMkdir(req[w].profile, frame[w].held, frame[w].goal[Len(frame[w].goal)], id)
    PROVE  /\ tree[req[w].profile][Parent(frame[w].goal)] = frame[w].held
           /\ frame[w].held # NoDir
           /\ tree[req[w].profile][frame[w].goal] = NoDir
           /\ tree' = [tree EXCEPT ![req[w].profile][frame[w].goal] = id]
           /\ used' = [used EXCEPT ![req[w].profile] = @ \cup {id}]
           /\ id \in DirIds
           /\ \A o \in Profiles, r \in Paths : tree[o][r] # id
<1>1. /\ TreeSound /\ req[w].profile \in Profiles /\ GoalFits(tree, req[w], frame[w])
      /\ frame[w].goal \in Named /\ frame[w].held \in Ids /\ frame[w].stage = "prefix"
  BY Busy DEF IdFits
<1>2. tree[req[w].profile][Parent(frame[w].goal)] = frame[w].held /\ frame[w].held # NoDir
  BY <1>1, IdsDistinct DEF GoalFits
<1> QED BY <1>1, <1>2, Creation

LEMMA MkdirFits ==
    ASSUME GrowingInv, Growing, NEW w \in Workers, Mkdir(w)
    PROVE  Fits(w) /\ Creates /\ Silent(w)
<1> DEFINE f == frame[w]
           p == req[w].profile
<1>1. /\ pc[w] = "mkdir" /\ UNCHANGED <<memory, table>>
  BY DEF Mkdir
<1>2. PICK id \in Fresh :
          /\ CloudMkdir(p, f.held, f.goal[Len(f.goal)], id)
          /\ \/ To(w, "saveMemory", [f EXCEPT !.stage = "made", !.at = id]) /\ UNCHANGED req
             \/ Leave(w)
  BY DEF Mkdir, Stay
<1>3. /\ Types /\ TreeSound /\ CacheAccurate /\ req[w] \in Requests /\ p \in Profiles
      /\ f \in Frames /\ GoalFits(tree, req[w], f)
      /\ f.goal \in Named /\ f.goal \in Paths /\ f.held \in Ids /\ f.stage = "prefix"
  BY <1>1, Busy DEF IdFits
<1>4. tree[p][Parent(f.goal)] = f.held /\ f.held # NoDir
  BY <1>1, <1>2, MkdirPlace
<1>5. /\ tree[p][f.goal] = NoDir
      /\ tree' = [tree EXCEPT ![p][f.goal] = id]
      /\ used' = [used EXCEPT ![p] = @ \cup {id}]
      /\ id \in DirIds
      /\ \A o \in Profiles, r \in Paths : tree[o][r] # id
  BY <1>1, <1>2, MkdirPlace
<1>6. Creates
  BY <1>1, <1>3, <1>4, <1>5 DEF Creates
<1>7. Grows /\ tree'[p][f.goal] = id
  BY <1>1, <1>3, <1>5, CreationIsSound
<1>8. CASE Leave(w)
  BY <1>1, <1>3, <1>6, <1>8, LeaveGoes DEF Fits, Local, Silent
<1>9. CASE To(w, "saveMemory", [f EXCEPT !.stage = "made", !.at = id]) /\ UNCHANGED req
  <2> DEFINE g == [f EXCEPT !.stage = "made", !.at = id]
  <2>1. id \in Ids /\ "made" \in Stages /\ "saveMemory" \in Pcs
    BY <1>5, IdsDistinct DEF Stages, Pcs
  <2>2. g \in Frames /\ g.stage = "made" /\ g.at = id /\ g.goal = f.goal /\ g.held = f.held
    BY <1>3, <2>1 DEF Frames
  <2>3. To(w, "saveMemory", g)
    BY <1>9
  <2> HIDE DEF g
  <2>4. Goes(w) /\ pc'[w] = "saveMemory" /\ frame'[w] = g /\ req'[w] = req[w]
    BY <1>3, <1>9, <2>1, <2>2, <2>3, ToGoes
  <2>5. Parent(f.goal) \in Paths
    BY <1>3, Parents
  <2>6. tree'[p][Parent(f.goal)] = f.held
    BY <1>3, <1>4, <1>7, <2>5 DEF Grows
  <2>7. GoalFits(tree', req[w], g)
    BY <1>3, <2>2, <2>6 DEF GoalFits
  <2>8. IdFits(tree', "saveMemory", req[w], g)
    BY <1>7, <2>2 DEF IdFits
  <2>9. Local(tree', pc'[w], req'[w], frame'[w])
    BY <1>3, <2>4, <2>7, <2>8 DEF Local
  <2> QED BY <1>1, <1>6, <2>4, <2>9 DEF Fits, Silent
<1> QED BY <1>2, <1>8, <1>9

LEMMA MkdirExistsFits ==
    ASSUME GrowingInv, Growing, NEW w \in Workers, MkdirExists(w)
    PROVE  Fits(w) /\ Remembers
<1> DEFINE f == frame[w]
<1>1. /\ pc[w] = "mkdir" /\ UNCHANGED <<tree, used, memory, table, req>>
      /\ Resolve(w, "exists", f.goal, f.held)
  BY DEF MkdirExists
<1>2. /\ Types /\ CacheAccurate /\ req[w] \in Requests /\ GoalFits(tree, req[w], f)
      /\ f.goal \in Paths /\ f.held \in Ids /\ f.stage = "prefix"
  BY <1>1, Busy DEF IdFits
<1>3. /\ Goes(w) /\ pc'[w] = "memory" /\ req'[w] = req[w]
      /\ frame'[w].stage = "exists" /\ frame'[w].goal = f.goal /\ frame'[w].held = f.held
  BY <1>1, <1>2, ResolveGoes DEF Stages
<1>4. GoalFits(tree, req[w], frame'[w])
  BY <1>2, <1>3 DEF GoalFits
<1>5. Local(tree, "memory", req[w], frame'[w])
  BY <1>2, <1>4, MemoryFits
<1> QED BY <1>1, <1>2, <1>3, <1>5, NothingWritten DEF Fits

LEMMA EndsFit ==
    ASSUME GrowingInv, Growing, NEW w \in Workers,
           MkdirFailed(w) \/ ActFailed(w) \/ Answer(w) \/ Act(w)
    PROVE  Fits(w) /\ Remembers
<1>1. Types /\ CacheAccurate
  BY DEF GrowingInv
<1>2. CASE MkdirFailed(w) \/ ActFailed(w) \/ Answer(w)
  BY <1>1, <1>2, Leaves DEF MkdirFailed, ActFailed, Answer
<1>3. CASE Act(w)
  <2>1. pc[w] = "act" /\ Leave(w) /\ UNCHANGED <<memory, table>>
    BY <1>3 DEF Act
  <2>2. req[w].op = "add"
    BY <2>1, Busy DEF IdFits
  <2>3. UNCHANGED <<tree, used>>
    BY <1>3, <2>2 DEF Act
  <2> QED BY <1>1, <2>1, <2>3, Leaves
<1> QED BY <1>2, <1>3

(* Nobody resolves a file whose parent would be listed.                    *)
LEMMA NoListing ==
    ASSUME GrowingInv, Growing, NEW w \in Workers
    PROVE  ~ListParent(w)
<1> SUFFICES ASSUME ListParent(w) PROVE FALSE
  OBVIOUS
<1>1. pc[w] = "listParent"
  BY DEF ListParent
<1> QED BY <1>1, Busy DEF IdFits

LEMMA WorkerFits ==
    ASSUME GrowingInv, Growing, NEW w \in Workers, Accept(w) \/ Step(w)
    PROVE  Fits(w) /\ (Remembers \/ (Creates /\ Silent(w)))
<1>1. CASE Accept(w)
  BY <1>1, AcceptFits
<1>2. CASE ReadMemory(w) \/ ReadTable(w) \/ FillMemory(w)
  BY <1>2, ReadMemoryFits, ReadTableFits, FillMemoryFits
<1>3. CASE Lookup(w) \/ Walk(w) \/ SaveMemory(w) \/ SaveTable(w)
  BY <1>3, LookupFits, WalkFits, SaveMemoryFits, SaveTableFits
<1>4. CASE Mkdir(w) \/ MkdirExists(w)
  BY <1>4, MkdirFits, MkdirExistsFits
<1>5. CASE MkdirFailed(w) \/ Act(w) \/ ActFailed(w) \/ Answer(w)
  BY <1>5, EndsFit
<1> QED BY <1>1, <1>2, <1>3, <1>4, <1>5, NoListing DEF Step

LEMMA OwnerCreates ==
    ASSUME GrowingInv, OwnerMkdir
    PROVE  Creates
<1>1. PICK p \in Profiles, q \in Named, id \in Fresh :
          /\ tree[p][Parent(q)] # NoDir
          /\ CloudMkdir(p, tree[p][Parent(q)], q[Len(q)], id)
  BY DEF OwnerMkdir
<1>2. TreeSound /\ UNCHANGED <<memory, table>>
  BY DEF GrowingInv, OwnerMkdir
<1>3. /\ tree[p][q] = NoDir
      /\ tree' = [tree EXCEPT ![p][q] = id]
      /\ used' = [used EXCEPT ![p] = @ \cup {id}]
      /\ id \in DirIds
      /\ \A o \in Profiles, r \in Paths : tree[o][r] # id
  BY <1>1, <1>2, Creation
<1> QED BY <1>1, <1>2, <1>3 DEF Creates

-----------------------------------------------------------------------------
(* The invariant                                                           *)

LEMMA InitFits == Init => GrowingInv
<1> SUFFICES ASSUME Init PROVE GrowingInv
  OBVIOUS
<1>1. \A p \in Profiles, q \in Paths :
          /\ tree[p][q] = IF q = <<>> THEN RootId ELSE NoDir
          /\ used[p] = {} /\ memory[p][q] = NoDir /\ table[p][q] = NoDir
  BY DEF Init, EmptyCache
<1>2. tree \in [Profiles -> [Paths -> Ids \cup {NoDir}]]
  BY IdsDistinct DEF Init
<1>3. Types
  BY <1>2, BlankFrame DEF Init, Types, EmptyCache, Pcs
<1>4. TreeSound
  BY <1>1, EmptyPath, IdsDistinct, IdsAssumption DEF TreeSound
<1>5. CacheAccurate
  BY <1>1 DEF CacheAccurate
<1>6. \A w \in Workers : Local(tree, pc[w], req[w], frame[w])
  BY DEF Init, Local
<1> QED BY <1>3, <1>4, <1>5, <1>6 DEF GrowingInv

LEMMA CreationFits ==
    ASSUME GrowingInv, Creates
    PROVE  /\ tree' \in [Profiles -> [Paths -> Ids \cup {NoDir}]]
           /\ used' \in [Profiles -> SUBSET DirIds]
           /\ memory' = memory /\ table' = table
           /\ Grows /\ TreeSound' /\ CacheAccurate'
<1>1. PICK p \in Profiles, q \in Named, id \in DirIds :
        /\ tree[p][q] = NoDir
        /\ \A o \in Profiles, r \in Paths : tree[o][r] # id
        /\ tree' = [tree EXCEPT ![p][q] = id]
        /\ used' = [used EXCEPT ![p] = @ \cup {id}]
        /\ UNCHANGED <<memory, table>>
  BY DEF Creates
<1>2. Types /\ TreeSound /\ CacheAccurate
  BY DEF GrowingInv
<1> QED BY <1>1, <1>2, CreationIsSound

LEMMA NextFits == Growing /\ GrowingInv /\ [Next]_vars => GrowingInv'
<1> SUFFICES ASSUME Growing, GrowingInv, [Next]_vars PROVE GrowingInv'
  OBVIOUS
<1>0. Types /\ TreeSound /\ CacheAccurate /\ \A w \in Workers : Local(tree, pc[w], req[w], frame[w])
  BY DEF GrowingInv
<1>1. ASSUME NEW w \in Workers, Accept(w) \/ Step(w) PROVE GrowingInv'
  <2>1. Fits(w) /\ (Remembers \/ Creates)
    BY <1>1, WorkerFits
  <2>2. /\ Types' /\ TreeSound' /\ CacheAccurate' /\ Grows
    <3>1. CASE Remembers
      BY <1>0, <2>1, <3>1 DEF Types, TreeSound, Remembers, Fits, Goes, Grows
    <3>2. CASE Creates
      BY <1>0, <2>1, <3>2, CreationFits DEF Types, Fits, Goes
    <3> QED BY <2>1, <3>1, <3>2
  <2>3. ASSUME NEW v \in Workers \ {w} PROVE Local(tree', pc'[v], req'[v], frame'[v])
    <3>1. pc'[v] = pc[v] /\ req'[v] = req[v] /\ frame'[v] = frame[v]
      BY <2>1 DEF Fits, Goes
    <3>2. frame[v] \in Frames /\ Local(tree, pc[v], req[v], frame[v])
      BY <1>0 DEF Types
    <3>3. Local(tree', pc[v], req[v], frame[v])
      BY <2>2, <3>2, LocalKept
    <3> QED BY <3>1, <3>3
  <2>4. Local(tree', pc'[w], req'[w], frame'[w])
    BY <2>1 DEF Fits
  <2> QED BY <2>2, <2>3, <2>4 DEF GrowingInv
<1>2. CASE OwnerMkdir
  <2>1. UNCHANGED <<pc, req, frame>>
    BY <1>2 DEF OwnerMkdir
  <2>2. Types' /\ TreeSound' /\ CacheAccurate' /\ Grows
    BY <1>0, <1>2, <2>1, OwnerCreates, CreationFits DEF Types
  <2>3. ASSUME NEW v \in Workers PROVE Local(tree', pc[v], req[v], frame[v])
    <3>1. frame[v] \in Frames /\ Local(tree, pc[v], req[v], frame[v])
      BY <1>0 DEF Types
    <3> QED BY <2>2, <3>1, LocalKept
  <2> QED BY <2>1, <2>2, <2>3 DEF GrowingInv
<1>3. CASE Crash
  <2>1. /\ UNCHANGED <<tree, used, table>> /\ memory' = EmptyCache
        /\ pc' = [w \in Workers |-> "idle"]
        /\ req' = [w \in Workers |-> NoRequest]
        /\ frame' = [w \in Workers |-> Blank]
    BY <1>3 DEF Crash
  <2>2. Types'
    BY <1>0, <2>1, BlankFrame DEF Types, EmptyCache, Pcs
  <2>3. TreeSound'
    BY <1>0, <2>1 DEF TreeSound
  <2>4. CacheAccurate'
    BY <1>0, <2>1 DEF CacheAccurate, EmptyCache
  <2>5. \A w \in Workers : Local(tree', pc'[w], req'[w], frame'[w])
    BY <2>1 DEF Local
  <2> QED BY <2>2, <2>3, <2>4, <2>5 DEF GrowingInv
<1>4. CASE UNCHANGED vars
  BY <1>0, <1>4 DEF vars, GrowingInv, Types, TreeSound, CacheAccurate
<1> QED BY <1>1, <1>2, <1>3, <1>4 DEF Next

LEMMA GrowingHolds ==
    ASSUME Growing
    PROVE  Spec => []GrowingInv
<1>1. Init => GrowingInv
  BY InitFits
<1>2. GrowingInv /\ [Next]_vars => GrowingInv'
  BY NextFits
<1> QED BY <1>1, <1>2, PTL DEF Spec

(* While requests create and list directories only, every entry of the map *)
(* and of the table is the id of the directory at that path                *)
(* (setCachedDirID, after lost answers, failing statements and restarts).  *)
THEOREM CacheIsAccurate ==
    ASSUME Growing
    PROVE  Spec => []CacheAccurate
<1>1. GrowingInv => CacheAccurate
  BY DEF GrowingInv
<1> QED BY <1>1, GrowingHolds, PTL

(* ... and Mkdir and AddOfflineTask end up with the id of the directory at *)
(* the path they were asked for (ensureDir).                               *)
THEOREM EnsuredExists ==
    ASSUME Growing
    PROVE  Spec => []EnsuredDirExists
<1>1. GrowingInv => EnsuredDirExists
  BY DEF GrowingInv, EnsuredDirExists, Local, IdFits
<1> QED BY <1>1, GrowingHolds, PTL

(* ... and each creates directories on its own path only (ensureDir).      *)
THEOREM CreatedAreRequested ==
    ASSUME Growing
    PROVE  Spec => CreatesOnlyRequested
<1> DEFINE OnPath(w) == \A p \in Profiles, q \in Paths :
              tree[p][q] # tree'[p][q] => p = req[w].profile /\ Under(req[w].path, q)
<1>1. ASSUME GrowingInv, NEW w \in Workers, Mkdir(w) PROVE OnPath(w)
  <2>1. PICK id \in Fresh :
            CloudMkdir(req[w].profile, frame[w].held, frame[w].goal[Len(frame[w].goal)], id)
    BY <1>1 DEF Mkdir
  <2>2. pc[w] = "mkdir"
    BY <1>1 DEF Mkdir
  <2>3. tree' = [tree EXCEPT ![req[w].profile][frame[w].goal] = id]
    BY <1>1, <2>1, <2>2, MkdirPlace
  <2>4. Types /\ GoalFits(tree, req[w], frame[w])
    BY <1>1, <2>2, Busy
  <2>5. Under(req[w].path, frame[w].goal)
    BY <2>4 DEF GoalFits, Under, Upto
  <2> QED BY <2>3, <2>4, <2>5 DEF Types
<1>2. GrowingInv /\ [Next]_vars => [\A w \in Workers : Mkdir(w) => OnPath(w)]_vars
  BY <1>1
<1> QED BY <1>2, GrowingHolds, PTL DEF Spec, CreatesOnlyRequested

-----------------------------------------------------------------------------
(* The service without a cache                                             *)

LEMMA InitIsService == Init => Service!Init
  BY DEF Init, Service!Init, Told

LEMMA ToldTrue ==
    ASSUME GrowingInv', NEW w \in Workers, Told(w)' # NoDir, Growing
    PROVE  /\ req'[w].profile \in Profiles /\ req'[w].path \in Paths
           /\ tree'[req'[w].profile][req'[w].path] # NoDir
           /\ Told(w)' = <<req'[w].profile, req'[w].path, tree'[req'[w].profile][req'[w].path]>>
<1>1. pc'[w] \in {"act", "done"} /\ Told(w)' = <<req'[w].profile, req'[w].path, frame'[w].at>>
  BY DEF Told
<1>2. req'[w] \in Requests /\ tree'[req'[w].profile][req'[w].path] = frame'[w].at
  BY <1>1 DEF GrowingInv, Local, IdFits
<1>3. frame'[w].at \in Ids
  BY DEF GrowingInv, Types, Frames
<1> QED BY <1>1, <1>2, <1>3, RequestKinds, NamedPaths, IdsDistinct

LEMMA CreateIsService ==
    ASSUME GrowingInv, Creates, \A w \in Workers : Told(w)' = Told(w)
    PROVE  Service!Next
<1>1. PICK p \in Profiles, q \in Named, id \in DirIds :
        /\ tree[p][q] = NoDir
        /\ tree[p][Parent(q)] # NoDir
        /\ \A o \in Profiles, r \in Paths : tree[o][r] # id
        /\ tree' = [tree EXCEPT ![p][q] = id]
  BY DEF Creates
<1>2. q \in Paths /\ q # <<>>
  BY DEF Named
<1>3. Service!Create(p, q, id)
  BY <1>1, <1>2 DEF Service!Create, Service!Unused, Parent
<1> QED BY <1>2, <1>3 DEF Service!Next

LEMMA NextIsService ==
    ASSUME Growing, GrowingInv, GrowingInv', [Next]_vars
    PROVE  [Service!Next]_(Service!serviceVars)
<1>1. ASSUME NEW w \in Workers, Accept(w) \/ Step(w) PROVE Service!Next
  <2>1. Fits(w) /\ (Remembers \/ (Creates /\ Silent(w)))
    BY <1>1, WorkerFits
  <2>2. \A v \in Workers \ {w} : Told(v)' = Told(v)
    BY <2>1 DEF Fits, Goes, Told
  <2>3. CASE Creates /\ Silent(w)
    <3>1. Told(w)' = Told(w)
      BY <2>3 DEF Silent, Told
    <3> QED BY <2>2, <2>3, <3>1, CreateIsService
  <2>4. CASE Remembers /\ Told(w)' = NoDir
    <3>1. Service!Forget({w})
      BY <2>2, <2>4 DEF Service!Forget, Remembers
    <3> QED BY <3>1 DEF Service!Next
  <2>5. CASE Remembers /\ Told(w)' # NoDir
    <3>1. UNCHANGED tree
      BY <2>5 DEF Remembers
    <3> DEFINE p == req'[w].profile
               q == req'[w].path
    <3>2. /\ p \in Profiles /\ q \in Paths
          /\ tree[p][q] # NoDir /\ Told(w)' = <<p, q, tree[p][q]>>
      BY <2>5, <3>1, ToldTrue
    <3>3. Told(w) = NoDir
      BY <2>1, <2>5 DEF Fits, Told
    <3> HIDE DEF p, q
    <3>4. Service!Tell(w, p, q)
      BY <2>2, <3>1, <3>2, <3>3 DEF Service!Tell
    <3> QED BY <3>2, <3>4 DEF Service!Next
  <2> QED BY <2>1, <2>3, <2>4, <2>5
<1>2. CASE OwnerMkdir
  <2>1. \A w \in Workers : Told(w)' = Told(w)
    BY <1>2 DEF OwnerMkdir, Told
  <2> QED BY <1>2, <2>1, OwnerCreates, CreateIsService
<1>3. CASE Crash
  <2>1. \A w \in Workers : Told(w)' = NoDir
    BY <1>3 DEF Crash, Told
  <2>2. Service!Forget(Workers)
    BY <1>3, <2>1 DEF Service!Forget, Crash
  <2> QED BY <2>2 DEF Service!Next
<1>4. CASE UNCHANGED vars
  BY <1>4 DEF vars, Service!serviceVars, Told
<1> QED BY <1>1, <1>2, <1>3, <1>4 DEF Next

(* ... and with two levels of cache, a walk, retries and restarts the      *)
(* driver implements the directory service that has none of them.          *)
THEOREM CacheIsInvisible ==
    ASSUME Growing
    PROVE  Spec => CachingInvisible
<1>1. Init => Service!Init
  BY InitIsService
<1>2. GrowingInv /\ GrowingInv' /\ [Next]_vars => [Service!Next]_(Service!serviceVars)
  BY NextIsService
<1> QED BY <1>1, <1>2, GrowingHolds, PTL DEF Spec, CachingInvisible, Service!Spec

-----------------------------------------------------------------------------
(* Any mix of requests: ids stay in their account                          *)

(* A directory's id was given out by the account that has it.              *)
TreeOwned ==
    \A p \in Profiles, q \in Paths :
        /\ tree[p][q] = RootId => q = <<>>
        /\ tree[p][q] \in DirIds => tree[p][q] \in used[p]

(* So was every id that a request holds, and what it is about to cache is  *)
(* not the root.                                                           *)
HoldsOwn(u, p, r, f) ==
    p # "idle" =>
        /\ r \in Requests
        /\ f.goal \in Named
        /\ {f.at, f.held} \subseteq u[r.profile] \cup {RootId}
        /\ p \in {"fill", "saveMemory", "saveTable"} => f.at \in u[r.profile]
        /\ p = "walk" => f.walked < Len(f.goal)
        /\ p = "mkdir" => f.stage = "prefix"
        /\ p = "listParent" => f.stage \in {"target", "parent"}
        /\ f.stage \in {"prefix", "exists", "made"} =>
               Len(f.goal) <= Len(r.path) /\ f.goal = Upto(r.path, Len(f.goal))

AccountInv ==
    /\ Types
    /\ TreeOwned
    /\ CacheOfOwnAccount
    /\ \A w \in Workers : HoldsOwn(used, pc[w], req[w], frame[w])

\* The worker goes on with ids of its account.
OwnFits(w) ==
    /\ Goes(w)
    /\ HoldsOwn(used', pc'[w], req'[w], frame'[w])

\* The account's ids only grow in number, and caches hold no others.
OwnKept ==
    /\ tree' \in [Profiles -> [Paths -> Ids \cup {NoDir}]]
    /\ used' \in [Profiles -> SUBSET DirIds]
    /\ memory' \in [Profiles -> [Paths -> Ids \cup {NoDir}]]
    /\ table' \in [Profiles -> [Paths -> Ids \cup {NoDir}]]
    /\ TreeOwned'
    /\ CacheOfOwnAccount'
    /\ \A p \in Profiles : used[p] \subseteq used'[p]

LEMMA AnyRequest ==
    ASSUME NEW r \in Requests
    PROVE  /\ r.profile \in Profiles /\ r.path \in Named /\ r.path \in Paths
           /\ r.op = "move" => r.dst \in Paths
<1>1. r \in PathRequests \/ r \in MoveRequests \/ r \in RenameRequests
  BY RequestsAssumption DEF AllRequests
<1>2. r.profile \in Profiles /\ r.path \in Named
  BY <1>1 DEF PathRequests, MoveRequests, RenameRequests
<1>3. r.op = "move" => r.dst \in Paths
  BY <1>1 DEF PathRequests, MoveRequests, RenameRequests
<1> QED BY <1>2, <1>3, NamedPaths

\* What is known of a worker in the middle of any request.
LEMMA BusyOwn ==
    ASSUME AccountInv, NEW w \in Workers, pc[w] # "idle"
    PROVE  /\ Types /\ TreeOwned /\ CacheOfOwnAccount
           /\ req[w] \in Requests /\ req[w].profile \in Profiles
           /\ req[w].path \in Named /\ req[w].path \in Paths
           /\ frame[w] \in Frames
           /\ frame[w].goal \in Named /\ frame[w].goal \in Paths
           /\ frame[w].at \in used[req[w].profile] \cup {RootId}
           /\ frame[w].held \in used[req[w].profile] \cup {RootId}
           /\ used[req[w].profile] \subseteq DirIds
           /\ HoldsOwn(used, pc[w], req[w], frame[w])
<1>1. Types /\ TreeOwned /\ CacheOfOwnAccount /\ HoldsOwn(used, pc[w], req[w], frame[w])
  BY DEF AccountInv
<1>2. /\ req[w] \in Requests /\ frame[w].goal \in Named
      /\ frame[w].at \in used[req[w].profile] \cup {RootId}
      /\ frame[w].held \in used[req[w].profile] \cup {RootId}
  BY <1>1 DEF HoldsOwn
<1>3. req[w].profile \in Profiles /\ req[w].path \in Named /\ req[w].path \in Paths
  BY <1>2, AnyRequest
<1>4. frame[w] \in Frames /\ used[req[w].profile] \subseteq DirIds
  BY <1>1, <1>3 DEF Types
<1> QED BY <1>1, <1>2, <1>3, <1>4, NamedPaths

LEMMA ToOwn ==
    ASSUME AccountInv, NEW w \in Workers, NEW p \in Pcs, NEW f \in Frames, To(w, p, f),
           UNCHANGED <<req, used>>, HoldsOwn(used, p, req[w], f)
    PROVE  OwnFits(w)
<1>1. Goes(w) /\ pc'[w] = p /\ frame'[w] = f /\ req'[w] = req[w]
  BY ToGoes DEF AccountInv
<1> QED BY <1>1 DEF OwnFits

LEMMA LeaveOwn ==
    ASSUME AccountInv, NEW w \in Workers, Leave(w)
    PROVE  OwnFits(w)
  BY LeaveGoes DEF AccountInv, OwnFits, HoldsOwn

LEMMA ResolveOwn ==
    ASSUME AccountInv, NEW w \in Workers, req[w] \in Requests, NEW why \in Stages,
           NEW path \in Named, NEW held \in used[req[w].profile] \cup {RootId},
           why \in {"prefix", "exists", "made"} =>
               Len(path) <= Len(req[w].path) /\ path = Upto(req[w].path, Len(path)),
           Resolve(w, why, path, held), UNCHANGED <<req, used>>
    PROVE  OwnFits(w)
<1> DEFINE f == [Blank EXCEPT !.stage = why, !.goal = path, !.held = held]
<1>1. path \in Paths
  BY NamedPaths
<1>2. held \in Ids /\ RootId \in Ids
  BY IdsDistinct, AnyRequest DEF AccountInv, Types
<1>3. Blank \in Frames /\ Blank.at = RootId
  BY BlankFrame DEF Blank
<1>4. f \in Frames /\ f.stage = why /\ f.goal = path /\ f.held = held /\ f.at = RootId
  BY <1>1, <1>2, <1>3 DEF Frames
<1>5. To(w, "memory", f) /\ "memory" \in Pcs
  BY DEF Resolve, Pcs
<1> HIDE DEF f
<1>6. HoldsOwn(used, "memory", req[w], f)
  BY <1>4 DEF HoldsOwn
<1> QED BY <1>4, <1>5, <1>6, ToOwn

LEMMA TargetOwn ==
    ASSUME AccountInv, NEW w \in Workers, pc[w] # "idle",
           NEW id \in used[req[w].profile] \cup {RootId},
           TargetFound(w, id), UNCHANGED <<req, used>>
    PROVE  OwnFits(w)
<1> DEFINE r == req[w]
           f == frame[w]
           own == used[r.profile] \cup {RootId}
<1>0. id \in Ids /\ RootId \in Ids /\ f \in Frames /\ "act" \in Pcs /\ f.at \in own
  BY BusyOwn, IdsDistinct DEF Pcs
<1>1. ASSUME NEW g \in Frames, To(w, "act", g), g.goal = f.goal, g.stage = f.stage,
             g.at \in own, g.held = id
      PROVE  OwnFits(w)
  <2>1. HoldsOwn(used, "act", r, g)
    BY <1>1, BusyOwn DEF HoldsOwn
  <2> QED BY <1>0, <1>1, <2>1, ToOwn
<1>2. CASE r.op # "move"
  <2> DEFINE g == [f EXCEPT !.held = id]
  <2>1. To(w, "act", g)
    BY <1>2 DEF TargetFound
  <2>2. g \in Frames /\ g.goal = f.goal /\ g.stage = f.stage /\ g.at = f.at /\ g.held = id
    BY <1>0 DEF Frames
  <2> HIDE DEF g
  <2> QED BY <1>0, <1>1, <2>1, <2>2
<1>3. CASE r.op = "move" /\ r.dst = <<>>
  <2> DEFINE g == [f EXCEPT !.held = id, !.at = RootId]
  <2>1. To(w, "act", g)
    BY <1>3 DEF TargetFound
  <2>2. g \in Frames /\ g.goal = f.goal /\ g.stage = f.stage /\ g.at = RootId /\ g.held = id
    BY <1>0 DEF Frames
  <2> HIDE DEF g
  <2> QED BY <1>1, <2>1, <2>2
<1>4. CASE r.op = "move" /\ r.dst # <<>>
  <2>1. Resolve(w, "dest", r.dst, id)
    BY <1>4 DEF TargetFound
  <2>2. r.dst \in Named
    BY <1>4, BusyOwn, AnyRequest DEF Named
  <2> QED BY <2>1, <2>2, BusyOwn, ResolveOwn DEF Stages
<1> QED BY <1>2, <1>3, <1>4

(* Found, with any id of the account, goes on with ids of the account.     *)
LEMMA FoundOwn ==
    ASSUME AccountInv, NEW w \in Workers, pc[w] # "idle",
           NEW id \in used[req[w].profile] \cup {RootId},
           Found(w, id), UNCHANGED <<req, used>>
    PROVE  OwnFits(w)
<1> DEFINE r == req[w]
           f == frame[w]
           end == IF r.op = "add" THEN "act" ELSE "done"
           own == used[r.profile] \cup {RootId}
<1>0. id \in Ids /\ f \in Frames /\ end \in Pcs /\ "act" \in Pcs /\ "listParent" \in Pcs
  BY BusyOwn, IdsDistinct DEF Pcs
<1>1. ASSUME NEW p \in {"act", "done", "listParent"}, NEW g \in Frames, To(w, p, g),
             g.goal = f.goal, g.stage = f.stage, g.at \in own, g.held \in own,
             p = "listParent" => f.stage = "parent"
      PROVE  OwnFits(w)
  <2>1. HoldsOwn(used, p, r, g)
    BY <1>1, BusyOwn DEF HoldsOwn
  <2> QED BY <1>1, <2>1, ToOwn DEF Pcs
<1>2. ASSUME NEW p \in {"act", "done"}, To(w, p, [f EXCEPT !.at = id]) PROVE OwnFits(w)
  <2> DEFINE g == [f EXCEPT !.at = id]
  <2>1. g \in Frames /\ g.goal = f.goal /\ g.stage = f.stage /\ g.at = id /\ g.held = f.held
    BY <1>0 DEF Frames
  <2> HIDE DEF g
  <2> QED BY <1>1, <1>2, <2>1, BusyOwn DEF g
<1>3. ASSUME f.stage = "parent", To(w, "listParent", [f EXCEPT !.held = id]) PROVE OwnFits(w)
  <2> DEFINE g == [f EXCEPT !.held = id]
  <2>1. g \in Frames /\ g.goal = f.goal /\ g.stage = f.stage /\ g.at = f.at /\ g.held = id
    BY <1>0 DEF Frames
  <2> HIDE DEF g
  <2> QED BY <1>1, <1>3, <2>1, BusyOwn DEF g
<1>4. CASE f.stage \in {"whole", "dest"}
  BY <1>2, <1>4 DEF Found
<1>5. CASE f.stage = "parent"
  BY <1>3, <1>5 DEF Found
<1>6. CASE f.stage = "target"
  <2>1. TargetFound(w, id)
    BY <1>6 DEF Found
  <2> QED BY <2>1, <1>0, TargetOwn
<1>7. CASE f.stage \in {"prefix", "exists", "made"}
  <2>1. EnsureNext(w, id)
    BY <1>7 DEF Found
  <2>2. CASE f.goal = r.path
    BY <2>1, <2>2, <1>2 DEF EnsureNext
  <2>3. CASE f.goal # r.path
    <3> DEFINE n == Len(f.goal)
               next == Upto(r.path, n + 1)
    <3>1. n <= Len(r.path) /\ f.goal = Upto(r.path, n)
      BY <1>7, BusyOwn DEF HoldsOwn
    <3>2. n \in Nat /\ Len(r.path) \in Nat /\ r.path \in Paths
      BY BusyOwn, NamedPaths
    <3>3. n # Len(r.path)
      BY <3>1, <3>2, <2>3, WholePath
    <3>4. n + 1 \in 0..Len(r.path) /\ n + 1 > 0
      BY <3>1, <3>2, <3>3
    <3>5. next \in Named /\ Len(next) = n + 1
      BY <3>2, <3>4, Prefixes
    <3>6. next = Upto(r.path, Len(next)) /\ Len(next) <= Len(r.path)
      <4>1. Len(next) = n + 1
        BY <3>5
      <4>2. next = Upto(r.path, Len(next))
        BY <4>1, Zenon
      <4> QED BY <3>4, <4>1, <4>2
    <3>7. Resolve(w, "prefix", next, id)
      BY <2>1, <2>3 DEF EnsureNext
    <3> HIDE DEF next
    <3> QED BY <3>5, <3>6, <3>7, BusyOwn, ResolveOwn DEF Stages
  <2> QED BY <2>2, <2>3
<1> QED BY <1>0, <1>4, <1>5, <1>6, <1>7 DEF Frames, Stages

LEMMA NotFoundOwn ==
    ASSUME AccountInv, NEW w \in Workers, pc[w] # "idle", NotFound(w), UNCHANGED used
    PROVE  OwnFits(w)
<1> DEFINE r == req[w]
           f == frame[w]
           own == used[r.profile] \cup {RootId}
<1>0. /\ RootId \in Ids /\ f \in Frames /\ f.at \in own
      /\ "mkdir" \in Pcs /\ "listParent" \in Pcs
  BY BusyOwn, IdsDistinct DEF Pcs
<1>n. r.path \in Named /\ r.path \in Paths /\ Len(r.path) \in 1..MaxDepth
  BY BusyOwn, NamedPaths
<1>1. CASE f.stage = "whole" /\ r.op # "list"
  <2> DEFINE first == Upto(r.path, 1)
  <2>1. Resolve(w, "prefix", first, RootId) /\ UNCHANGED req
    BY <1>1 DEF NotFound, Stay
  <2>2. 1 \in 0..Len(r.path) /\ 1 > 0
    BY <1>n, BoundsAssumption
  <2>3. first \in Named /\ Len(first) = 1
    BY <1>n, <2>2, Prefixes
  <2>4. first = Upto(r.path, Len(first))
    BY <2>3, Zenon
  <2>5. Len(first) <= Len(r.path)
    BY <2>2, <2>3
  <2> HIDE DEF first
  <2> QED BY <2>1, <2>3, <2>4, <2>5, BusyOwn, ResolveOwn DEF Stages
<1>2. CASE f.stage = "prefix"
  <2>1. To(w, "mkdir", f) /\ UNCHANGED req
    BY <1>2 DEF NotFound, Stay
  <2>2. HoldsOwn(used, "mkdir", r, f)
    BY <1>2, BusyOwn DEF HoldsOwn
  <2> QED BY <1>0, <2>1, <2>2, ToOwn
<1>3. CASE f.stage = "target" /\ Len(r.path) = 1
  <2> DEFINE g == [f EXCEPT !.held = RootId]
  <2>1. To(w, "listParent", g) /\ UNCHANGED req
    BY <1>3 DEF NotFound, Stay
  <2>2. g \in Frames /\ g.goal = f.goal /\ g.stage = f.stage /\ g.at = f.at /\ g.held = RootId
    BY <1>0 DEF Frames
  <2> HIDE DEF g
  <2>3. HoldsOwn(used, "listParent", r, g)
    BY <1>3, <2>2, BusyOwn DEF HoldsOwn
  <2> QED BY <1>0, <2>1, <2>2, <2>3, ToOwn
<1>4. CASE f.stage = "target" /\ Len(r.path) > 1
  <2>1. Resolve(w, "parent", Parent(r.path), RootId) /\ UNCHANGED req
    BY <1>4 DEF NotFound, Stay
  <2>2. Parent(r.path) = Upto(r.path, Len(r.path) - 1)
    BY <1>n, Parents
  <2>3. Len(r.path) - 1 \in 0..Len(r.path) /\ Len(r.path) - 1 > 0
    BY <1>n, <1>4, BoundsAssumption
  <2>4. Parent(r.path) \in Named
    BY <1>n, <2>2, <2>3, Prefixes
  <2> QED BY <2>1, <2>4, BusyOwn, ResolveOwn DEF Stages
<1>5. CASE Leave(w)
  BY <1>5, LeaveOwn
<1>6. Len(r.path) = 1 \/ Len(r.path) > 1
  <2> DEFINE k == Len(r.path)
  <2>1. k \in 1..MaxDepth /\ MaxDepth \in Nat
    BY <1>n, BoundsAssumption
  <2> HIDE DEF k
  <2>2. k = 1 \/ k > 1
    BY <2>1
  <2> QED BY <2>2 DEF k
<1> QED BY <1>1, <1>2, <1>3, <1>4, <1>5, <1>6 DEF NotFound

-----------------------------------------------------------------------------
(* The provider, whatever it is asked                                      *)

LEMMA NothingMoved ==
    ASSUME AccountInv, UNCHANGED <<tree, used, memory, table>>
    PROVE  OwnKept
  BY DEF AccountInv, Types, TreeOwned, CacheOfOwnAccount, OwnKept

(* A tree whose entries are old ones or one new one is owned again.        *)
LEMMA TreeChanged ==
    ASSUME AccountInv, NEW p \in Profiles, NEW t \in [Paths -> Ids \cup {NoDir}],
           tree' = [tree EXCEPT ![p] = t],
           NEW new \in SUBSET DirIds, used' = [used EXCEPT ![p] = @ \cup new],
           \A r \in Paths : \/ t[r] \in new \cup {NoDir}
                            \/ t[r] = RootId /\ r = <<>>
                            \/ t[r] \in used[p],
           UNCHANGED <<memory, table>>
    PROVE  OwnKept
<1>1. Types /\ TreeOwned /\ CacheOfOwnAccount
  BY DEF AccountInv
<1>2. /\ tree' \in [Profiles -> [Paths -> Ids \cup {NoDir}]]
      /\ used' \in [Profiles -> SUBSET DirIds]
      /\ \A o \in Profiles : tree'[o] = IF o = p THEN t ELSE tree[o]
      /\ \A o \in Profiles : used'[o] = IF o = p THEN used[p] \cup new ELSE used[o]
  BY <1>1 DEF Types
<1>3. \A o \in Profiles : used[o] \subseteq used'[o]
  BY <1>2
<1>4. TreeOwned'
  <2> SUFFICES ASSUME NEW o \in Profiles, NEW r \in Paths
               PROVE  /\ tree'[o][r] = RootId => r = <<>>
                      /\ tree'[o][r] \in DirIds => tree'[o][r] \in used'[o]
    BY DEF TreeOwned
  <2>1. CASE o # p
    BY <1>1, <1>2, <2>1 DEF TreeOwned
  <2>2. CASE o = p
    BY <1>1, <1>2, <2>2, IdsDistinct DEF Types
  <2> QED BY <2>1, <2>2
<1>5. CacheOfOwnAccount'
  BY <1>1, <1>3 DEF CacheOfOwnAccount
<1> QED BY <1>1, <1>2, <1>3, <1>4, <1>5 DEF OwnKept, Types

\* An entry of an account's tree.
LEMMA EntryOwned ==
    ASSUME AccountInv, NEW p \in Profiles, NEW q \in Paths
    PROVE  \/ tree[p][q] = NoDir
           \/ tree[p][q] = RootId /\ q = <<>>
           \/ tree[p][q] \in used[p]
<1>1. tree[p][q] \in Ids \cup {NoDir}
  BY DEF AccountInv, Types
<1> QED BY <1>1 DEF AccountInv, TreeOwned, Ids

LEMMA MkdirOwned ==
    ASSUME AccountInv, NEW p \in Profiles, NEW parent, NEW name, NEW id \in Fresh,
           CloudMkdir(p, parent, name, id), UNCHANGED <<memory, table>>
    PROVE  OwnKept /\ id \in used'[p]
<1> DEFINE q == Append(PathOf(p, parent), name)
           t == [tree[p] EXCEPT ![q] = id]
<1>1. /\ q \in Paths /\ tree' = [tree EXCEPT ![p][q] = id]
      /\ used' = [used EXCEPT ![p] = @ \cup {id}]
  BY DEF CloudMkdir
<1>2. id \in DirIds /\ id \in Ids /\ {id} \in SUBSET DirIds
  BY IdsDistinct DEF Fresh
<1>3. tree[p] \in [Paths -> Ids \cup {NoDir}] /\ Types
  BY DEF AccountInv, Types
<1> HIDE DEF q
<1>4. t \in [Paths -> Ids \cup {NoDir}] /\ \A r \in Paths : t[r] = IF r = q THEN id ELSE tree[p][r]
  BY <1>1, <1>2, <1>3
<1>5. tree' = [tree EXCEPT ![p] = t]
  BY <1>1
<1>6. \A r \in Paths : \/ t[r] \in {id} \cup {NoDir}
                       \/ t[r] = RootId /\ r = <<>>
                       \/ t[r] \in used[p]
  BY <1>4, EntryOwned
<1> HIDE DEF t
<1>7. OwnKept
  BY <1>1, <1>2, <1>4, <1>5, <1>6, TreeChanged
<1>8. id \in used'[p]
  BY <1>1, <1>3 DEF Types
<1> QED BY <1>7, <1>8

LEMMA DeleteOwned ==
    ASSUME AccountInv, NEW p \in Profiles, NEW id, CloudDelete(p, id), UNCHANGED <<memory, table>>
    PROVE  OwnKept
<1> DEFINE t == [q \in Paths |-> IF Exists(p, id) /\ Under(q, PathOf(p, id))
                                 THEN NoDir ELSE tree[p][q]]
<1>1. tree' = [tree EXCEPT ![p] = t] /\ UNCHANGED used
  BY DEF CloudDelete
<1>2. tree[p] \in [Paths -> Ids \cup {NoDir}] /\ used \in [Profiles -> SUBSET DirIds]
  BY DEF AccountInv, Types
<1>3. t \in [Paths -> Ids \cup {NoDir}] /\ \A r \in Paths : t[r] \in {NoDir, tree[p][r]}
  BY <1>2
<1>4. used' = [used EXCEPT ![p] = @ \cup {}]
  BY <1>1, <1>2
<1>5. \A r \in Paths : \/ t[r] \in {} \cup {NoDir}
                       \/ t[r] = RootId /\ r = <<>>
                       \/ t[r] \in used[p]
  BY <1>3, EntryOwned
<1> HIDE DEF t
<1>6. {} \in SUBSET DirIds
  OBVIOUS
<1> QED BY <1>1, <1>3, <1>4, <1>5, <1>6, TreeChanged

(* What was below the directory stays below it; the root does not move.    *)
LEMMA RelocateOwned ==
    ASSUME AccountInv, NEW p \in Profiles, NEW id, NEW q, CloudRelocate(p, id, q),
           UNCHANGED <<memory, table>>
    PROVE  OwnKept
<1> DEFINE from == PathOf(p, id)
           Old(r) == from \o SubSeq(r, Len(q) + 1, Len(r))
           t == [r \in Paths |->
                   IF Under(r, q) THEN IF Old(r) \in Paths THEN tree[p][Old(r)] ELSE NoDir
                   ELSE IF Under(r, from) THEN NoDir
                   ELSE tree[p][r]]
<1>1. /\ Exists(p, id) /\ q \in Paths /\ ~Under(q, from)
      /\ tree' = [tree EXCEPT ![p] = t] /\ UNCHANGED used
  BY DEF CloudRelocate
<1>2. tree[p] \in [Paths -> Ids \cup {NoDir}] /\ used \in [Profiles -> SUBSET DirIds]
  BY DEF AccountInv, Types
<1>3. from \in Paths
  <2>1. \E r \in Paths : tree[p][r] = id
    BY <1>1 DEF Exists
  <2> QED BY <2>1 DEF PathOf
<1>4. from # <<>>
  <2> SUFFICES ASSUME from = <<>> PROVE FALSE
    OBVIOUS
  <2>1. Len(<<>>) = 0 /\ Len(q) \in Nat
    BY <1>1, PathsAreSequences, LenProperties, EmptyPath
  <2>2. SubSeq(q, 1, 0) = <<>>
    BY SubSeqEmpty, 0 < 1
  <2>3. Under(q, <<>>)
    BY <2>1, <2>2 DEF Under
  <2> QED BY <1>1, <2>3
<1>5. ASSUME NEW r \in Paths PROVE Old(r) # <<>>
  <2> DEFINE rest == SubSeq(r, Len(q) + 1, Len(r))
  <2>1. r \in Seq(Names) /\ from \in Seq(Names) /\ Len(q) \in Nat /\ Len(r) \in Nat
    BY <1>1, <1>3, PathsAreSequences, LenProperties
  <2>2. \A i \in (Len(q) + 1)..Len(r) : r[i] \in Names
    BY <2>1, ElementOfSeq
  <2>3. rest \in Seq(Names)
    BY <2>1, <2>2, SubSeqProperties
  <2> HIDE DEF rest
  <2>4. from \o rest # <<>>
    BY <1>4, <2>1, <2>3, ConcatEqualIffEmpty
  <2> QED BY <2>4 DEF rest
<1> HIDE DEF Old, from
<1>6. t \in [Paths -> Ids \cup {NoDir}]
  BY <1>2
<1>7. used' = [used EXCEPT ![p] = @ \cup {}]
  BY <1>1, <1>2
<1>8. \A r \in Paths : \/ t[r] \in {} \cup {NoDir}
                       \/ t[r] = RootId /\ r = <<>>
                       \/ t[r] \in used[p]
  <2> TAKE r \in Paths
  <2>1. t[r] = NoDir \/ t[r] = tree[p][r] \/ (Old(r) \in Paths /\ t[r] = tree[p][Old(r)])
    OBVIOUS
  <2> HIDE DEF t
  <2> QED BY <1>5, <2>1, EntryOwned
<1> HIDE DEF t
<1>9. {} \in SUBSET DirIds
  OBVIOUS
<1> QED BY <1>1, <1>6, <1>7, <1>8, <1>9, TreeChanged

-----------------------------------------------------------------------------
(* Steps of any request                                                    *)

LEMMA AcceptOwn ==
    ASSUME AccountInv, NEW w \in Workers, Accept(w)
    PROVE  OwnFits(w) /\ OwnKept
<1>1. PICK r \in Requests :
          /\ req' = [req EXCEPT ![w] = r]
          /\ Resolve(w, IF r.op \in {"mkdir", "add", "list"} THEN "whole" ELSE "target",
                     r.path, RootId)
  BY DEF Accept
<1> DEFINE why == IF r.op \in {"mkdir", "add", "list"} THEN "whole" ELSE "target"
           f == [Blank EXCEPT !.stage = why, !.goal = r.path, !.held = RootId]
<1>2. r.path \in Named /\ r.path \in Paths
  BY AnyRequest
<1>3. To(w, "memory", f)
  BY <1>1 DEF Resolve
<1>4. why \in Stages /\ why \in {"whole", "target"}
  BY DEF Stages
<1> HIDE DEF why
<1>5. Blank \in Frames /\ Blank.at = RootId /\ RootId \in Ids
  BY BlankFrame, IdsDistinct DEF Blank
<1>6. f \in Frames /\ f.stage = why /\ f.goal = r.path /\ f.held = RootId /\ f.at = RootId
  BY <1>2, <1>4, <1>5 DEF Frames
<1> HIDE DEF f
<1>7. Goes(w) /\ pc'[w] = "memory" /\ req'[w] = r /\ frame'[w] = f
  BY <1>1, <1>3, <1>6 DEF AccountInv, Types, To, Goes, Pcs
<1>8. UNCHANGED <<tree, used, memory, table>>
  BY DEF Accept
<1>9. HoldsOwn(used, "memory", r, f)
  BY <1>2, <1>4, <1>6 DEF HoldsOwn
<1> QED BY <1>7, <1>8, <1>9, NothingMoved DEF OwnFits

\* What is cached or in a listing is an id of the account.
LEMMA ReadOwn ==
    ASSUME AccountInv, NEW w \in Workers, pc[w] # "idle"
    PROVE  /\ memory[req[w].profile][frame[w].goal] \in used[req[w].profile] \cup {NoDir}
           /\ table[req[w].profile][frame[w].goal] \in used[req[w].profile] \cup {NoDir}
           /\ tree[req[w].profile][frame[w].goal] \in used[req[w].profile] \cup {NoDir}
<1>1. req[w].profile \in Profiles /\ frame[w].goal \in Paths /\ frame[w].goal # <<>>
  BY BusyOwn DEF Named
<1>2. /\ memory[req[w].profile][frame[w].goal] \in used[req[w].profile] \cup {NoDir}
      /\ table[req[w].profile][frame[w].goal] \in used[req[w].profile] \cup {NoDir}
  BY <1>1, BusyOwn DEF CacheOfOwnAccount
<1>3. tree[req[w].profile][frame[w].goal] \in used[req[w].profile] \cup {NoDir}
  BY <1>1, EntryOwned
<1> QED BY <1>2, <1>3

LEMMA ListedOwn ==
    ASSUME AccountInv, NEW p \in Profiles, NEW parent, NEW name \in Names,
           Listed(p, parent, name) # NoDir
    PROVE  Listed(p, parent, name) \in used[p]
<1> DEFINE from == PathOf(p, parent)
           q == Append(from, name)
<1>1. Exists(p, parent) /\ q \in Paths /\ Listed(p, parent, name) = tree[p][q]
  BY DEF Listed
<1>2. from \in Paths
  <2>1. \E r \in Paths : tree[p][r] = parent
    BY <1>1 DEF Exists
  <2> QED BY <2>1 DEF PathOf
<1> HIDE DEF from
<1>3. q # <<>>
  BY <1>2, PathsAreSequences, AppendProperties
<1> HIDE DEF q
<1> QED BY <1>1, <1>3, EntryOwned

(* The steps that read, at a pc that holds nothing to be cached yet.       *)
LEMMA ReadsOwn ==
    ASSUME AccountInv, NEW w \in Workers, pc[w] # "idle",
           NEW p \in {"table", "lookup", "fill", "saveMemory", "saveTable"},
           NEW id \in Ids, To(w, p, [frame[w] EXCEPT !.at = id]), UNCHANGED <<req, used>>,
           id \in used[req[w].profile] \/ (p \in {"table", "lookup"} /\ id = frame[w].at)
    PROVE  OwnFits(w)
<1> DEFINE f == frame[w]
           g == [f EXCEPT !.at = id]
<1>1. g \in Frames /\ g.goal = f.goal /\ g.stage = f.stage /\ g.at = id /\ g.held = f.held
  BY BusyOwn DEF Frames
<1> HIDE DEF g
<1>2. HoldsOwn(used, p, req[w], g)
  BY <1>1, BusyOwn DEF HoldsOwn
<1>3. To(w, p, g) /\ p \in Pcs
  BY DEF g, Pcs
<1> QED BY <1>1, <1>2, <1>3, ToOwn

LEMMA SameFrame ==
    ASSUME Types, NEW w \in Workers
    PROVE  [frame[w] EXCEPT !.at = frame[w].at] = frame[w] /\ frame[w].at \in Ids
  BY DEF Types, Frames

LEMMA CacheOwn ==
    ASSUME AccountInv, NEW w \in Workers, pc[w] # "idle",
           ReadMemory(w) \/ ReadTable(w) \/ Lookup(w)
    PROVE  OwnFits(w) /\ OwnKept
<1> DEFINE p == req[w].profile
           f == frame[w]
<1>0. UNCHANGED <<tree, used, memory, table, req>> /\ OwnKept
  BY NothingMoved DEF ReadMemory, ReadTable, Lookup
<1>1. Types /\ [f EXCEPT !.at = f.at] = f /\ f.at \in Ids /\ used[p] \subseteq Ids
  BY BusyOwn, SameFrame, IdsDistinct
<1>2. ASSUME NEW next \in {"table", "lookup"}, To(w, next, f) PROVE OwnFits(w)
  BY <1>0, <1>1, <1>2, ReadsOwn
<1>3. CASE ReadMemory(w)
  BY <1>0, <1>2, <1>3, ReadOwn, FoundOwn DEF ReadMemory
<1>4. CASE ReadTable(w)
  <2>1. CASE To(w, "lookup", f)
    BY <1>0, <1>2, <2>1
  <2>2. CASE /\ table[p][f.goal] # NoDir
             /\ To(w, "fill", [f EXCEPT !.at = table[p][f.goal]])
    <3>1. table[p][f.goal] \in used[p]
      BY <2>2, ReadOwn
    <3> QED BY <1>0, <1>1, <2>2, <3>1, ReadsOwn
  <2> QED BY <1>4, <2>1, <2>2 DEF ReadTable
<1>5. CASE Lookup(w)
  <2>1. CASE /\ tree[p][f.goal] # NoDir
             /\ To(w, "saveMemory", [f EXCEPT !.at = tree[p][f.goal]])
    <3>1. tree[p][f.goal] \in used[p]
      BY <2>1, ReadOwn
    <3> QED BY <1>0, <1>1, <2>1, <3>1, ReadsOwn
  <2>2. CASE To(w, "walk", [f EXCEPT !.at = RootId, !.walked = 0])
    <3> DEFINE g == [f EXCEPT !.at = RootId, !.walked = 0]
    <3>1. 0 \in 0..MaxDepth /\ RootId \in Ids /\ "walk" \in Pcs /\ f \in Frames
      BY BusyOwn, IdsDistinct, BoundsAssumption DEF Pcs
    <3>2. /\ g \in Frames /\ g.goal = f.goal /\ g.stage = f.stage /\ g.at = RootId
          /\ g.held = f.held /\ g.walked = 0
      BY <3>1 DEF Frames
    <3> HIDE DEF g
    <3>3. 0 < Len(f.goal)
      BY BusyOwn, NamedPaths
    <3>4. HoldsOwn(used, "walk", req[w], g)
      BY <3>2, <3>3, BusyOwn DEF HoldsOwn
    <3>5. To(w, "walk", g)
      BY <2>2 DEF g
    <3> QED BY <1>0, <3>1, <3>2, <3>4, <3>5, ToOwn
  <2> QED BY <1>5, <2>1, <2>2 DEF Lookup
<1> QED BY <1>0, <1>3, <1>4, <1>5

LEMMA WalkOwn ==
    ASSUME AccountInv, NEW w \in Workers, pc[w] # "idle", Walk(w)
    PROVE  OwnFits(w) /\ OwnKept
<1> DEFINE f == frame[w]
           n == f.walked
           id == Listed(req[w].profile, f.at, f.goal[n + 1])
           next == IF n + 1 = Len(f.goal) THEN "saveMemory" ELSE "walk"
           g == [f EXCEPT !.at = id, !.walked = n + 1]
<1>0. pc[w] = "walk" /\ UNCHANGED <<tree, used, memory, table>> /\ OwnKept
  BY NothingMoved DEF Walk
<1>1. CASE NotFound(w)
  BY <1>0, <1>1, NotFoundOwn
<1>2. CASE id # NoDir /\ To(w, next, g) /\ UNCHANGED req
  <2>1. /\ f \in Frames /\ n \in 0..MaxDepth /\ n < Len(f.goal)
        /\ req[w].profile \in Profiles /\ f.goal \in Paths /\ f.goal \in Named
        /\ used[req[w].profile] \subseteq Ids
    BY <1>0, BusyOwn, IdsDistinct DEF HoldsOwn, Frames
  <2>2. Len(f.goal) \in 1..MaxDepth
    BY <2>1, NamedPaths
  <2>3. n \in 0..Len(f.goal) /\ n + 1 \in 0..MaxDepth
    BY <2>1, <2>2, BoundsAssumption
  <2>4. f.goal[n + 1] \in Names
    BY <2>1, <2>3, Prefixes
  <2>5. id \in used[req[w].profile]
    BY <1>2, <2>1, <2>4, ListedOwn
  <2> HIDE DEF id
  <2>6. /\ g \in Frames /\ next \in Pcs /\ g.at = id /\ g.walked = n + 1
        /\ g.stage = f.stage /\ g.goal = f.goal /\ g.held = f.held
    BY <2>1, <2>3, <2>5 DEF Frames, Pcs
  <2>7. next = "walk" => n + 1 < Len(f.goal)
    BY <2>1, <2>2, <2>3
  <2>8. next \in {"saveMemory", "walk"}
    OBVIOUS
  <2> HIDE DEF g, next
  <2>9. HoldsOwn(used, next, req[w], g)
    BY <2>5, <2>6, <2>7, <2>8, BusyOwn DEF HoldsOwn
  <2> QED BY <1>0, <1>2, <2>6, <2>9, ToOwn
<1> QED BY <1>1, <1>2 DEF Walk, Stay

(* A cache entry with an id of the account.                                *)
LEMMA WrittenOwn ==
    ASSUME AccountInv, NEW p \in Profiles, NEW q \in Paths, NEW id \in used[p],
           UNCHANGED <<tree, used>>,
           memory' \in {memory, [memory EXCEPT ![p][q] = id]},
           table' \in {table, [table EXCEPT ![p][q] = id]}
    PROVE  OwnKept
<1>1. Types /\ TreeOwned /\ CacheOfOwnAccount
  BY DEF AccountInv
<1>2. id \in Ids
  BY <1>1, IdsDistinct DEF Types
<1>3. /\ memory' \in [Profiles -> [Paths -> Ids \cup {NoDir}]]
      /\ table' \in [Profiles -> [Paths -> Ids \cup {NoDir}]]
  <2>1. /\ memory \in [Profiles -> [Paths -> Ids \cup {NoDir}]]
        /\ table \in [Profiles -> [Paths -> Ids \cup {NoDir}]]
    BY <1>1 DEF Types
  <2>2. /\ [memory EXCEPT ![p][q] = id] \in [Profiles -> [Paths -> Ids \cup {NoDir}]]
        /\ [table EXCEPT ![p][q] = id] \in [Profiles -> [Paths -> Ids \cup {NoDir}]]
    BY <1>2, <2>1, EntryTyped
  <2> QED BY <2>1, <2>2, Zenon
<1>4. \A o \in Profiles, r \in Paths :
          memory'[o][r] = memory[o][r] \/ (o = p /\ r = q /\ memory'[o][r] = id)
  BY <1>1 DEF Types
<1>5. \A o \in Profiles, r \in Paths :
          table'[o][r] = table[o][r] \/ (o = p /\ r = q /\ table'[o][r] = id)
  BY <1>1 DEF Types
<1>6. CacheOfOwnAccount'
  <2> SUFFICES ASSUME NEW o \in Profiles, NEW r \in Paths
               PROVE  /\ memory'[o][r] \in used[o] \cup {NoDir}
                      /\ table'[o][r] \in used[o] \cup {NoDir}
    BY DEF CacheOfOwnAccount
  <2>1. /\ memory[o][r] \in used[o] \cup {NoDir}
        /\ table[o][r] \in used[o] \cup {NoDir}
    BY <1>1 DEF CacheOfOwnAccount
  <2> QED BY <1>4, <1>5, <2>1
<1> QED BY <1>1, <1>3, <1>6 DEF OwnKept, Types, TreeOwned

LEMMA SaveOwn ==
    ASSUME AccountInv, NEW w \in Workers, pc[w] # "idle",
           FillMemory(w) \/ SaveMemory(w) \/ SaveTable(w)
    PROVE  OwnFits(w) /\ OwnKept
<1> DEFINE p == req[w].profile
           f == frame[w]
<1>0. /\ pc[w] \in {"fill", "saveMemory", "saveTable"} /\ UNCHANGED <<tree, used, req>>
      /\ memory' \in {memory, [memory EXCEPT ![p][f.goal] = f.at]}
      /\ table' \in {table, [table EXCEPT ![p][f.goal] = f.at]}
  BY DEF FillMemory, SaveMemory, SaveTable, Remember
<1>1. f.at \in used[p] /\ p \in Profiles /\ f.goal \in Paths
  BY <1>0, BusyOwn DEF HoldsOwn
<1>2. OwnKept
  BY <1>0, <1>1, WrittenOwn
<1>3. CASE Found(w, f.at)
  BY <1>0, <1>1, <1>2, <1>3, FoundOwn
<1>4. CASE To(w, "saveTable", f)
  <2>1. f.at \in Ids /\ [f EXCEPT !.at = f.at] = f
    BY BusyOwn, SameFrame
  <2> QED BY <1>0, <1>1, <1>2, <1>4, <2>1, ReadsOwn
<1> QED BY <1>3, <1>4 DEF FillMemory, SaveMemory, SaveTable

LEMMA MkdirPrefix ==
    ASSUME AccountInv, NEW w \in Workers, pc[w] = "mkdir"
    PROVE  /\ Len(frame[w].goal) <= Len(req[w].path)
           /\ frame[w].goal = Upto(req[w].path, Len(frame[w].goal))
  BY BusyOwn DEF HoldsOwn

LEMMA MkdirOwn ==
    ASSUME AccountInv, NEW w \in Workers, pc[w] # "idle", Mkdir(w)
    PROVE  OwnFits(w) /\ OwnKept
<1> DEFINE f == frame[w]
           p == req[w].profile
<1>1. PICK id \in Fresh :
          /\ CloudMkdir(p, f.held, f.goal[Len(f.goal)], id)
          /\ \/ To(w, "saveMemory", [f EXCEPT !.stage = "made", !.at = id]) /\ UNCHANGED req
             \/ Leave(w)
  BY DEF Mkdir, Stay
<1>2. UNCHANGED <<memory, table>> /\ pc[w] = "mkdir"
  BY DEF Mkdir
<1>3. p \in Profiles /\ req[w] \in Requests /\ f \in Frames /\ HoldsOwn(used, pc[w], req[w], f)
  BY BusyOwn
<1>4. OwnKept /\ id \in used'[p]
  BY <1>1, <1>2, <1>3, MkdirOwned
<1>5. CASE Leave(w)
  BY <1>4, <1>5, LeaveOwn
<1>6. CASE To(w, "saveMemory", [f EXCEPT !.stage = "made", !.at = id]) /\ UNCHANGED req
  <2> DEFINE g == [f EXCEPT !.stage = "made", !.at = id]
  <2>1. id \in Ids /\ "made" \in Stages /\ "saveMemory" \in Pcs
    BY IdsDistinct DEF Stages, Pcs, Fresh
  <2>2. g \in Frames /\ g.stage = "made" /\ g.at = id /\ g.goal = f.goal /\ g.held = f.held
    BY <1>3, <2>1 DEF Frames
  <2>3. To(w, "saveMemory", g)
    BY <1>6
  <2> HIDE DEF g
  <2>4. Goes(w) /\ pc'[w] = "saveMemory" /\ frame'[w] = g /\ req'[w] = req[w]
    BY <1>6, <2>1, <2>2, <2>3, ToGoes DEF AccountInv
  <2>5. used[p] \subseteq used'[p]
    BY <1>3, <1>4 DEF OwnKept
  <2>6. Len(f.goal) <= Len(req[w].path) /\ f.goal = Upto(req[w].path, Len(f.goal))
    BY <1>2, <1>3, MkdirPrefix
  <2>7. HoldsOwn(used', "saveMemory", req[w], g)
    BY <1>2, <1>3, <1>4, <2>2, <2>5, <2>6 DEF HoldsOwn
  <2> QED BY <1>4, <2>4, <2>7 DEF OwnFits
<1> QED BY <1>1, <1>5, <1>6

LEMMA MkdirExistsOwn ==
    ASSUME AccountInv, NEW w \in Workers, pc[w] # "idle", MkdirExists(w)
    PROVE  OwnFits(w) /\ OwnKept
<1> DEFINE f == frame[w]
<1>1. /\ pc[w] = "mkdir" /\ UNCHANGED <<tree, used, memory, table, req>>
      /\ Resolve(w, "exists", f.goal, f.held)
  BY DEF MkdirExists
<1>2. Len(f.goal) <= Len(req[w].path) /\ f.goal = Upto(req[w].path, Len(f.goal))
  BY <1>1, MkdirPrefix
<1>3. /\ f.goal \in Named /\ f.held \in used[req[w].profile] \cup {RootId} /\ req[w] \in Requests
  BY BusyOwn
<1>4. OwnKept
  BY <1>1, NothingMoved
<1> QED BY <1>1, <1>2, <1>3, <1>4, ResolveOwn DEF Stages

LEMMA ListParentOwn ==
    ASSUME AccountInv, NEW w \in Workers, pc[w] # "idle", ListParent(w)
    PROVE  OwnFits(w) /\ OwnKept
<1> DEFINE path == req[w].path
           id == Listed(req[w].profile, frame[w].held, path[Len(path)])
<1>1. UNCHANGED <<tree, used, memory, table>> /\ OwnKept
  BY NothingMoved DEF ListParent
<1>2. CASE Leave(w)
  BY <1>1, <1>2, LeaveOwn
<1>3. CASE id # NoDir /\ TargetFound(w, id) /\ UNCHANGED req
  <2>1. path[Len(path)] \in Names /\ req[w].profile \in Profiles
    BY BusyOwn, Parents
  <2>2. id \in used[req[w].profile]
    BY <1>3, <2>1, ListedOwn
  <2> HIDE DEF id
  <2> QED BY <1>1, <1>3, <2>2, TargetOwn
<1> QED BY <1>2, <1>3 DEF ListParent, Stay

LEMMA EndsOwn ==
    ASSUME AccountInv, NEW w \in Workers, pc[w] # "idle",
           MkdirFailed(w) \/ ActFailed(w) \/ Answer(w) \/ Act(w)
    PROVE  OwnFits(w) /\ OwnKept
<1>1. Leave(w)
  BY DEF MkdirFailed, ActFailed, Answer, Act
<1>2. OwnFits(w)
  BY <1>1, LeaveOwn
<1>3. CASE UNCHANGED <<tree, used, memory, table>>
  BY <1>2, <1>3, NothingMoved
<1>4. CASE Act(w) /\ ~UNCHANGED <<tree, used, memory, table>>
  <2>1. req[w].profile \in Profiles /\ UNCHANGED <<memory, table>>
    BY <1>4, BusyOwn DEF Act
  <2>2. \/ CloudDelete(req[w].profile, frame[w].held)
        \/ \E q : CloudRelocate(req[w].profile, frame[w].held, q)
    BY <1>4, <2>1 DEF Act
  <2> QED BY <1>2, <2>1, <2>2, DeleteOwned, RelocateOwned
<1> QED BY <1>3, <1>4 DEF MkdirFailed, ActFailed, Answer

LEMMA WorkerOwn ==
    ASSUME AccountInv, NEW w \in Workers, Accept(w) \/ Step(w)
    PROVE  OwnFits(w) /\ OwnKept
<1>1. CASE Accept(w)
  BY <1>1, AcceptOwn
<1>2. CASE Step(w)
  <2>1. pc[w] # "idle"
    BY <1>2 DEF Step, ReadMemory, ReadTable, FillMemory, Lookup, Walk, SaveMemory, SaveTable, Mkdir,
                MkdirExists, MkdirFailed, ListParent, Act, ActFailed, Answer
  <2>2. CASE ReadMemory(w) \/ ReadTable(w) \/ Lookup(w)
    BY <2>1, <2>2, CacheOwn
  <2>3. CASE FillMemory(w) \/ SaveMemory(w) \/ SaveTable(w)
    BY <2>1, <2>3, SaveOwn
  <2>4. CASE Walk(w) \/ Mkdir(w) \/ MkdirExists(w) \/ ListParent(w)
    BY <2>1, <2>4, WalkOwn, MkdirOwn, MkdirExistsOwn, ListParentOwn
  <2>5. CASE MkdirFailed(w) \/ ActFailed(w) \/ Answer(w) \/ Act(w)
    BY <2>1, <2>5, EndsOwn
  <2> QED BY <1>2, <2>2, <2>3, <2>4, <2>5 DEF Step
<1> QED BY <1>1, <1>2

LEMMA InitOwn == Init => AccountInv
<1> SUFFICES ASSUME Init PROVE AccountInv
  OBVIOUS
<1>1. \A p \in Profiles, q \in Paths :
          /\ tree[p][q] = IF q = <<>> THEN RootId ELSE NoDir
          /\ memory[p][q] = NoDir /\ table[p][q] = NoDir
  BY DEF Init, EmptyCache
<1>2. Types
  BY InitFits DEF GrowingInv
<1>3. TreeOwned
  BY <1>1, IdsAssumption DEF TreeOwned
<1>4. CacheOfOwnAccount
  BY <1>1 DEF CacheOfOwnAccount
<1>5. \A w \in Workers : HoldsOwn(used, pc[w], req[w], frame[w])
  BY DEF Init, HoldsOwn
<1> QED BY <1>2, <1>3, <1>4, <1>5 DEF AccountInv

LEMMA HoldsKept ==
    ASSUME NEW u, NEW v, \A p \in Profiles : u[p] \subseteq v[p],
           NEW p, NEW r, NEW f, HoldsOwn(u, p, r, f)
    PROVE  HoldsOwn(v, p, r, f)
<1>1. r \in Requests => r.profile \in Profiles
  BY AnyRequest
<1> QED BY <1>1 DEF HoldsOwn

LEMMA NextOwn == AccountInv /\ [Next]_vars => AccountInv'
<1> SUFFICES ASSUME AccountInv, [Next]_vars PROVE AccountInv'
  OBVIOUS
<1>0. /\ Types /\ TreeOwned /\ CacheOfOwnAccount
      /\ \A w \in Workers : HoldsOwn(used, pc[w], req[w], frame[w])
  BY DEF AccountInv
<1>1. ASSUME NEW w \in Workers, Accept(w) \/ Step(w) PROVE AccountInv'
  <2>1. OwnFits(w) /\ OwnKept
    BY <1>1, WorkerOwn
  <2>2. Types' /\ TreeOwned' /\ CacheOfOwnAccount'
    BY <2>1 DEF Types, OwnFits, OwnKept, Goes
  <2>3. ASSUME NEW v \in Workers \ {w} PROVE HoldsOwn(used', pc'[v], req'[v], frame'[v])
    <3>1. pc'[v] = pc[v] /\ req'[v] = req[v] /\ frame'[v] = frame[v]
      BY <2>1 DEF OwnFits, Goes
    <3>2. HoldsOwn(used', pc[v], req[v], frame[v])
      BY <1>0, <2>1, HoldsKept DEF OwnKept
    <3> QED BY <3>1, <3>2
  <2> QED BY <2>1, <2>2, <2>3 DEF AccountInv, OwnFits
<1>2. CASE OwnerMkdir
  <2>1. UNCHANGED <<memory, table, pc, req, frame>>
    BY <1>2 DEF OwnerMkdir
  <2>2. OwnKept
    BY <1>2, <2>1, MkdirOwned DEF OwnerMkdir
  <2>3. Types' /\ TreeOwned' /\ CacheOfOwnAccount'
    BY <1>0, <2>1, <2>2 DEF Types, OwnKept
  <2>4. \A v \in Workers : HoldsOwn(used', pc[v], req[v], frame[v])
    BY <1>0, <2>2, HoldsKept DEF OwnKept
  <2> QED BY <2>1, <2>3, <2>4 DEF AccountInv
<1>3. CASE Crash
  <2>1. /\ UNCHANGED <<tree, used, table>> /\ memory' = EmptyCache
        /\ pc' = [w \in Workers |-> "idle"]
        /\ req' = [w \in Workers |-> NoRequest]
        /\ frame' = [w \in Workers |-> Blank]
    BY <1>3 DEF Crash
  <2>2. Types'
    BY <1>0, <2>1, BlankFrame DEF Types, EmptyCache, Pcs
  <2>3. TreeOwned'
    BY <1>0, <2>1 DEF TreeOwned
  <2>4. CacheOfOwnAccount'
    BY <1>0, <2>1 DEF CacheOfOwnAccount, EmptyCache
  <2>5. \A w \in Workers : HoldsOwn(used', pc'[w], req'[w], frame'[w])
    BY <2>1 DEF HoldsOwn
  <2> QED BY <2>2, <2>3, <2>4, <2>5 DEF AccountInv
<1>4. CASE UNCHANGED vars
  BY <1>0, <1>4 DEF vars, AccountInv, Types, TreeOwned, CacheOfOwnAccount
<1> QED BY <1>1, <1>2, <1>3, <1>4 DEF Next

(* However directories are made, moved, renamed and removed, a cached id   *)
(* belongs to the account of the profile it is cached for (dirIDCacheKey). *)
THEOREM CachedIsOwn == Spec => []CacheOfOwnAccount
<1>1. Init => AccountInv
  BY InitOwn
<1>2. AccountInv /\ [Next]_vars => AccountInv'
  BY NextOwn
<1>3. AccountInv => CacheOfOwnAccount
  BY DEF AccountInv
<1> QED BY <1>1, <1>2, <1>3, PTL DEF Spec

(* Every variable of the driver's cache and its requests has its type.     *)
THEOREM DirTyped == Spec => []TypeOK
<1> DEFINE Counted == crashes \in 0..MaxCrashes
<1>1. Init => AccountInv /\ Counted
  BY InitOwn, BoundsAssumption DEF Init
<1>2. AccountInv /\ Counted /\ [Next]_vars => AccountInv' /\ Counted'
  <2>1. ASSUME Counted, [Next]_vars PROVE Counted'
    <3>1. crashes' = crashes \/ (crashes < MaxCrashes /\ crashes' = crashes + 1)
      BY <2>1 DEF Next, Accept, Step, ReadMemory, ReadTable, FillMemory, Lookup, Walk, SaveMemory,
                  SaveTable, Mkdir, MkdirExists, MkdirFailed, ListParent, Act, ActFailed, Answer,
                  OwnerMkdir, Crash, vars
    <3> QED BY <2>1, <3>1, BoundsAssumption
  <2> QED BY <2>1, NextOwn
<1>3. AccountInv /\ Counted => TypeOK
  BY DEF AccountInv, Types, TypeOK
<1> QED BY <1>1, <1>2, <1>3, PTL DEF Spec

-----------------------------------------------------------------------------
(* Every request comes to its end                                          *)

RunsOut(w) ==
    \/ pc'[w] = "idle"
    \/ ResolutionsLeft(req'[w], frame'[w]) < ResolutionsLeft(req[w], frame[w])
    \/ /\ ResolutionsLeft(req'[w], frame'[w]) = ResolutionsLeft(req[w], frame[w])
       /\ StepsLeft(pc'[w], frame'[w]) < StepsLeft(pc[w], frame[w])

LEMMA Resolutions ==
    ASSUME NEW r, NEW f
    PROVE  /\ f.stage = "whole" /\ r.op # "list" => ResolutionsLeft(r, f) = 2 * Len(r.path) + 1
           /\ f.stage = "prefix" => ResolutionsLeft(r, f) = 2 * (Len(r.path) - Len(f.goal)) + 1
           /\ f.stage \in {"exists", "made"} =>
                  ResolutionsLeft(r, f) = 2 * (Len(r.path) - Len(f.goal))
           /\ f.stage = "target" => ResolutionsLeft(r, f) = 2
           /\ f.stage = "parent" => ResolutionsLeft(r, f) = 1
           /\ f.stage = "dest" => ResolutionsLeft(r, f) = 0
  BY DEF ResolutionsLeft

LEMMA LeaveRunsOut ==
    ASSUME AccountInv, NEW w \in Workers, Leave(w)
    PROVE  RunsOut(w)
  BY LeaveGoes DEF AccountInv, RunsOut

(* The same resolution goes on, or what follows it.                        *)
LEMMA ToRunsOut ==
    ASSUME AccountInv, NEW w \in Workers, NEW p \in Pcs, NEW f \in Frames, To(w, p, f),
           UNCHANGED req, f.stage = frame[w].stage, f.goal = frame[w].goal,
           StepsLeft(p, f) < StepsLeft(pc[w], frame[w])
    PROVE  RunsOut(w)
<1>1. pc'[w] = p /\ frame'[w] = f /\ req'[w] = req[w]
  BY ToGoes DEF AccountInv
<1>2. ResolutionsLeft(req[w], f) = ResolutionsLeft(req[w], frame[w])
  BY DEF ResolutionsLeft
<1> QED BY <1>1, <1>2 DEF RunsOut

(* Another resolution begins.                                              *)
LEMMA ResolveRunsOut ==
    ASSUME AccountInv, NEW w \in Workers, NEW why \in Stages, NEW path \in Paths, NEW held \in Ids,
           Resolve(w, why, path, held), UNCHANGED req,
           \A f \in Frames : f.stage = why /\ f.goal = path =>
               ResolutionsLeft(req[w], f) < ResolutionsLeft(req[w], frame[w])
    PROVE  RunsOut(w)
<1>1. /\ frame'[w].stage = why /\ frame'[w].goal = path /\ req'[w] = req[w]
      /\ frame'[w] \in Frames
  BY ResolveGoes DEF AccountInv, Goes
<1> QED BY <1>1 DEF RunsOut

LEMMA Lengths ==
    ASSUME AccountInv, NEW w \in Workers, pc[w] # "idle"
    PROVE  /\ MaxDepth \in Nat
           /\ Len(req[w].path) \in 1..MaxDepth /\ Len(frame[w].goal) \in 1..MaxDepth
           /\ frame[w].walked \in 0..MaxDepth
           /\ pc[w] = "walk" => frame[w].walked < Len(frame[w].goal)
           /\ frame[w].stage \in {"prefix", "exists", "made"} =>
                  Len(frame[w].goal) <= Len(req[w].path)
<1>1. Len(req[w].path) \in 1..MaxDepth /\ Len(frame[w].goal) \in 1..MaxDepth
  BY BusyOwn, NamedPaths
<1>2. frame[w].walked \in 0..MaxDepth
  BY BusyOwn DEF Frames
<1> QED BY <1>1, <1>2, BusyOwn, BoundsAssumption DEF HoldsOwn

(* A pc at which an id is still being looked for.                          *)
Searching == {"memory", "table", "lookup", "walk", "fill", "saveMemory", "saveTable"}

LEMMA SearchIsLonger ==
    ASSUME AccountInv, NEW w \in Workers, pc[w] \in Searching
    PROVE  /\ StepsLeft(pc[w], frame[w]) \in Nat
           /\ StepsLeft(pc[w], frame[w]) > 2
           /\ pc[w] = "walk" => StepsLeft(pc[w], frame[w]) > 3
<1>1. pc[w] # "idle"
  BY DEF Searching
<1>2. /\ MaxDepth \in Nat /\ Len(frame[w].goal) \in Nat /\ frame[w].walked \in Nat
      /\ pc[w] = "walk" => frame[w].walked < Len(frame[w].goal)
  BY <1>1, Lengths
<1>3. CASE pc[w] = "walk"
  <2> DEFINE k == Len(frame[w].goal)
             n == frame[w].walked
  <2>1. StepsLeft(pc[w], frame[w]) = k - n + 5
    BY <1>3 DEF StepsLeft
  <2>2. k \in Nat /\ n \in Nat /\ n < k
    BY <1>2, <1>3
  <2> HIDE DEF k, n
  <2> QED BY <2>1, <2>2
<1>4. CASE pc[w] # "walk"
  <2>1. StepsLeft(pc[w], frame[w]) \in {MaxDepth + 8, MaxDepth + 7, MaxDepth + 6, 4, 3}
    BY <1>4 DEF StepsLeft, Searching
  <2>2. \A n \in {MaxDepth + 8, MaxDepth + 7, MaxDepth + 6, 4, 3} : n \in Nat /\ n > 2
    BY <1>2
  <2> QED BY <1>4, <2>1, <2>2
<1> QED BY <1>3, <1>4

LEMMA TargetRunsOut ==
    ASSUME AccountInv, NEW w \in Workers, pc[w] \in Searching \cup {"listParent"},
           frame[w].stage \in {"target", "parent"},
           NEW id \in Ids, TargetFound(w, id), UNCHANGED req
    PROVE  RunsOut(w)
<1> DEFINE f == frame[w]
<1>0. /\ pc[w] # "idle" /\ f \in Frames /\ RootId \in Ids /\ "act" \in Pcs
      /\ req[w] \in Requests
  BY BusyOwn, IdsDistinct DEF Searching, Pcs
<1>1. StepsLeft(pc[w], f) \in Nat /\ StepsLeft(pc[w], f) > 1
  <2>1. CASE pc[w] = "listParent"
    BY <2>1 DEF StepsLeft
  <2>2. CASE pc[w] \in Searching
    <3>1. StepsLeft(pc[w], f) \in Nat /\ StepsLeft(pc[w], f) > 2
      BY <2>2, SearchIsLonger
    <3> QED BY <3>1
  <2> QED BY <2>1, <2>2
<1>2. ASSUME NEW g \in Frames, To(w, "act", g), g.stage = f.stage, g.goal = f.goal
      PROVE  RunsOut(w)
  <2>1. StepsLeft("act", g) = 1
    BY DEF StepsLeft
  <2>2. StepsLeft("act", g) < StepsLeft(pc[w], f)
    BY <1>1, <2>1
  <2> QED BY <1>0, <1>2, <2>2, ToRunsOut
<1>3. CASE req[w].op # "move"
  <2> DEFINE g == [f EXCEPT !.held = id]
  <2>1. To(w, "act", g)
    BY <1>3 DEF TargetFound
  <2>2. g \in Frames /\ g.stage = f.stage /\ g.goal = f.goal
    BY <1>0 DEF Frames
  <2> HIDE DEF g
  <2> QED BY <1>2, <2>1, <2>2
<1>4. CASE req[w].op = "move" /\ req[w].dst = <<>>
  <2> DEFINE g == [f EXCEPT !.held = id, !.at = RootId]
  <2>1. To(w, "act", g)
    BY <1>4 DEF TargetFound
  <2>2. g \in Frames /\ g.stage = f.stage /\ g.goal = f.goal
    BY <1>0 DEF Frames
  <2> HIDE DEF g
  <2> QED BY <1>2, <2>1, <2>2
<1>5. CASE req[w].op = "move" /\ req[w].dst # <<>>
  <2>1. Resolve(w, "dest", req[w].dst, id)
    BY <1>5 DEF TargetFound
  <2>2. req[w].dst \in Paths /\ "dest" \in Stages
    BY <1>0, <1>5, AnyRequest DEF Stages
  <2>3. ASSUME NEW g \in Frames, g.stage = "dest"
        PROVE  ResolutionsLeft(req[w], g) < ResolutionsLeft(req[w], f)
    <3>1. ResolutionsLeft(req[w], g) = 0 /\ ResolutionsLeft(req[w], f) \in {1, 2}
      BY <2>3, Resolutions
    <3> QED BY <3>1
  <2> QED BY <1>0, <2>1, <2>2, <2>3, ResolveRunsOut
<1> QED BY <1>3, <1>4, <1>5

(* ensureDir goes on with a longer prefix, the others with their call.     *)
LEMMA FoundRunsOut ==
    ASSUME AccountInv, NEW w \in Workers, pc[w] \in Searching, NEW id \in Ids,
           Found(w, id), UNCHANGED req
    PROVE  RunsOut(w)
<1> DEFINE r == req[w]
           f == frame[w]
           end == IF r.op = "add" THEN "act" ELSE "done"
<1>0. /\ pc[w] # "idle" /\ f \in Frames
      /\ StepsLeft(pc[w], f) \in Nat /\ StepsLeft(pc[w], f) > 2
  BY BusyOwn, SearchIsLonger DEF Searching
<1>1. ASSUME NEW p \in {"act", "done", "listParent"}, NEW g \in Frames, To(w, p, g),
             g.stage = f.stage, g.goal = f.goal
      PROVE  RunsOut(w)
  <2>1. StepsLeft(p, g) \in 1..2
    BY DEF StepsLeft
  <2>2. StepsLeft(p, g) < StepsLeft(pc[w], f)
    BY <1>0, <2>1
  <2> QED BY <1>1, <2>2, ToRunsOut DEF Pcs
<1>2. ASSUME NEW p \in {"act", "done"}, To(w, p, [f EXCEPT !.at = id]) PROVE RunsOut(w)
  <2> DEFINE g == [f EXCEPT !.at = id]
  <2>1. g \in Frames /\ g.stage = f.stage /\ g.goal = f.goal
    BY <1>0 DEF Frames
  <2>2. To(w, p, g)
    BY <1>2
  <2> HIDE DEF g
  <2> QED BY <1>1, <2>1, <2>2
<1>3. CASE f.stage \in {"whole", "dest"}
  BY <1>2, <1>3 DEF Found
<1>4. CASE f.stage = "parent"
  <2> DEFINE g == [f EXCEPT !.held = id]
  <2>1. To(w, "listParent", g)
    BY <1>4 DEF Found
  <2>2. g \in Frames /\ g.stage = f.stage /\ g.goal = f.goal
    BY <1>0 DEF Frames
  <2> HIDE DEF g
  <2> QED BY <1>1, <2>1, <2>2
<1>5. CASE f.stage = "target"
  <2>1. TargetFound(w, id)
    BY <1>5 DEF Found
  <2> QED BY <1>5, <2>1, TargetRunsOut
<1>6. CASE f.stage \in {"prefix", "exists", "made"}
  <2>1. EnsureNext(w, id)
    BY <1>6 DEF Found
  <2>2. CASE f.goal = r.path
    BY <1>2, <2>1, <2>2 DEF EnsureNext
  <2>3. CASE f.goal # r.path
    <3> DEFINE n == Len(f.goal)
               next == Upto(r.path, n + 1)
    <3>1. f.goal = Upto(r.path, n) /\ r.path \in Paths
      BY <1>0, <1>6, BusyOwn DEF HoldsOwn
    <3>2. n \in Nat /\ Len(r.path) \in Nat /\ n <= Len(r.path)
      BY <1>0, <1>6, Lengths
    <3>3. n # Len(r.path)
      BY <2>3, <3>1, WholePath
    <3>4. n + 1 \in 0..Len(r.path)
      BY <3>2, <3>3
    <3>5. next \in Paths /\ Len(next) = n + 1
      BY <3>1, <3>4, Prefixes
    <3>6. Resolve(w, "prefix", next, id)
      BY <2>1, <2>3 DEF EnsureNext
    <3> HIDE DEF next
    <3>7. ASSUME NEW g \in Frames, g.stage = "prefix", g.goal = next
          PROVE  ResolutionsLeft(r, g) < ResolutionsLeft(r, f)
      <4> DEFINE m == Len(r.path)
      <4>1. /\ ResolutionsLeft(r, g) = 2 * (m - (n + 1)) + 1
            /\ ResolutionsLeft(r, f) \in {2 * (m - n) + 1, 2 * (m - n)}
        <5>1. ResolutionsLeft(r, g) = 2 * (m - Len(g.goal)) + 1 /\ Len(g.goal) = n + 1
          BY <3>5, <3>7, Resolutions
        <5>2. ResolutionsLeft(r, f) \in {2 * (m - n) + 1, 2 * (m - n)}
          BY <1>6, Resolutions
        <5> HIDE DEF n, m
        <5> QED BY <5>1, <5>2
      <4>2. n \in Nat /\ m \in Nat
        BY <3>2
      <4> HIDE DEF n, m
      <4> QED BY <4>1, <4>2
    <3> QED BY <3>5, <3>6, <3>7, ResolveRunsOut DEF Stages
  <2> QED BY <2>2, <2>3
<1> QED BY <1>0, <1>3, <1>4, <1>5, <1>6 DEF Frames, Stages

(* What is tried after a walk that found nothing is nearer to the end.     *)
LEMMA NotFoundRunsOut ==
    ASSUME AccountInv, NEW w \in Workers, pc[w] = "walk", NotFound(w)
    PROVE  RunsOut(w)
<1> DEFINE r == req[w]
           f == frame[w]
<1>0. /\ f \in Frames /\ StepsLeft(pc[w], f) \in Nat /\ StepsLeft(pc[w], f) > 3 /\ RootId \in Ids
      /\ r.path \in Named /\ r.path \in Paths
  BY BusyOwn, SearchIsLonger, IdsDistinct DEF Searching
<1>n. Len(r.path) \in Nat \ {0} /\ 1 \in 0..Len(r.path)
  <2> DEFINE n == Len(r.path)
  <2>1. n \in 1..MaxDepth /\ MaxDepth \in Nat
    BY Lengths
  <2> HIDE DEF n
  <2>2. n \in Nat \ {0} /\ 1 \in 0..n
    BY <2>1
  <2> QED BY <2>2 DEF n
<1>1. CASE f.stage = "whole" /\ r.op # "list"
  <2> DEFINE first == Upto(r.path, 1)
  <2>1. Resolve(w, "prefix", first, RootId) /\ UNCHANGED req
    BY <1>1 DEF NotFound, Stay
  <2>2. first \in Paths /\ Len(first) = 1
    BY <1>0, <1>n, Prefixes
  <2> HIDE DEF first
  <2>3. ASSUME NEW g \in Frames, g.stage = "prefix", g.goal = first
        PROVE  ResolutionsLeft(r, g) < ResolutionsLeft(r, f)
    <3> DEFINE n == Len(r.path)
    <3>1. /\ ResolutionsLeft(r, g) = 2 * (n - Len(g.goal)) + 1 /\ Len(g.goal) = 1
          /\ ResolutionsLeft(r, f) = 2 * n + 1
      BY <1>1, <2>2, <2>3, Resolutions
    <3>2. n \in Nat
      BY <1>n
    <3> HIDE DEF n
    <3> QED BY <3>1, <3>2
  <2> QED BY <1>0, <2>1, <2>2, <2>3, ResolveRunsOut DEF Stages
<1>2. CASE f.stage = "prefix"
  <2>1. To(w, "mkdir", f) /\ UNCHANGED req
    BY <1>2 DEF NotFound, Stay
  <2>2. StepsLeft("mkdir", f) = 3
    BY DEF StepsLeft
  <2>3. StepsLeft("mkdir", f) < StepsLeft(pc[w], f)
    BY <1>0, <2>2
  <2> QED BY <1>0, <2>1, <2>3, ToRunsOut DEF Pcs
<1>3. CASE f.stage = "target" /\ Len(r.path) = 1
  <2> DEFINE g == [f EXCEPT !.held = RootId]
  <2>1. To(w, "listParent", g) /\ UNCHANGED req
    BY <1>3 DEF NotFound, Stay
  <2>2. g \in Frames /\ g.goal = f.goal /\ g.stage = f.stage
    BY <1>0 DEF Frames
  <2> HIDE DEF g
  <2>3. StepsLeft("listParent", g) = 2
    BY DEF StepsLeft
  <2>4. StepsLeft("listParent", g) < StepsLeft(pc[w], f)
    BY <1>0, <2>3
  <2> QED BY <2>1, <2>2, <2>4, ToRunsOut DEF Pcs
<1>4. CASE f.stage = "target" /\ Len(r.path) > 1
  <2>1. Resolve(w, "parent", Parent(r.path), RootId) /\ UNCHANGED req
    BY <1>4 DEF NotFound, Stay
  <2>2. Parent(r.path) \in Paths
    BY <1>0, Parents
  <2>3. ASSUME NEW g \in Frames, g.stage = "parent"
        PROVE  ResolutionsLeft(r, g) < ResolutionsLeft(r, f)
    <3>1. ResolutionsLeft(r, g) = 1 /\ ResolutionsLeft(r, f) = 2
      BY <1>4, <2>3, Resolutions
    <3> QED BY <3>1
  <2> QED BY <1>0, <2>1, <2>2, <2>3, ResolveRunsOut DEF Stages
<1>5. CASE Leave(w)
  BY <1>5, LeaveRunsOut
<1>6. Len(r.path) = 1 \/ Len(r.path) > 1
  <2> DEFINE n == Len(r.path)
  <2>1. n \in Nat \ {0}
    BY <1>n
  <2> HIDE DEF n
  <2>2. n = 1 \/ n > 1
    BY <2>1
  <2> QED BY <2>2 DEF n
<1> QED BY <1>1, <1>2, <1>3, <1>4, <1>5, <1>6 DEF NotFound

(* Looking for the id of one path: caches, provider, walk.                 *)
LEMMA SearchRunsOut ==
    ASSUME AccountInv, NEW w \in Workers, pc[w] # "idle",
           ReadMemory(w) \/ ReadTable(w) \/ Lookup(w) \/ Walk(w)
    PROVE  RunsOut(w)
<1> DEFINE p == req[w].profile
           f == frame[w]
<1>0. /\ f \in Frames /\ MaxDepth \in Nat /\ RootId \in Ids
      /\ Len(f.goal) \in 1..MaxDepth /\ f.walked \in 0..MaxDepth
      /\ used[p] \subseteq Ids
  BY BusyOwn, Lengths, IdsDistinct
<1>1. CASE ReadMemory(w)
  <2>1. pc[w] = "memory" /\ UNCHANGED req
    BY <1>1 DEF ReadMemory
  <2>2. ASSUME NEW next \in {"table", "lookup"}, To(w, next, f) PROVE RunsOut(w)
    <3>1. StepsLeft(next, f) < StepsLeft(pc[w], f)
      BY <1>0, <2>1 DEF StepsLeft
    <3> QED BY <1>0, <2>1, <2>2, <3>1, ToRunsOut DEF Pcs
  <2>3. CASE memory[p][f.goal] # NoDir /\ Found(w, memory[p][f.goal])
    <3>1. memory[p][f.goal] \in Ids
      BY <1>0, <2>3, ReadOwn
    <3> QED BY <2>1, <2>3, <3>1, FoundRunsOut DEF Searching
  <2> QED BY <1>1, <2>2, <2>3 DEF ReadMemory
<1>2. CASE ReadTable(w)
  <2>1. pc[w] = "table" /\ UNCHANGED req
    BY <1>2 DEF ReadTable
  <2>2. CASE To(w, "lookup", f)
    <3>1. StepsLeft("lookup", f) < StepsLeft(pc[w], f)
      BY <1>0, <2>1 DEF StepsLeft
    <3> QED BY <1>0, <2>1, <2>2, <3>1, ToRunsOut DEF Pcs
  <2>3. CASE table[p][f.goal] # NoDir /\ To(w, "fill", [f EXCEPT !.at = table[p][f.goal]])
    <3> DEFINE g == [f EXCEPT !.at = table[p][f.goal]]
    <3>1. table[p][f.goal] \in Ids
      BY <1>0, <2>3, ReadOwn
    <3>2. g \in Frames /\ g.goal = f.goal /\ g.stage = f.stage /\ To(w, "fill", g)
      BY <1>0, <2>3, <3>1 DEF Frames
    <3> HIDE DEF g
    <3>3. StepsLeft("fill", g) < StepsLeft(pc[w], f)
      BY <1>0, <2>1 DEF StepsLeft
    <3> QED BY <2>1, <3>2, <3>3, ToRunsOut DEF Pcs
  <2> QED BY <1>2, <2>2, <2>3 DEF ReadTable
<1>3. CASE Lookup(w)
  <2>1. pc[w] = "lookup" /\ UNCHANGED req
    BY <1>3 DEF Lookup
  <2>2. CASE tree[p][f.goal] # NoDir /\ To(w, "saveMemory", [f EXCEPT !.at = tree[p][f.goal]])
    <3> DEFINE g == [f EXCEPT !.at = tree[p][f.goal]]
    <3>1. tree[p][f.goal] \in Ids
      BY <1>0, <2>2, ReadOwn
    <3>2. g \in Frames /\ g.goal = f.goal /\ g.stage = f.stage /\ To(w, "saveMemory", g)
      BY <1>0, <2>2, <3>1 DEF Frames
    <3> HIDE DEF g
    <3>3. StepsLeft("saveMemory", g) < StepsLeft(pc[w], f)
      BY <1>0, <2>1 DEF StepsLeft
    <3> QED BY <2>1, <3>2, <3>3, ToRunsOut DEF Pcs
  <2>3. CASE To(w, "walk", [f EXCEPT !.at = RootId, !.walked = 0])
    <3> DEFINE g == [f EXCEPT !.at = RootId, !.walked = 0]
    <3>1. 0 \in 0..MaxDepth
      BY <1>0
    <3>2. /\ g \in Frames /\ g.goal = f.goal /\ g.stage = f.stage /\ g.walked = 0
          /\ To(w, "walk", g)
      BY <1>0, <2>3, <3>1 DEF Frames
    <3> HIDE DEF g
    <3>3. StepsLeft("walk", g) < StepsLeft(pc[w], f)
      BY <1>0, <2>1, <3>2 DEF StepsLeft
    <3> QED BY <2>1, <3>2, <3>3, ToRunsOut DEF Pcs
  <2> QED BY <1>3, <2>2, <2>3 DEF Lookup
<1>4. CASE Walk(w)
  <2> DEFINE n == f.walked
             id == Listed(p, f.at, f.goal[n + 1])
             next == IF n + 1 = Len(f.goal) THEN "saveMemory" ELSE "walk"
             g == [f EXCEPT !.at = id, !.walked = n + 1]
  <2>1. pc[w] = "walk" /\ n \in 0..Len(f.goal) /\ n < Len(f.goal)
    BY <1>0, <1>4, Lengths DEF Walk
  <2>2. CASE NotFound(w)
    BY <2>1, <2>2, NotFoundRunsOut
  <2>3. CASE id # NoDir /\ To(w, next, g) /\ UNCHANGED req
    <3>1. f.goal[n + 1] \in Names /\ p \in Profiles
      BY <2>1, BusyOwn, Prefixes
    <3>2. id \in Ids
      BY <1>0, <2>3, <3>1, ListedOwn
    <3>3. n + 1 \in 0..MaxDepth
      BY <1>0, <2>1
    <3> HIDE DEF id
    <3>4. /\ g \in Frames /\ g.goal = f.goal /\ g.stage = f.stage /\ g.walked = n + 1
          /\ next \in {"saveMemory", "walk"} /\ To(w, next, g)
      BY <1>0, <2>3, <3>2, <3>3 DEF Frames
    <3> HIDE DEF g, next
    <3>5. StepsLeft(next, g) < StepsLeft(pc[w], f)
      BY <1>0, <2>1, <3>4 DEF StepsLeft
    <3> QED BY <2>3, <3>4, <3>5, ToRunsOut DEF Pcs
  <2> QED BY <1>4, <2>2, <2>3 DEF Walk, Stay
<1> QED BY <1>1, <1>2, <1>3, <1>4

(* The id is written down.                                                 *)
LEMMA SaveRunsOut ==
    ASSUME AccountInv, NEW w \in Workers, pc[w] # "idle",
           FillMemory(w) \/ SaveMemory(w) \/ SaveTable(w)
    PROVE  RunsOut(w)
<1> DEFINE f == frame[w]
<1>0. f \in Frames /\ f.at \in Ids /\ UNCHANGED req
  BY BusyOwn DEF Frames, FillMemory, SaveMemory, SaveTable
<1>1. pc[w] \in {"fill", "saveMemory", "saveTable"}
  BY DEF FillMemory, SaveMemory, SaveTable
<1>2. CASE Found(w, f.at)
  BY <1>0, <1>1, <1>2, FoundRunsOut DEF Searching
<1>3. CASE pc[w] = "saveMemory" /\ To(w, "saveTable", f)
  <2>1. StepsLeft("saveTable", f) < StepsLeft(pc[w], f)
    BY <1>3 DEF StepsLeft
  <2> QED BY <1>0, <1>3, <2>1, ToRunsOut DEF Pcs
<1> QED BY <1>2, <1>3 DEF FillMemory, SaveMemory, SaveTable

(* The directory is created, by the request or by somebody else.           *)
LEMMA MkdirRunsOut ==
    ASSUME AccountInv, NEW w \in Workers, pc[w] # "idle", Mkdir(w) \/ MkdirExists(w)
    PROVE  RunsOut(w)
<1> DEFINE r == req[w]
           f == frame[w]
<1>0. pc[w] = "mkdir" /\ f \in Frames /\ f.goal \in Paths /\ f.held \in Ids
  BY BusyOwn DEF Mkdir, MkdirExists, Frames
<1>1. f.stage = "prefix"
  BY <1>0, BusyOwn DEF HoldsOwn
<1>2. Len(f.goal) <= Len(r.path) /\ Len(f.goal) \in Nat /\ Len(r.path) \in Nat
  BY <1>1, Lengths
<1>3. ASSUME NEW g \in Frames, g.stage \in {"exists", "made"}, g.goal = f.goal
      PROVE  ResolutionsLeft(r, g) < ResolutionsLeft(r, f)
  <2> DEFINE n == Len(r.path)
             k == Len(f.goal)
  <2>1. /\ ResolutionsLeft(r, g) = 2 * (n - Len(g.goal)) /\ Len(g.goal) = k
        /\ ResolutionsLeft(r, f) = 2 * (n - k) + 1
    BY <1>1, <1>3, Resolutions
  <2>2. n \in Nat /\ k \in Nat
    BY <1>2
  <2> HIDE DEF n, k
  <2> QED BY <2>1, <2>2
<1>4. CASE Leave(w)
  BY <1>4, LeaveRunsOut
<1>5. ASSUME NEW id \in Fresh, UNCHANGED req,
             To(w, "saveMemory", [f EXCEPT !.stage = "made", !.at = id])
      PROVE  RunsOut(w)
  <2> DEFINE g == [f EXCEPT !.stage = "made", !.at = id]
  <2>1. id \in Ids /\ "made" \in Stages
    BY IdsDistinct DEF Stages, Fresh
  <2>2. g \in Frames /\ g.stage = "made" /\ g.goal = f.goal /\ To(w, "saveMemory", g)
    BY <1>0, <1>5, <2>1 DEF Frames
  <2> HIDE DEF g
  <2>3. frame'[w] = g /\ req'[w] = r
    BY <1>5, <2>2, ToGoes DEF AccountInv, Pcs
  <2> QED BY <1>3, <2>2, <2>3 DEF RunsOut
<1>6. CASE Resolve(w, "exists", f.goal, f.held) /\ UNCHANGED req
  BY <1>0, <1>3, <1>6, ResolveRunsOut DEF Stages
<1> QED BY <1>4, <1>5, <1>6 DEF Mkdir, MkdirExists, Stay

LEMMA EndRunsOut ==
    ASSUME AccountInv, NEW w \in Workers, pc[w] # "idle",
           \/ ListParent(w) \/ MkdirFailed(w) \/ ActFailed(w) \/ Answer(w) \/ Act(w)
    PROVE  RunsOut(w)
<1> DEFINE path == req[w].path
           id == Listed(req[w].profile, frame[w].held, path[Len(path)])
<1>1. CASE Leave(w)
  BY <1>1, LeaveRunsOut
<1>2. CASE pc[w] = "listParent" /\ id # NoDir /\ TargetFound(w, id) /\ UNCHANGED req
  <2>1. path[Len(path)] \in Names /\ req[w].profile \in Profiles
    BY BusyOwn, Parents
  <2>2. id \in Ids
    BY <1>2, <2>1, BusyOwn, ListedOwn, IdsDistinct
  <2> HIDE DEF id
  <2>3. frame[w].stage \in {"target", "parent"}
    BY <1>2, BusyOwn DEF HoldsOwn
  <2> QED BY <1>2, <2>2, <2>3, TargetRunsOut
<1> QED BY <1>1, <1>2 DEF ListParent, MkdirFailed, ActFailed, Answer, Act, Stay

LEMMA StepRunsOut ==
    ASSUME AccountInv, NEW w \in Workers, Step(w)
    PROVE  pc[w] # "idle" /\ RunsOut(w)
<1>1. pc[w] # "idle"
  BY DEF Step, ReadMemory, ReadTable, FillMemory, Lookup, Walk, SaveMemory, SaveTable, Mkdir,
         MkdirExists, MkdirFailed, ListParent, Act, ActFailed, Answer
<1> QED BY <1>1, SearchRunsOut, SaveRunsOut, MkdirRunsOut, EndRunsOut DEF Step

(* Whatever other requests and the owner do to the tree and the caches, a  *)
(* request ends after so many steps of its own.                            *)
THEOREM RequestsEnd == Spec => RequestsRunOut
<1>1. Init => AccountInv
  BY InitOwn
<1>2. AccountInv /\ [Next]_vars => AccountInv'
  BY NextOwn
<1>3. AccountInv /\ [Next]_vars =>
          [\A w \in Workers : pc[w] # "idle" /\ pc'[w] # "idle" =>
              LET before == ResolutionsLeft(req[w], frame[w])
                  after == ResolutionsLeft(req'[w], frame'[w])
              IN  \/ UNCHANGED <<pc[w], req[w], frame[w]>>
                  \/ after < before
                  \/ after = before /\ StepsLeft(pc'[w], frame'[w]) < StepsLeft(pc[w], frame[w])]_vars
  <2> SUFFICES ASSUME AccountInv, Next, NEW w \in Workers, pc[w] # "idle", pc'[w] # "idle"
               PROVE  UNCHANGED <<pc[w], req[w], frame[w]>> \/ RunsOut(w)
    BY DEF RunsOut
  <2>1. ASSUME NEW v \in Workers, Accept(v) \/ Step(v), v # w
        PROVE  UNCHANGED <<pc[w], req[w], frame[w]>>
    BY <2>1, WorkerOwn DEF OwnFits, Goes
  <2>2. ~Accept(w)
    BY DEF Accept
  <2>3. CASE Step(w)
    BY <2>3, StepRunsOut
  <2>4. CASE OwnerMkdir
    BY <2>4 DEF OwnerMkdir
  <2>5. ~Crash
    BY DEF Crash
  <2> QED BY <2>1, <2>2, <2>3, <2>4, <2>5 DEF Next
<1> QED BY <1>1, <1>2, <1>3, PTL DEF Spec, RequestsRunOut

-----------------------------------------------------------------------------
(* Where directories are only made and removed, an id stays with its path  *)

\* The account has the id at this path or nowhere.
Sits(t, p, id, q) == \A r \in Paths : t[p][r] = id => r = q

(* The ids that a request holds are of the paths that the code takes them  *)
(* for, whether the directories are still there or not.                    *)
Knows(t, p, r, f) ==
    /\ f.stage # "dest"
    /\ f.stage = "target" => f.goal = r.path
    /\ f.stage = "parent" => f.goal = Parent(r.path)
    /\ f.stage \in {"prefix", "exists", "made"} => Sits(t, r.profile, f.held, Parent(f.goal))
    /\ p \in {"fill", "saveMemory", "saveTable"} => Sits(t, r.profile, f.at, f.goal)
    /\ p = "walk" => Sits(t, r.profile, f.at, Upto(f.goal, f.walked))
    /\ p = "listParent" => Sits(t, r.profile, f.held, Parent(r.path))
    /\ p = "act" /\ r.op = "remove" => Sits(t, r.profile, f.held, r.path)

\* Nothing is at two paths, and the caches hold ids of their paths.
Placed(p) ==
    /\ \A q \in Paths : tree[p][q] # NoDir => Sits(tree, p, tree[p][q], q)
    /\ \A q \in Paths : memory[p][q] # NoDir => Sits(tree, p, memory[p][q], q)
    /\ \A q \in Paths : table[p][q] # NoDir => Sits(tree, p, table[p][q], q)

PlacesInv ==
    /\ AccountInv
    /\ \A p \in Profiles : OnlyMadeAndRemoved(p) => Placed(p)
    /\ \A w \in Workers :
          pc[w] # "idle" /\ OnlyMadeAndRemoved(req[w].profile)
              => Knows(tree, pc[w], req[w], frame[w])

\* What is known of a worker in such an account.
Aware(w) ==
    /\ PlacesInv
    /\ pc[w] # "idle"
    /\ OnlyMadeAndRemoved(req[w].profile)

\* It goes on with what it knows of the tree as it is.
KnowsOn(w) == pc'[w] # "idle" => Knows(tree, pc'[w], req'[w], frame'[w])

LEMMA AwareOf ==
    ASSUME NEW w \in Workers, Aware(w)
    PROVE  /\ AccountInv /\ Types /\ pc[w] # "idle"
           /\ req[w] \in Requests /\ req[w].profile \in Profiles /\ req[w].op # "move"
           /\ frame[w] \in Frames /\ frame[w].goal \in Named /\ frame[w].goal \in Paths
           /\ Placed(req[w].profile) /\ Knows(tree, pc[w], req[w], frame[w])
<1>1. /\ AccountInv /\ Types /\ pc[w] # "idle"
      /\ req[w] \in Requests /\ req[w].profile \in Profiles
      /\ frame[w] \in Frames /\ frame[w].goal \in Named /\ frame[w].goal \in Paths
  BY BusyOwn DEF Aware, PlacesInv
<1>2. req[w].op # "move"
  BY <1>1 DEF Aware, OnlyMadeAndRemoved
<1>3. Placed(req[w].profile) /\ Knows(tree, pc[w], req[w], frame[w])
  BY <1>1 DEF Aware, PlacesInv
<1> QED BY <1>1, <1>2, <1>3

LEMMA LeaveKnows ==
    ASSUME NEW w \in Workers, Aware(w), Leave(w)
    PROVE  KnowsOn(w)
  BY AwareOf, LeaveGoes DEF KnowsOn

LEMMA ToKnows ==
    ASSUME NEW w \in Workers, Aware(w), NEW p \in Pcs, NEW f \in Frames, To(w, p, f),
           UNCHANGED req, Knows(tree, p, req[w], f)
    PROVE  KnowsOn(w)
<1>1. pc'[w] = p /\ frame'[w] = f /\ req'[w] = req[w]
  BY AwareOf, ToGoes
<1> QED BY <1>1 DEF KnowsOn

(* Another resolution begins.                                              *)
LEMMA ResolveKnows ==
    ASSUME NEW w \in Workers, Aware(w), NEW why \in Stages \ {"dest"}, NEW path \in Paths,
           NEW held \in Ids, Resolve(w, why, path, held), UNCHANGED req,
           why = "target" => path = req[w].path,
           why = "parent" => path = Parent(req[w].path),
           why \in {"prefix", "exists", "made"} => Sits(tree, req[w].profile, held, Parent(path))
    PROVE  KnowsOn(w)
<1>1. /\ pc'[w] = "memory" /\ req'[w] = req[w]
      /\ frame'[w].stage = why /\ frame'[w].goal = path /\ frame'[w].held = held
  BY AwareOf, ResolveGoes
<1> QED BY <1>1 DEF KnowsOn, Knows

\* The root is at the empty path only.
LEMMA RootSits ==
    ASSUME AccountInv, NEW p \in Profiles
    PROVE  Sits(tree, p, RootId, <<>>)
  BY DEF AccountInv, TreeOwned, Sits

(* A listing of a directory finds the one at the path below.               *)
LEMMA ListedSits ==
    ASSUME NEW p \in Profiles, Placed(p), NEW parent, NEW q, NEW name,
           Append(q, name) \in Paths,
           Sits(tree, p, parent, q), Listed(p, parent, name) # NoDir
    PROVE  Sits(tree, p, Listed(p, parent, name), Append(q, name))
<1>1. Exists(p, parent)
  BY DEF Listed
<1>2. PathOf(p, parent) = q
  <2>1. \E r \in Paths : tree[p][r] = parent
    BY <1>1 DEF Exists
  <2>2. PathOf(p, parent) \in Paths /\ tree[p][PathOf(p, parent)] = parent
    BY <2>1 DEF PathOf
  <2> QED BY <2>2 DEF Sits
<1>3. Listed(p, parent, name) = tree[p][Append(q, name)]
  BY <1>1, <1>2 DEF Listed
<1> QED BY <1>3 DEF Placed

LEMMA TargetKnows ==
    ASSUME NEW w \in Workers, Aware(w), NEW id \in Ids, TargetFound(w, id), UNCHANGED req,
           Sits(tree, req[w].profile, id, req[w].path),
           frame[w].stage \in {"target", "parent"}
    PROVE  KnowsOn(w)
<1> DEFINE f == frame[w]
           g == [f EXCEPT !.held = id]
<1>1. To(w, "act", g) /\ "act" \in Pcs
  BY AwareOf DEF TargetFound, Pcs
<1>2. g \in Frames /\ g.stage = f.stage /\ g.goal = f.goal /\ g.held = id
  BY AwareOf DEF Frames
<1> HIDE DEF g
<1>3. Knows(tree, "act", req[w], g)
  BY <1>2, AwareOf DEF Knows
<1> QED BY <1>1, <1>2, <1>3, ToKnows

LEMMA FoundKnows ==
    ASSUME NEW w \in Workers, Aware(w), NEW id \in Ids, Found(w, id), UNCHANGED req,
           Sits(tree, req[w].profile, id, frame[w].goal)
    PROVE  KnowsOn(w)
<1> DEFINE r == req[w]
           f == frame[w]
<1>0. /\ r.path \in Paths /\ r.path \in Named /\ f \in Frames
      /\ Knows(tree, pc[w], r, f) /\ f.goal \in Paths
  BY AwareOf, AnyRequest
<1>1. ASSUME To(w, IF r.op = "add" THEN "act" ELSE "done", [f EXCEPT !.at = id])
      PROVE  KnowsOn(w)
  <2> DEFINE g == [f EXCEPT !.at = id]
             p == IF r.op = "add" THEN "act" ELSE "done"
  <2>1. p \in Pcs /\ p \in {"act", "done"} /\ (p = "act" => r.op # "remove")
    BY DEF Pcs
  <2>2. g \in Frames /\ g.stage = f.stage /\ g.goal = f.goal /\ g.held = f.held
    BY <1>0 DEF Frames
  <2>3. To(w, p, g)
    BY <1>1
  <2> HIDE DEF g, p
  <2>4. Knows(tree, p, r, g)
    BY <1>0, <2>1, <2>2 DEF Knows
  <2> QED BY <2>1, <2>2, <2>3, <2>4, ToKnows
<1>2. CASE f.stage = "whole"
  BY <1>1, <1>2 DEF Found
<1>3. CASE f.stage = "target"
  <2>1. TargetFound(w, id) /\ f.goal = r.path
    BY <1>0, <1>3 DEF Found, Knows
  <2> QED BY <1>3, <2>1, TargetKnows
<1>4. CASE f.stage = "parent"
  <2> DEFINE g == [f EXCEPT !.held = id]
  <2>1. To(w, "listParent", g) /\ "listParent" \in Pcs
    BY <1>4 DEF Found, Pcs
  <2>2. g \in Frames /\ g.stage = "parent" /\ g.goal = f.goal /\ g.held = id
    BY <1>0, <1>4 DEF Frames
  <2>3. f.goal = Parent(r.path)
    BY <1>0, <1>4 DEF Knows
  <2> HIDE DEF g
  <2>4. Knows(tree, "listParent", r, g)
    BY <2>2, <2>3 DEF Knows
  <2> QED BY <2>1, <2>2, <2>4, ToKnows
<1>5. CASE f.stage \in {"prefix", "exists", "made"}
  <2>1. EnsureNext(w, id)
    BY <1>5 DEF Found
  <2>2. CASE f.goal = r.path
    BY <2>1, <2>2, <1>1 DEF EnsureNext
  <2>3. CASE f.goal # r.path
    <3> DEFINE n == Len(f.goal)
               next == Upto(r.path, n + 1)
    <3>1. n <= Len(r.path) /\ f.goal = Upto(r.path, n)
      BY <1>5, AwareOf, BusyOwn DEF HoldsOwn
    <3>2. n \in Nat /\ Len(r.path) \in Nat
      BY <1>0, PathsAreSequences, LenProperties
    <3>3. n # Len(r.path)
      BY <1>0, <3>1, <3>2, <2>3, WholePath
    <3>4. n + 1 \in 0..Len(r.path) /\ n + 1 > 0 /\ n \in 0..(n + 1) /\ (n + 1) - 1 = n
      <4> DEFINE l == Len(r.path)
      <4>1. n \in Nat /\ l \in Nat /\ n <= l /\ n # l
        BY <3>1, <3>2, <3>3
      <4> HIDE DEF n, l
      <4>2. n + 1 \in 0..l /\ n + 1 > 0 /\ n \in 0..(n + 1) /\ (n + 1) - 1 = n
        BY <4>1
      <4> QED BY <4>2 DEF l
    <3>5. next \in Named /\ next \in Paths /\ Len(next) = n + 1
      BY <1>0, <3>4, Prefixes
    <3>6. Upto(next, n) = Upto(r.path, n)
      BY <1>0, <3>4, PrefixOfPrefix
    <3>7. Resolve(w, "prefix", next, id)
      BY <2>1, <2>3 DEF EnsureNext
    <3> HIDE DEF next
    <3>8. Parent(next) = f.goal
      BY <3>1, <3>4, <3>5, <3>6, Parents
    <3> QED BY <3>5, <3>7, <3>8, ResolveKnows DEF Stages
  <2> QED BY <2>2, <2>3
<1>6. f.stage # "dest"
  BY <1>0 DEF Knows
<1> QED BY <1>0, <1>2, <1>3, <1>4, <1>5, <1>6 DEF Frames, Stages

LEMMA NotFoundKnows ==
    ASSUME NEW w \in Workers, Aware(w), NotFound(w)
    PROVE  KnowsOn(w)
<1> DEFINE r == req[w]
           f == frame[w]
<1>0. /\ r.path \in Named /\ r.path \in Paths /\ r.profile \in Profiles /\ f \in Frames
      /\ Len(r.path) \in 1..MaxDepth /\ RootId \in Ids
      /\ Sits(tree, r.profile, RootId, <<>>)
  BY AwareOf, AnyRequest, NamedPaths, IdsDistinct, RootSits
<1>1. \A q \in Named : Len(q) = 1 => Parent(q) = <<>>
  <2> SUFFICES ASSUME NEW q \in Named, Len(q) = 1 PROVE Parent(q) = <<>>
    OBVIOUS
  <2>1. Len(q) - 1 = 0
    OBVIOUS
  <2>2. Parent(q) = SubSeq(q, 1, 0)
    BY <2>1 DEF Parent
  <2> QED BY <2>2, SubSeqEmpty, 0 < 1
<1>2. CASE f.stage = "whole" /\ r.op # "list"
  <2> DEFINE first == Upto(r.path, 1)
  <2>1. Resolve(w, "prefix", first, RootId) /\ UNCHANGED req
    BY <1>2 DEF NotFound, Stay
  <2>2. 1 \in 0..Len(r.path) /\ 1 > 0
    BY <1>0, BoundsAssumption
  <2>3. first \in Named /\ first \in Paths /\ Len(first) = 1
    BY <1>0, <2>2, Prefixes
  <2> HIDE DEF first
  <2> QED BY <1>0, <1>1, <2>1, <2>3, ResolveKnows DEF Stages
<1>3. CASE f.stage = "prefix"
  <2>1. To(w, "mkdir", f) /\ UNCHANGED req /\ "mkdir" \in Pcs
    BY <1>3 DEF NotFound, Stay, Pcs
  <2>2. Knows(tree, "mkdir", r, f)
    BY AwareOf DEF Knows
  <2> QED BY <1>0, <2>1, <2>2, ToKnows
<1>4. CASE f.stage = "target" /\ Len(r.path) = 1
  <2> DEFINE g == [f EXCEPT !.held = RootId]
  <2>1. To(w, "listParent", g) /\ UNCHANGED req /\ "listParent" \in Pcs
    BY <1>4 DEF NotFound, Stay, Pcs
  <2>2. g \in Frames /\ g.goal = f.goal /\ g.stage = "target" /\ g.held = RootId
    BY <1>0, <1>4 DEF Frames
  <2> HIDE DEF g
  <2>3. Parent(r.path) = <<>> /\ f.goal = r.path
    BY <1>0, <1>1, <1>4, AwareOf DEF Knows
  <2>4. Knows(tree, "listParent", r, g)
    BY <1>0, <2>2, <2>3 DEF Knows
  <2> QED BY <2>1, <2>2, <2>4, ToKnows
<1>5. CASE f.stage = "target" /\ Len(r.path) > 1
  <2>1. Resolve(w, "parent", Parent(r.path), RootId) /\ UNCHANGED req
    BY <1>5 DEF NotFound, Stay
  <2> QED BY <1>0, <2>1, Parents, ResolveKnows DEF Stages
<1>6. CASE Leave(w)
  BY <1>6, LeaveKnows
<1>7. Len(r.path) = 1 \/ Len(r.path) > 1
  <2> DEFINE k == Len(r.path)
  <2>1. k \in 1..MaxDepth /\ MaxDepth \in Nat
    BY <1>0, BoundsAssumption
  <2> HIDE DEF k
  <2>2. k = 1 \/ k > 1
    BY <2>1
  <2> QED BY <2>2 DEF k
<1> QED BY <1>2, <1>3, <1>4, <1>5, <1>6, <1>7 DEF NotFound

(* The steps that look a path up.                                          *)
LEMMA SearchKnows ==
    ASSUME NEW w \in Workers, Aware(w),
           ReadMemory(w) \/ ReadTable(w) \/ Lookup(w) \/ Walk(w)
    PROVE  KnowsOn(w)
<1> DEFINE p == req[w].profile
           f == frame[w]
<1>0. /\ f \in Frames /\ f.goal \in Named /\ f.goal \in Paths /\ p \in Profiles
      /\ Placed(p) /\ Knows(tree, pc[w], req[w], f) /\ Types /\ used[p] \subseteq Ids
  BY AwareOf, BusyOwn, IdsDistinct
<1>1. ASSUME NEW next \in {"table", "lookup"}, To(w, next, f), UNCHANGED req PROVE KnowsOn(w)
  <2>1. Knows(tree, next, req[w], f)
    BY <1>0 DEF Knows
  <2> QED BY <1>0, <1>1, <2>1, ToKnows DEF Pcs
<1>2. ASSUME NEW next \in {"fill", "saveMemory"}, NEW id \in Ids, Sits(tree, p, id, f.goal),
             UNCHANGED req, NEW g \in Frames, To(w, next, g),
             g.stage = f.stage, g.goal = f.goal, g.held = f.held, g.at = id
      PROVE  KnowsOn(w)
  <2>1. Knows(tree, next, req[w], g)
    BY <1>0, <1>2 DEF Knows
  <2> QED BY <1>2, <2>1, ToKnows DEF Pcs
<1>3. CASE ReadMemory(w)
  <2>1. CASE /\ memory[p][f.goal] # NoDir
             /\ Found(w, memory[p][f.goal])
    <3>1. Sits(tree, p, memory[p][f.goal], f.goal) /\ memory[p][f.goal] \in Ids
      BY <1>0, <2>1, AwareOf, ReadOwn DEF Placed
    <3> QED BY <1>3, <2>1, <3>1, FoundKnows DEF ReadMemory
  <2>2. CASE To(w, IF Persistent THEN "table" ELSE "lookup", f)
    BY <1>1, <1>3, <2>2 DEF ReadMemory
  <2> QED BY <1>3, <2>1, <2>2 DEF ReadMemory
<1>4. CASE ReadTable(w)
  <2>1. CASE /\ table[p][f.goal] # NoDir
             /\ To(w, "fill", [f EXCEPT !.at = table[p][f.goal]])
    <3> DEFINE id == table[p][f.goal]
               g == [f EXCEPT !.at = id]
    <3>1. Sits(tree, p, id, f.goal) /\ id \in Ids
      BY <1>0, <2>1, AwareOf, ReadOwn DEF Placed
    <3>2. g \in Frames /\ g.stage = f.stage /\ g.goal = f.goal /\ g.held = f.held /\ g.at = id
      BY <1>0, <3>1 DEF Frames
    <3>3. To(w, "fill", g) /\ UNCHANGED req
      BY <1>4, <2>1 DEF ReadTable
    <3> HIDE DEF g, id
    <3> QED BY <1>2, <3>1, <3>2, <3>3
  <2>2. CASE To(w, "lookup", f)
    BY <1>1, <1>4, <2>2 DEF ReadTable
  <2> QED BY <1>4, <2>1, <2>2 DEF ReadTable
<1>5. CASE Lookup(w)
  <2>1. CASE /\ tree[p][f.goal] # NoDir
             /\ To(w, "saveMemory", [f EXCEPT !.at = tree[p][f.goal]])
    <3> DEFINE id == tree[p][f.goal]
               g == [f EXCEPT !.at = id]
    <3>1. Sits(tree, p, id, f.goal) /\ id \in Ids
      BY <1>0, <2>1, AwareOf, ReadOwn DEF Placed
    <3>2. g \in Frames /\ g.stage = f.stage /\ g.goal = f.goal /\ g.held = f.held /\ g.at = id
      BY <1>0, <3>1 DEF Frames
    <3>3. To(w, "saveMemory", g) /\ UNCHANGED req
      BY <1>5, <2>1 DEF Lookup
    <3> HIDE DEF g, id
    <3> QED BY <1>2, <3>1, <3>2, <3>3
  <2>2. CASE To(w, "walk", [f EXCEPT !.at = RootId, !.walked = 0])
    <3> DEFINE g == [f EXCEPT !.at = RootId, !.walked = 0]
    <3>1. 0 \in 0..MaxDepth /\ RootId \in Ids /\ "walk" \in Pcs
      BY IdsDistinct, BoundsAssumption DEF Pcs
    <3>2. /\ g \in Frames /\ g.goal = f.goal /\ g.stage = f.stage /\ g.at = RootId
          /\ g.held = f.held /\ g.walked = 0
      BY <1>0, <3>1 DEF Frames
    <3>3. To(w, "walk", g) /\ UNCHANGED req
      BY <1>5, <2>2 DEF Lookup
    <3> HIDE DEF g
    <3>4. Upto(f.goal, 0) = <<>>
      BY SubSeqEmpty, 0 < 1 DEF Upto
    <3>5. Sits(tree, p, RootId, <<>>)
      BY <1>0, AwareOf, RootSits
    <3>6. Knows(tree, "walk", req[w], g)
      BY <1>0, <3>2, <3>4, <3>5 DEF Knows
    <3> QED BY <3>1, <3>2, <3>3, <3>6, ToKnows
  <2> QED BY <1>5, <2>1, <2>2 DEF Lookup
<1>6. CASE Walk(w)
  <2> DEFINE n == f.walked
             id == Listed(p, f.at, f.goal[n + 1])
             next == IF n + 1 = Len(f.goal) THEN "saveMemory" ELSE "walk"
             g == [f EXCEPT !.at = id, !.walked = n + 1]
  <2>1. CASE NotFound(w)
    BY <2>1, NotFoundKnows
  <2>2. CASE id # NoDir /\ To(w, next, g) /\ UNCHANGED req
    <3>1. pc[w] = "walk" /\ n \in 0..MaxDepth /\ n < Len(f.goal)
      BY <1>0, <1>6, AwareOf, BusyOwn DEF Walk, HoldsOwn, Frames
    <3>2. Len(f.goal) \in 1..MaxDepth /\ MaxDepth \in Nat
      BY <1>0, NamedPaths, BoundsAssumption
    <3>3. /\ n \in 0..Len(f.goal) /\ n + 1 \in 0..Len(f.goal) /\ n + 1 > 0 /\ n + 1 \in 0..MaxDepth
          /\ n \in 0..(n + 1) /\ (n + 1) - 1 = n
      <4> DEFINE l == Len(f.goal)
      <4>1. n \in 0..MaxDepth /\ n < l /\ l \in 1..MaxDepth /\ MaxDepth \in Nat
        BY <3>1, <3>2
      <4> HIDE DEF n, l
      <4>2. /\ n \in 0..l /\ n + 1 \in 0..l /\ n + 1 > 0 /\ n + 1 \in 0..MaxDepth
            /\ n \in 0..(n + 1) /\ (n + 1) - 1 = n
        BY <4>1
      <4> QED BY <4>2 DEF l
    <3> DEFINE q == Upto(f.goal, n + 1)
    <3>4. q \in Named /\ q \in Paths /\ Len(q) = n + 1 /\ f.goal[n + 1] \in Names
      BY <1>0, <3>1, <3>3, Prefixes
    <3>5. Upto(q, n) = Upto(f.goal, n) /\ Append(Upto(f.goal, n), f.goal[n + 1]) = q
      BY <1>0, <3>1, <3>3, PrefixOfPrefix, Prefixes
    <3> HIDE DEF q
    <3>6. Parent(q) = Upto(f.goal, n)
      BY <3>3, <3>4, <3>5, Parents
    <3>7. Sits(tree, p, f.at, Upto(f.goal, n))
      BY <1>0, <3>1 DEF Knows
    <3>8. Sits(tree, p, id, q) /\ id \in Ids
      BY <1>0, <2>2, <3>4, <3>5, <3>7, AwareOf, ListedSits, ListedOwn
    <3> HIDE DEF id
    <3>9. /\ g \in Frames /\ next \in Pcs /\ g.at = id /\ g.walked = n + 1
          /\ g.stage = f.stage /\ g.goal = f.goal /\ g.held = f.held
      BY <1>0, <3>3, <3>8 DEF Frames, Pcs
    <3>10. next = "saveMemory" => q = f.goal
      BY <1>0, WholePath DEF q
    <3>11. next \in {"saveMemory", "walk"} /\ q = Upto(g.goal, g.walked)
      BY <3>9 DEF q
    <3> HIDE DEF g, next
    <3>12. Knows(tree, next, req[w], g)
      BY <1>0, <3>8, <3>9, <3>10, <3>11 DEF Knows
    <3> QED BY <2>2, <3>9, <3>12, ToKnows
  <2> QED BY <1>6, <2>1, <2>2 DEF Walk, Stay
<1> QED BY <1>3, <1>4, <1>5, <1>6

(* The steps that fill the caches.                                         *)
LEMMA SaveKnows ==
    ASSUME NEW w \in Workers, Aware(w), FillMemory(w) \/ SaveMemory(w) \/ SaveTable(w)
    PROVE  KnowsOn(w) /\ Sits(tree, req[w].profile, frame[w].at, frame[w].goal)
<1> DEFINE f == frame[w]
<1>1. pc[w] \in {"fill", "saveMemory", "saveTable"} /\ UNCHANGED req
  BY DEF FillMemory, SaveMemory, SaveTable
<1>2. Sits(tree, req[w].profile, f.at, f.goal) /\ f \in Frames /\ f.at \in Ids
  BY <1>1, AwareOf DEF Knows, Frames
<1>3. CASE Found(w, f.at)
  BY <1>1, <1>2, <1>3, FoundKnows
<1>4. CASE To(w, "saveTable", f)
  <2>1. Knows(tree, "saveTable", req[w], f)
    BY <1>2, AwareOf DEF Knows
  <2> QED BY <1>1, <1>2, <1>4, <2>1, ToKnows DEF Pcs
<1> QED BY <1>2, <1>3, <1>4 DEF FillMemory, SaveMemory, SaveTable

LEMMA MkdirExistsKnows ==
    ASSUME NEW w \in Workers, Aware(w), MkdirExists(w)
    PROVE  KnowsOn(w)
<1> DEFINE f == frame[w]
<1>1. pc[w] = "mkdir" /\ UNCHANGED req /\ Resolve(w, "exists", f.goal, f.held)
  BY DEF MkdirExists
<1>2. f.stage = "prefix" /\ f.goal \in Paths /\ f.held \in Ids
  BY <1>1, AwareOf, BusyOwn DEF HoldsOwn, Frames
<1>3. Sits(tree, req[w].profile, f.held, Parent(f.goal))
  BY <1>2, AwareOf DEF Knows
<1> QED BY <1>1, <1>2, <1>3, ResolveKnows DEF Stages

LEMMA ListParentKnows ==
    ASSUME NEW w \in Workers, Aware(w), ListParent(w)
    PROVE  KnowsOn(w)
<1> DEFINE p == req[w].profile
           path == req[w].path
           id == Listed(p, frame[w].held, path[Len(path)])
<1>1. CASE Leave(w)
  BY <1>1, LeaveKnows
<1>2. CASE id # NoDir /\ TargetFound(w, id) /\ UNCHANGED req
  <2>1. pc[w] = "listParent" /\ path \in Named /\ p \in Profiles /\ Placed(p)
    BY AwareOf, AnyRequest DEF ListParent
  <2>2. frame[w].stage \in {"target", "parent"} /\ Sits(tree, p, frame[w].held, Parent(path))
    BY <2>1, AwareOf, BusyOwn DEF HoldsOwn, Knows
  <2>3. Append(Parent(path), path[Len(path)]) = path /\ path \in Paths
    BY <2>1, Parents, NamedPaths
  <2>4. Sits(tree, p, id, path)
    <3>1. Sits(tree, p, id, Append(Parent(path), path[Len(path)]))
      BY <1>2, <2>1, <2>2, <2>3, ListedSits
    <3> QED BY <2>3, <3>1
  <2>5. id \in Ids
    BY <1>2, <2>1, AwareOf, BusyOwn, Parents, ListedOwn, IdsDistinct
  <2> HIDE DEF id
  <2> QED BY <1>2, <2>2, <2>4, <2>5, TargetKnows
<1> QED BY <1>1, <1>2 DEF ListParent, Stay

-----------------------------------------------------------------------------
(* What others do to such an account                                       *)

\* Entries vanish, or are new ids, each at one path.
Steady(p) ==
    /\ \A q \in Paths : tree'[p][q] \in {tree[p][q], NoDir} \cup (DirIds \ used[p])
    /\ \A q, r \in Paths :
          tree'[p][q] = tree'[p][r] /\ tree'[p][q] \in DirIds \ used[p] => q = r

\* Only a Remove of this path, or of one above, makes an entry vanish.
Requested(p) ==
    \A q \in Paths : tree[p][q] # NoDir /\ tree'[p][q] # tree[p][q] =>
        \E w \in Workers : /\ pc[w] = "act" /\ pc'[w] = "idle"
                           /\ req[w].profile = p /\ req[w].op = "remove"
                           /\ Under(q, req[w].path)

LEMMA SitsKept ==
    ASSUME AccountInv, NEW p \in Profiles, Steady(p), NEW id \in used[p] \cup {RootId}, NEW q,
           Sits(tree, p, id, q)
    PROVE  Sits(tree', p, id, q)
<1>1. id # NoDir /\ id \notin DirIds \ used[p]
  BY IdsDistinct DEF AccountInv, Types
<1> QED BY <1>1 DEF Steady, Sits

LEMMA PlacedKept ==
    ASSUME AccountInv, NEW p \in Profiles, Placed(p), Steady(p)
    PROVE  /\ \A q \in Paths : tree'[p][q] # NoDir => Sits(tree', p, tree'[p][q], q)
           /\ \A q \in Paths : memory[p][q] # NoDir => Sits(tree', p, memory[p][q], q)
           /\ \A q \in Paths : table[p][q] # NoDir => Sits(tree', p, table[p][q], q)
<1>1. ASSUME NEW q \in Paths, tree'[p][q] # NoDir PROVE Sits(tree', p, tree'[p][q], q)
  <2>1. CASE tree'[p][q] = tree[p][q]
    <3>1. tree[p][q] \in used[p] \cup {RootId} /\ Sits(tree, p, tree[p][q], q)
      BY <1>1, <2>1, EntryOwned DEF Placed
    <3> QED BY <2>1, <3>1, SitsKept
  <2>2. CASE tree'[p][q] \in DirIds \ used[p]
    BY <2>2 DEF Steady, Sits
  <2> QED BY <1>1, <2>1, <2>2 DEF Steady
<1>2. ASSUME NEW q \in Paths, memory[p][q] # NoDir PROVE Sits(tree', p, memory[p][q], q)
  <2>1. memory[p][q] \in used[p]
    BY <1>2 DEF AccountInv, CacheOfOwnAccount
  <2> QED BY <1>2, <2>1, SitsKept DEF Placed
<1>3. ASSUME NEW q \in Paths, table[p][q] # NoDir PROVE Sits(tree', p, table[p][q], q)
  <2>1. table[p][q] \in used[p]
    BY <1>3 DEF AccountInv, CacheOfOwnAccount
  <2> QED BY <1>3, <2>1, SitsKept DEF Placed
<1> QED BY <1>1, <1>2, <1>3

LEMMA KnowsKept ==
    ASSUME AccountInv, NEW p, NEW r, NEW f, p # "idle", HoldsOwn(used, p, r, f),
           Steady(r.profile), Knows(tree, p, r, f)
    PROVE  Knows(tree', p, r, f)
<1>1. r.profile \in Profiles /\ {f.at, f.held} \subseteq used[r.profile] \cup {RootId}
  BY AnyRequest DEF HoldsOwn
<1>2. \A q : /\ Sits(tree, r.profile, f.at, q) => Sits(tree', r.profile, f.at, q)
             /\ Sits(tree, r.profile, f.held, q) => Sits(tree', r.profile, f.held, q)
  BY <1>1, SitsKept
<1> QED BY <1>2 DEF Knows

LEMMA SameTree ==
    ASSUME NEW p \in Profiles, tree'[p] = tree[p], AccountInv
    PROVE  Steady(p) /\ Requested(p)
<1>1. \A q \in Paths : tree'[p][q] = tree[p][q]
  OBVIOUS
<1>2. \A q \in Paths : tree[p][q] \notin DirIds \ used[p]
  BY EntryOwned, IdsDistinct DEF AccountInv, TreeOwned
<1> QED BY <1>1, <1>2 DEF Steady, Requested

\* A directory appears where there was none.
LEMMA MkdirSteady ==
    ASSUME AccountInv, NEW o \in Profiles, NEW parent, NEW name, NEW id \in Fresh,
           CloudMkdir(o, parent, name, id), NEW p \in Profiles
    PROVE  Steady(p) /\ Requested(p)
<1> DEFINE q == Append(PathOf(o, parent), name)
<1>1. q \in Paths /\ tree[o][q] = NoDir /\ tree' = [tree EXCEPT ![o][q] = id]
  BY DEF CloudMkdir
<1>2. id \in DirIds /\ id \notin used[p]
  BY DEF Fresh
<1> HIDE DEF q
<1>3. \A r \in Paths : tree'[p][r] = IF p = o /\ r = q THEN id ELSE tree[p][r]
  BY <1>1 DEF AccountInv, Types
<1>4. \A r \in Paths : tree[p][r] \notin DirIds \ used[p]
  BY EntryOwned, IdsDistinct DEF AccountInv, TreeOwned
<1>5. Steady(p)
  BY <1>2, <1>3, <1>4 DEF Steady
<1>6. Requested(p)
  BY <1>1, <1>3 DEF Requested
<1> QED BY <1>5, <1>6

\* The id that Delete gets is the one of the path, or of nothing.
LEMMA RemoveSteady ==
    ASSUME NEW w \in Workers, Aware(w), pc[w] = "act", req[w].op = "remove", Leave(w),
           CloudDelete(req[w].profile, frame[w].held)
    PROVE  Steady(req[w].profile) /\ Requested(req[w].profile)
<1> DEFINE p == req[w].profile
           id == frame[w].held
           path == req[w].path
<1>1. AccountInv /\ p \in Profiles /\ Sits(tree, p, id, path)
  BY AwareOf DEF Knows
<1>2. Exists(p, id) => PathOf(p, id) = path
  <2> SUFFICES ASSUME Exists(p, id) PROVE PathOf(p, id) = path
    OBVIOUS
  <2>1. \E r \in Paths : tree[p][r] = id
    BY DEF Exists
  <2>2. PathOf(p, id) \in Paths /\ tree[p][PathOf(p, id)] = id
    BY <2>1 DEF PathOf
  <2> QED BY <1>1, <2>2 DEF Sits
<1>3. \A q \in Paths : tree'[p][q] = IF Exists(p, id) /\ Under(q, PathOf(p, id))
                                     THEN NoDir ELSE tree[p][q]
  BY <1>1 DEF CloudDelete, AccountInv, Types
<1> HIDE DEF id
<1>4. \A q \in Paths : \/ tree'[p][q] = tree[p][q]
                       \/ tree'[p][q] = NoDir /\ Under(q, path)
  BY <1>2, <1>3
<1>5. \A q \in Paths : tree[p][q] \notin DirIds \ used[p]
  BY <1>1, EntryOwned, IdsDistinct DEF AccountInv, TreeOwned
<1>6. Steady(p)
  BY <1>4, <1>5, IdsAssumption DEF Steady
<1>7. pc'[w] = "idle"
  BY AwareOf, LeaveGoes
<1>8. Requested(p)
  BY <1>4, <1>7 DEF Requested
<1> QED BY <1>6, <1>8

LEMMA StepSteady ==
    ASSUME PlacesInv, Next, NEW p \in Profiles, OnlyMadeAndRemoved(p)
    PROVE  Steady(p) /\ Requested(p)
<1>0. AccountInv
  BY DEF PlacesInv
<1>1. CASE UNCHANGED tree
  BY <1>0, <1>1, SameTree
<1>2. CASE OwnerMkdir
  BY <1>0, <1>2, MkdirSteady DEF OwnerMkdir, Named
<1>3. ASSUME NEW w \in Workers, Mkdir(w) PROVE Steady(p) /\ Requested(p)
  <2>1. req[w].profile \in Profiles
    BY <1>0, <1>3, BusyOwn DEF Mkdir
  <2> QED BY <1>0, <1>3, <2>1, MkdirSteady DEF Mkdir
<1>4. ASSUME NEW w \in Workers, Act(w) PROVE Steady(p) /\ Requested(p)
  <2>1. pc[w] = "act" /\ Leave(w) /\ req[w] \in Requests /\ req[w].profile \in Profiles
    BY <1>0, <1>4, BusyOwn DEF Act
  <2>2. CASE req[w].profile = p
    <3>1. Aware(w) /\ req[w].op \notin {"rename", "move"}
      BY <2>1, <2>2 DEF Aware, OnlyMadeAndRemoved
    <3>2. \/ UNCHANGED tree
          \/ req[w].op = "remove" /\ CloudDelete(req[w].profile, frame[w].held)
      BY <1>4, <3>1 DEF Act
    <3> QED BY <1>1, <2>1, <2>2, <3>1, <3>2, RemoveSteady
  <2>3. CASE req[w].profile # p
    <3>1. tree'[p] = tree[p]
      <4>1. \/ UNCHANGED tree
            \/ CloudDelete(req[w].profile, frame[w].held)
            \/ \E q : CloudRelocate(req[w].profile, frame[w].held, q)
        BY <1>4 DEF Act
      <4>2. ASSUME NEW t, tree' = [tree EXCEPT ![req[w].profile] = t] PROVE tree'[p] = tree[p]
        BY <1>0, <2>3, <4>2 DEF AccountInv, Types
      <4> QED BY <4>1, <4>2 DEF CloudDelete, CloudRelocate
    <3> QED BY <1>0, <3>1, SameTree
  <2> QED BY <2>2, <2>3
<1>5. ASSUME NEW w \in Workers, Accept(w) \/ Step(w), ~Mkdir(w), ~Act(w) PROVE UNCHANGED tree
  BY <1>5 DEF Accept, Step, ReadMemory, ReadTable, FillMemory, Lookup, Walk, SaveMemory, SaveTable,
              MkdirExists, MkdirFailed, ListParent, ActFailed, Answer
<1>6. Crash => UNCHANGED tree
  BY DEF Crash
<1> QED BY <1>1, <1>2, <1>3, <1>4, <1>5, <1>6 DEF Next

LEMMA AcceptKnows ==
    ASSUME PlacesInv, NEW w \in Workers, Accept(w)
    PROVE  Knows(tree, pc'[w], req'[w], frame'[w])
<1>1. PICK r \in Requests :
          /\ req' = [req EXCEPT ![w] = r]
          /\ Resolve(w, IF r.op \in {"mkdir", "add", "list"} THEN "whole" ELSE "target",
                     r.path, RootId)
  BY DEF Accept
<1> DEFINE why == IF r.op \in {"mkdir", "add", "list"} THEN "whole" ELSE "target"
           f == [Blank EXCEPT !.stage = why, !.goal = r.path, !.held = RootId]
<1>2. To(w, "memory", f) /\ why \in {"whole", "target"}
  BY <1>1 DEF Resolve
<1>3. f.stage = why /\ f.goal = r.path
  BY DEF Blank
<1>4. pc'[w] = "memory" /\ req'[w] = r /\ frame'[w] = f
  BY <1>1, <1>2 DEF To, PlacesInv, AccountInv, Types
<1> HIDE DEF why, f
<1> QED BY <1>2, <1>3, <1>4 DEF Knows

\* The new directory is at the path it was made for.
LEMMA MkdirKnows ==
    ASSUME NEW w \in Workers, Aware(w), Mkdir(w), Steady(req[w].profile)
    PROVE  pc'[w] # "idle" => Knows(tree', pc'[w], req'[w], frame'[w])
<1> DEFINE p == req[w].profile
           f == frame[w]
<1>1. PICK id \in Fresh :
          /\ CloudMkdir(p, f.held, f.goal[Len(f.goal)], id)
          /\ \/ To(w, "saveMemory", [f EXCEPT !.stage = "made", !.at = id]) /\ UNCHANGED req
             \/ Leave(w)
  BY DEF Mkdir, Stay
<1>2. pc[w] = "mkdir" /\ Exists(p, f.held)
  BY DEF Mkdir
<1>3. /\ AccountInv /\ Types /\ p \in Profiles /\ f \in Frames /\ f.goal \in Named
      /\ Knows(tree, pc[w], req[w], f)
      /\ f.held \in used[p] \cup {RootId} /\ f.stage = "prefix"
  BY <1>2, AwareOf, BusyOwn DEF HoldsOwn
<1>4. Sits(tree, p, f.held, Parent(f.goal))
  BY <1>3 DEF Knows
<1>5. PathOf(p, f.held) = Parent(f.goal)
  <2>1. \E r \in Paths : tree[p][r] = f.held
    BY <1>2 DEF Exists
  <2>2. PathOf(p, f.held) \in Paths /\ tree[p][PathOf(p, f.held)] = f.held
    BY <2>1 DEF PathOf
  <2> QED BY <1>4, <2>2 DEF Sits
<1>6. Append(PathOf(p, f.held), f.goal[Len(f.goal)]) = f.goal /\ f.goal \in Paths
  BY <1>3, <1>5, Parents, NamedPaths
<1>7. tree' = [tree EXCEPT ![p][f.goal] = id]
  BY <1>1, <1>6 DEF CloudMkdir
<1>8. id \in DirIds /\ id \notin used[p] /\ id \in Ids
  BY <1>3, IdsDistinct DEF Fresh
<1>9. tree'[p][f.goal] = id
  BY <1>3, <1>6, <1>7 DEF Types
<1>10. Sits(tree', p, id, f.goal)
  BY <1>6, <1>8, <1>9 DEF Steady, Sits
<1>11. Sits(tree', p, f.held, Parent(f.goal))
  BY <1>3, <1>4, SitsKept
<1>12. CASE Leave(w)
  BY <1>3, <1>12, LeaveGoes
<1>13. CASE To(w, "saveMemory", [f EXCEPT !.stage = "made", !.at = id]) /\ UNCHANGED req
  <2> DEFINE g == [f EXCEPT !.stage = "made", !.at = id]
  <2>1. g \in Frames /\ g.stage = "made" /\ g.at = id /\ g.goal = f.goal /\ g.held = f.held
    BY <1>3, <1>8 DEF Frames, Stages
  <2>2. To(w, "saveMemory", g)
    BY <1>13
  <2> HIDE DEF g
  <2>3. pc'[w] = "saveMemory" /\ frame'[w] = g /\ req'[w] = req[w]
    BY <1>3, <1>13, <2>1, <2>2, ToGoes DEF Pcs
  <2> QED BY <1>10, <1>11, <2>1, <2>3 DEF Knows
<1> QED BY <1>1, <1>12, <1>13

LEMMA WorkerKnows ==
    ASSUME PlacesInv, AccountInv', NEW w \in Workers, Accept(w) \/ Step(w),
           \A p \in Profiles : OnlyMadeAndRemoved(p) => Steady(p),
           pc'[w] # "idle", OnlyMadeAndRemoved(req'[w].profile)
    PROVE  Knows(tree', pc'[w], req'[w], frame'[w])
<1>0. AccountInv
  BY DEF PlacesInv
<1>1. HoldsOwn(used', pc'[w], req'[w], frame'[w]) /\ req'[w] \in Requests
  BY DEF AccountInv, HoldsOwn
<1>2. CASE Accept(w)
  <2>1. Knows(tree, pc'[w], req'[w], frame'[w]) /\ UNCHANGED tree
    BY <1>2, AcceptKnows DEF Accept
  <2> QED BY <2>1
<1>3. CASE Step(w)
  <2>1. pc[w] # "idle"
    BY <1>3 DEF Step, ReadMemory, ReadTable, FillMemory, Lookup, Walk, SaveMemory, SaveTable, Mkdir,
                MkdirExists, MkdirFailed, ListParent, Act, ActFailed, Answer
  <2>2. req'[w] = req[w]
    <3>1. NotFound(w) => Leave(w) \/ UNCHANGED req
      BY DEF NotFound, Stay
    <3>2. Walk(w) \/ Mkdir(w) \/ ListParent(w) => Leave(w) \/ UNCHANGED req
      BY <3>1 DEF Walk, Mkdir, ListParent, Stay
    <3>3. MkdirFailed(w) \/ Act(w) \/ ActFailed(w) \/ Answer(w) => Leave(w)
      BY DEF MkdirFailed, Act, ActFailed, Answer
    <3>4. ReadMemory(w) \/ ReadTable(w) \/ FillMemory(w) \/ Lookup(w) => UNCHANGED req
      BY DEF ReadMemory, ReadTable, FillMemory, Lookup
    <3>5. SaveMemory(w) \/ SaveTable(w) \/ MkdirExists(w) => UNCHANGED req
      BY DEF SaveMemory, SaveTable, MkdirExists
    <3>6. Leave(w) \/ UNCHANGED req
      BY <1>3, <3>2, <3>3, <3>4, <3>5 DEF Step
    <3> QED BY <1>0, <3>6, LeaveGoes DEF AccountInv
  <2>3. Aware(w) /\ req[w].profile \in Profiles
    BY <1>0, <2>1, <2>2, BusyOwn DEF Aware
  <2>4. ASSUME KnowsOn(w), UNCHANGED tree PROVE Knows(tree', pc'[w], req'[w], frame'[w])
    BY <2>4 DEF KnowsOn
  <2>5. CASE ReadMemory(w) \/ ReadTable(w) \/ Lookup(w) \/ Walk(w)
    BY <2>3, <2>4, <2>5, SearchKnows DEF ReadMemory, ReadTable, Lookup, Walk
  <2>6. CASE FillMemory(w) \/ SaveMemory(w) \/ SaveTable(w)
    BY <2>3, <2>4, <2>6, SaveKnows DEF FillMemory, SaveMemory, SaveTable
  <2>7. CASE MkdirExists(w) \/ ListParent(w)
    <3>1. UNCHANGED tree
      BY <2>7 DEF MkdirExists, ListParent
    <3>2. KnowsOn(w)
      BY <2>3, <2>7, MkdirExistsKnows, ListParentKnows
    <3> QED BY <2>4, <3>1, <3>2
  <2>8. CASE Mkdir(w)
    <3>1. Steady(req[w].profile)
      BY <2>2, <2>3
    <3> QED BY <2>3, <2>8, <3>1, MkdirKnows
  <2>9. CASE MkdirFailed(w) \/ ActFailed(w) \/ Answer(w) \/ Act(w)
    BY <1>0, <2>9, LeaveGoes DEF MkdirFailed, ActFailed, Answer, Act, AccountInv
  <2> QED BY <1>3, <2>5, <2>6, <2>7, <2>8, <2>9 DEF Step
<1> QED BY <1>2, <1>3

(* An entry that a request adds to a cache has the id of its path.         *)
LEMMA CachesKept ==
    ASSUME PlacesInv, Next, NEW p \in Profiles, OnlyMadeAndRemoved(p), NEW q \in Paths
    PROVE  /\ \/ memory'[p][q] \in {memory[p][q], NoDir}
              \/ Sits(tree, p, memory'[p][q], q) /\ UNCHANGED tree
           /\ \/ table'[p][q] \in {table[p][q], NoDir}
              \/ Sits(tree, p, table'[p][q], q) /\ UNCHANGED tree
<1>0. AccountInv /\ Types
  BY DEF PlacesInv, AccountInv
<1>1. CASE UNCHANGED <<memory, table>>
  BY <1>1
<1>2. CASE Crash
  BY <1>2 DEF Crash, EmptyCache
<1>3. ASSUME NEW w \in Workers, FillMemory(w) \/ SaveMemory(w) \/ SaveTable(w)
      PROVE  /\ \/ memory'[p][q] = memory[p][q]
                \/ Sits(tree, p, memory'[p][q], q) /\ UNCHANGED tree
             /\ \/ table'[p][q] = table[p][q]
                \/ Sits(tree, p, table'[p][q], q) /\ UNCHANGED tree
  <2> DEFINE o == req[w].profile
             f == frame[w]
  <2>1. /\ pc[w] # "idle" /\ UNCHANGED tree
        /\ memory' \in {memory, [memory EXCEPT ![o][f.goal] = f.at]}
        /\ table' \in {table, [table EXCEPT ![o][f.goal] = f.at]}
    BY <1>3 DEF FillMemory, SaveMemory, SaveTable, Remember
  <2>2. o \in Profiles /\ f.goal \in Paths
    BY <1>0, <2>1, BusyOwn
  <2>3. o = p => Sits(tree, p, f.at, f.goal)
    BY <1>3, <2>1, SaveKnows DEF Aware
  <2>4. {memory, table} \subseteq [Profiles -> [Paths -> Ids \cup {NoDir}]]
    BY <1>0 DEF Types
  <2> DEFINE k == f.goal
             id == f.at
  <2>5. ASSUME NEW c \in [Profiles -> [Paths -> Ids \cup {NoDir}]],
               NEW d \in {c, [c EXCEPT ![o][k] = id]}
        PROVE  d[p][q] = c[p][q] \/ (o = p /\ q = k /\ d[p][q] = id)
    <3> HIDE DEF o, k, id
    <3> QED BY <2>2
  <2>6. memory'[p][q] = memory[p][q] \/ (o = p /\ q = k /\ memory'[p][q] = id)
    BY <2>1, <2>4, <2>5
  <2>7. table'[p][q] = table[p][q] \/ (o = p /\ q = k /\ table'[p][q] = id)
    BY <2>1, <2>4, <2>5
  <2> QED BY <2>1, <2>3, <2>6, <2>7
<1>4. ASSUME NEW w \in Workers, Accept(w) \/ Step(w), ~FillMemory(w), ~SaveMemory(w), ~SaveTable(w)
      PROVE  UNCHANGED <<memory, table>>
  BY <1>4 DEF Accept, Step, ReadMemory, ReadTable, Lookup, Walk, Mkdir,
              MkdirExists, MkdirFailed, ListParent, Act, ActFailed, Answer
<1>5. OwnerMkdir => UNCHANGED <<memory, table>>
  BY DEF OwnerMkdir
<1> QED BY <1>1, <1>2, <1>3, <1>4, <1>5 DEF Next

LEMMA NextPlaces == PlacesInv /\ [Next]_vars => PlacesInv'
<1> SUFFICES ASSUME PlacesInv, [Next]_vars PROVE PlacesInv'
  OBVIOUS
<1>0. AccountInv /\ AccountInv'
  BY NextOwn DEF PlacesInv
<1>1. CASE UNCHANGED vars
  BY <1>0, <1>1 DEF vars, PlacesInv, Placed
<1>2. CASE Next
  <2>1. \A p \in Profiles : OnlyMadeAndRemoved(p) => Steady(p)
    BY <1>2, StepSteady
  <2>2. ASSUME NEW p \in Profiles, OnlyMadeAndRemoved(p) PROVE Placed(p)'
    <3>1. /\ \A q \in Paths : tree'[p][q] # NoDir => Sits(tree', p, tree'[p][q], q)
          /\ \A q \in Paths : memory[p][q] # NoDir => Sits(tree', p, memory[p][q], q)
          /\ \A q \in Paths : table[p][q] # NoDir => Sits(tree', p, table[p][q], q)
      BY <1>0, <2>1, <2>2, PlacedKept DEF PlacesInv
    <3>2. ASSUME NEW q \in Paths, memory'[p][q] # NoDir PROVE Sits(tree', p, memory'[p][q], q)
      BY <1>2, <2>2, <3>1, <3>2, CachesKept
    <3>3. ASSUME NEW q \in Paths, table'[p][q] # NoDir PROVE Sits(tree', p, table'[p][q], q)
      BY <1>2, <2>2, <3>1, <3>3, CachesKept
    <3> QED BY <3>1, <3>2, <3>3 DEF Placed
  <2>3. ASSUME NEW v \in Workers, pc[v] # "idle", OnlyMadeAndRemoved(req[v].profile)
        PROVE  Knows(tree', pc[v], req[v], frame[v])
    <3>1. HoldsOwn(used, pc[v], req[v], frame[v]) /\ req[v].profile \in Profiles
      BY <1>0, <2>3, BusyOwn
    <3> QED BY <1>0, <2>1, <2>3, <3>1, KnowsKept DEF PlacesInv
  <2>4. ASSUME NEW v \in Workers, pc'[v] # "idle", OnlyMadeAndRemoved(req'[v].profile)
        PROVE  Knows(tree', pc'[v], req'[v], frame'[v])
    <3>1. CASE UNCHANGED <<pc, req, frame>>
      BY <2>3, <2>4, <3>1
    <3>2. ASSUME NEW w \in Workers, Accept(w) \/ Step(w), v # w
          PROVE  Knows(tree', pc'[v], req'[v], frame'[v])
      <4>1. pc'[v] = pc[v] /\ req'[v] = req[v] /\ frame'[v] = frame[v]
        BY <1>0, <3>2, WorkerOwn DEF OwnFits, Goes
      <4> QED BY <2>3, <2>4, <4>1
    <3>3. CASE Accept(v) \/ Step(v)
      BY <1>0, <2>1, <2>4, <3>3, WorkerKnows
    <3>4. ~Crash
      BY <2>4 DEF Crash
    <3>5. OwnerMkdir => UNCHANGED <<pc, req, frame>>
      BY DEF OwnerMkdir
    <3> QED BY <1>2, <3>1, <3>2, <3>3, <3>4, <3>5 DEF Next
  <2>5. \A p \in Profiles : OnlyMadeAndRemoved(p)' <=> OnlyMadeAndRemoved(p)
    BY DEF OnlyMadeAndRemoved
  <2> QED BY <1>0, <2>2, <2>4, <2>5 DEF PlacesInv, OnlyMadeAndRemoved
<1> QED BY <1>1, <1>2

LEMMA InitPlaces == Init => PlacesInv
<1> SUFFICES ASSUME Init PROVE PlacesInv
  OBVIOUS
<1>1. \A p \in Profiles, q \in Paths :
          /\ tree[p][q] = IF q = <<>> THEN RootId ELSE NoDir
          /\ memory[p][q] = NoDir /\ table[p][q] = NoDir
  BY DEF Init, EmptyCache
<1>2. \A p \in Profiles : Placed(p)
  BY <1>1 DEF Placed, Sits
<1>3. \A w \in Workers : pc[w] = "idle"
  BY DEF Init
<1> QED BY <1>2, <1>3, InitOwn DEF PlacesInv

(* In an account whose directories requests only make and remove, what     *)
(* vanishes is what a Remove was asked for: the ids that requests and      *)
(* caches hold, be they stale, are of no other path (Remove, resolvePath). *)
THEOREM RemovedAreRequested == Spec => RemovesOnlyRequested
<1>1. Init => PlacesInv
  BY InitPlaces
<1>2. PlacesInv /\ [Next]_vars => PlacesInv'
  BY NextPlaces
<1>3. PlacesInv /\ [Next]_vars =>
          [\A p \in Profiles : OnlyMadeAndRemoved(p) =>
              \A q \in Paths : tree[p][q] # NoDir /\ tree'[p][q] # tree[p][q] =>
                  \E w \in Workers : /\ pc[w] = "act" /\ pc'[w] = "idle"
                                     /\ req[w].profile = p /\ req[w].op = "remove"
                                     /\ Under(q, req[w].path)]_vars
  BY StepSteady DEF Requested
<1> QED BY <1>1, <1>2, <1>3, PTL DEF Spec, RemovesOnlyRequested
=============================================================================
