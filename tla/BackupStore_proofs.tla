-------------------------- MODULE BackupStore_proofs --------------------------
(***************************************************************************)
(* BackupStore implements SnapshotStore, for any number of deployments,    *)
(* boots, writes and troubles, on the inductive invariant StoreInv.        *)
(***************************************************************************)
EXTENDS BackupStore, TLAPS

\* The trees a running Create or Restore is through with.
Before(t) == CASE t = "etcd"       -> {}
               [] t = "kubernetes" -> {"etcd"}
               [] t = "kubelet"    -> {"etcd", "kubernetes"}

\* ... and those it has not come to.
After(t) == Trees \ (Before(t) \cup {t})

\* Names and modification times tell the backups apart, and names the
\* `.tmp` directories.
Distinct ==
    /\ \A b, c \in backups : Name(b) = Name(c) => b = c
    /\ \A b, c \in backups : b.mtime = c.mtime => b = c
    /\ \A d, e \in tmp : d.name = e.name => d = e

\* The `.tmp` directory of a running Create: what is copied is what is live.
Filled(d) ==
    /\ pc \in {"copy", "copying"} => \A t \in Before(tree) : d.data[t] = live[t]
    /\ pc \in {"copy", "copying"} => \A t \in After(tree) : d.data[t] = Absent
    /\ pc = "copy" => d.data[tree] = Absent
    /\ pc = "publish" => d.data = live

CreateInv ==
    pc \in Creating =>
       /\ ~Exists(backups, name)
       /\ \A d \in tmp : d.name = name => Filled(d)

\* The backup a running Restore is putting back, and how far it is.
RestoreInv ==
    pc \in Restoring =>
       /\ target \in backups
       /\ target.dep \in known
       /\ IsNewest(target, backups)
       /\ \A t \in Before(tree) : live[t] = target.data[t]
       /\ pc \in {"wipe", "swap"} /\ target.data[tree] # Absent =>
             staged[tree] = target.data[tree]

\* Every call begins with etcd's tree.
FirstTree == pc \in {"idle", "pruning", "clean"} => tree = "etcd"

StoreInv ==
    /\ TypeOK
    /\ Distinct
    /\ StrayIsReclaimable
    /\ FirstTree
    /\ CreateInv
    /\ RestoreInv

-----------------------------------------------------------------------------
(***************************************************************************)
(* Type correctness.                                                       *)
(***************************************************************************)
TmpDirs == [name : Names, data : [Trees -> Contents]]

LEMMA TypeInit == Init => TypeOK
BY StoreAssumption DEF Init, TypeOK, Contents, Torn, Absent, Nothing, Trees, Deps,
     Creating, Copying, Restoring

\* Fresh trees, versions and times are of the types they go to.
LEMMA ContentTypes ==
    /\ Absent \in Contents
    /\ Torn \in Contents
    /\ Nothing \in [Trees -> Contents]
    /\ \A n \in Names : n # NoName
BY StoreAssumption DEF Contents, Absent, Torn, Nothing, Names, Deps, NoName

LEMMA CopyTypes ==
    ASSUME TypeOK, NEW c \in Contents, pc \in Copying
    PROVE  /\ TmpWith(c) \subseteq TmpDirs
           /\ \E d \in TmpWith(c) : d.name = name
<1>1. PICK d \in tmp : d.name = name
  BY DEF TypeOK
<1>2. d \in tmp \ OtherTmps /\ tmp \subseteq TmpDirs /\ tree \in Trees
  BY <1>1 DEF TypeOK, OtherTmps, TmpDirs
<1> DEFINE Copied(x) == [name |-> name, data |-> [x.data EXCEPT ![tree] = c]]
<1>3. Copied(d).name = name
  OBVIOUS
<1>4. ASSUME NEW x \in tmp \ OtherTmps PROVE Copied(x) \in TmpDirs
  <2>1. x.name = name /\ x.name \in Names /\ x.data \in [Trees -> Contents]
    BY <1>2 DEF OtherTmps, TmpDirs
  <2>2. [x.data EXCEPT ![tree] = c] \in [Trees -> Contents]
    BY <2>1
  <2> QED
    BY <2>1, <2>2 DEF TmpDirs
<1>5. TmpWith(c) = OtherTmps \cup {Copied(x) : x \in tmp \ OtherTmps}
  BY DEF TmpWith
<1> HIDE DEF Copied
<1>6. Copied(d) \in TmpWith(c)
  BY <1>2, <1>5
<1>7. TmpWith(c) \subseteq TmpDirs
  BY <1>2, <1>4, <1>5 DEF OtherTmps
<1> QED
  BY <1>3, <1>6, <1>7

\* Which steps of a call keep what TypeOK says of a running Create.
LEMMA CreateTypes == TypeOK /\ Create => TypeOK'
<1> SUFFICES ASSUME TypeOK, Create PROVE TypeOK'
  OBVIOUS
<1> USE DEF diskVars, locals
<1> USE DEF Creating, Copying, Restoring
<1>1. ASSUME NEW n \in Names, CallCreate(n) PROVE TypeOK'
  BY <1>1, ContentTypes DEF CallCreate, TypeOK
<1>2. CASE CleanTmp
  <2> DEFINE fresh == [name |-> name, data |-> Nothing]
  <2>1. fresh \in TmpDirs /\ fresh.name = name /\ name # NoName
    BY <1>2, ContentTypes DEF CleanTmp, TmpDirs, TypeOK
  <2>2. tmp' = OtherTmps \cup {fresh} /\ tmp \subseteq TmpDirs
    BY <1>2 DEF CleanTmp, FreshTmp, TmpDirs, TypeOK
  <2> HIDE DEF fresh
  <2>3. tmp' \subseteq TmpDirs /\ \E d \in tmp' : d.name = name
    BY <2>1, <2>2 DEF OtherTmps
  <2> QED
    BY <1>2, <2>1, <2>3 DEF CleanTmp, TmpDirs, TypeOK
<1>3. CASE CopyBegins
  <2>1. tmp' \subseteq TmpDirs /\ \E d \in tmp' : d.name = name
    BY <1>3, CopyTypes, ContentTypes DEF CopyBegins
  <2> QED
    BY <1>3, <2>1 DEF CopyBegins, TmpDirs, TypeOK
<1>4. CASE CopyEnds
  <2>1. tmp' \subseteq TmpDirs /\ \E d \in tmp' : d.name = name
    BY <1>4, CopyTypes DEF CopyEnds, TypeOK
  <2>2. tree' \in Trees
    BY <1>4 DEF CopyEnds, NextCopy, TreeAfter, Trees
  <2> QED
    BY <1>4, <2>1, <2>2 DEF CopyEnds, NextCopy, TmpDirs, TypeOK
<1>5. CASE CopyNothing
  <2>1. tree' \in Trees
    BY <1>5 DEF CopyNothing, NextCopy, TreeAfter, Trees
  <2> QED
    BY <1>5, <2>1 DEF CopyNothing, NextCopy, TypeOK
<1>6. CASE Publish
  <2>1. name \in Names
    BY <1>6 DEF Publish, TypeOK
  <2>2. backups' \subseteq BackupDirs
    BY <1>6, <2>1 DEF Publish, BackupDirs, TypeOK, OtherTmps, Names
  <2> QED
    BY <1>6, <2>2 DEF Publish, Return, TmpsAfterRename, OtherTmps, TypeOK, Trees
<1>7. CASE CleanFails \/ CreateFails
  BY <1>7, StoreAssumption
     DEF CleanFails, CreateFails, Trouble, Return, TypeOK, Trees
<1>8. CASE RollbackTmp
  BY <1>8, StoreAssumption DEF RollbackTmp, Trouble, Return, OtherTmps, TypeOK, Trees
<1> QED
  BY <1>1, <1>2, <1>3, <1>4, <1>5, <1>6, <1>7, <1>8 DEF Create

LEMMA RestoreTypes == TypeOK /\ Restore => TypeOK'
<1> SUFFICES ASSUME TypeOK, Restore PROVE TypeOK'
  OBVIOUS
<1> USE DEF diskVars, locals
<1> USE DEF Creating, Copying, Restoring
<1>1. ASSUME NEW d \in known, CallRestore(d) PROVE TypeOK'
  BY <1>1 DEF CallRestore, LatestForDeployment, TypeOK
<1>2. CASE StageBegins
  BY <1>2, ContentTypes DEF StageBegins, TypeOK
<1>3. CASE StageEnds
  <2>1. target \in BackupDirs \cup {NoTarget} /\ tree \in Trees
    BY DEF TypeOK
  <2>2. target.data[tree] \in Contents
    BY <2>1, ContentTypes DEF BackupDirs, NoTarget
  <2> QED
    BY <1>3, <2>2 DEF StageEnds, TypeOK
<1>4. CASE NothingToStage
  BY <1>4 DEF NothingToStage, TypeOK
<1>5. CASE WipeTree
  BY <1>5, ContentTypes DEF WipeTree, TypeOK
<1>6. CASE SwapTree
  <2>1. live' \in [Trees -> Contents] /\ staged' \in [Trees -> Contents]
    BY <1>6, ContentTypes DEF SwapTree, Placed, TypeOK
  <2>2. tree' \in Trees
    BY <1>6 DEF SwapTree, TreeAfter, Return, Trees
  <2> QED
    BY <1>6, <2>1, <2>2 DEF SwapTree, Return, TypeOK
<1>7. CASE RestoreFails
  <2>1. staged' \in [Trees -> Contents]
    BY <1>7, ContentTypes DEF RestoreFails, TypeOK
  <2> QED
    BY <1>7, <2>1, StoreAssumption DEF RestoreFails, Trouble, Return, TypeOK, Trees
<1> QED
  BY <1>1, <1>2, <1>3, <1>4, <1>5, <1>6, <1>7 DEF Restore

LEMMA OtherTypes == TypeOK /\ (Prune \/ Others) => TypeOK'
<1> SUFFICES ASSUME TypeOK, Prune \/ Others PROVE TypeOK'
  OBVIOUS
<1> USE DEF diskVars, locals, callVars
<1> USE DEF Creating, Copying, Restoring
<1>1. CASE CallPrune \/ PruneOne \/ PruneEnds
  BY <1>1 DEF CallPrune, PruneOne, PruneEnds, Return, TypeOK, Trees
<1>2. CASE Dies
  BY <1>2, StoreAssumption DEF Dies, Trouble, Return, TypeOK, Trees
<1>3. ASSUME NEW t \in Trees, Write(t) PROVE TypeOK'
  <2>1. writes + 1 \in Contents /\ writes' \in 0 .. MaxWrites
    BY <1>3, StoreAssumption DEF Write, TypeOK, Contents, Torn
  <2>2. live' \in [Trees -> Contents]
    BY <1>3, <2>1 DEF Write, TypeOK
  <2> QED
    BY <1>3, <2>1, <2>2 DEF Write, TypeOK
<1>4. ASSUME NEW d \in known, Retire(d) PROVE TypeOK'
  BY <1>4 DEF Retire, TypeOK
<1> QED
  BY <1>1, <1>2, <1>3, <1>4 DEF Prune, Others

\* TypeOK holds for any number of deployments, boots, writes and troubles.
THEOREM StoreTypes == Spec => []TypeOK
<1>1. TypeOK /\ [Next]_vars => TypeOK'
  <2>1. TypeOK /\ UNCHANGED vars => TypeOK'
    BY DEF vars, diskVars, callVars, locals, TypeOK
  <2> QED
    BY <2>1, CreateTypes, RestoreTypes, OtherTypes DEF Next
<1> QED
  BY TypeInit, <1>1, PTL DEF Spec

-----------------------------------------------------------------------------
(***************************************************************************)
(* StoreInv is inductive.  Each of its parts is disturbed by few actions.  *)
(***************************************************************************)
\* A call that only moves on, or ends, disturbs nothing of what is on disk.
LEMMA DistinctStep ==
    ASSUME StoreInv, [Next]_vars PROVE Distinct'
<1> USE DEF diskVars, locals, callVars
<1>1. CASE UNCHANGED <<backups, tmp>>
  BY <1>1 DEF StoreInv, Distinct
<1>2. CASE CleanTmp
  <2>1. backups' = backups /\ tmp' = OtherTmps \cup {[name |-> name, data |-> Nothing]}
    BY <1>2 DEF CleanTmp, FreshTmp
  <2> QED
    BY <2>1 DEF StoreInv, Distinct, OtherTmps
<1>3. ASSUME NEW c \in Contents, tmp' = TmpWith(c), backups' = backups
      PROVE  Distinct'
  <2>1. ASSUME NEW d \in tmp', NEW e \in tmp', d.name = e.name PROVE d = e
    <3>1. \A x, y \in tmp \ OtherTmps : x = y
      BY DEF StoreInv, Distinct, OtherTmps
    <3> QED
      BY <1>3, <2>1, <3>1 DEF TmpWith, OtherTmps, StoreInv, Distinct
  <2> QED
    BY <1>3, <2>1 DEF StoreInv, Distinct
<1>4. CASE Publish
  <2>1. PICK d \in tmp \ OtherTmps, m \in 1 .. MaxTime :
          /\ IsNow(m, backups)
          /\ backups' = backups \cup
                 {[dep |-> name.dep, boot |-> name.boot, data |-> d.data, mtime |-> m]}
    BY <1>4 DEF Publish
  <2>2. \A b \in backups : Name(b) # name
    BY <1>4 DEF Publish, StoreInv, CreateInv, Creating, Copying, Exists
  <2>3. \A b \in backups : b.mtime # m
    BY <2>1 DEF IsNow, StoreInv, TypeOK, BackupDirs
  <2>4. name = [dep |-> name.dep, boot |-> name.boot]
    BY <1>4 DEF Publish, StoreInv, TypeOK, Creating, Copying, Names
  <2> DEFINE new == [dep |-> name.dep, boot |-> name.boot, data |-> d.data, mtime |-> m]
  <2>5. Name(new) = name /\ new.mtime = m
    BY <2>4 DEF Name
  <2> HIDE DEF new
  <2>6. backups' = backups \cup {new}
    BY <2>1 DEF new
  <2>7. tmp' \subseteq tmp
    BY <1>4 DEF Publish, TmpsAfterRename, OtherTmps
  <2> QED
    BY <2>2, <2>3, <2>5, <2>6, <2>7 DEF StoreInv, Distinct
<1>5. CASE backups' \subseteq backups /\ tmp' \subseteq tmp
  BY <1>5 DEF StoreInv, Distinct
<1>6. CASE Create
  <2>1. CASE CopyBegins
    BY <1>3, <2>1, ContentTypes DEF CopyBegins
  <2>2. CASE CopyEnds
    BY <1>3, <2>2 DEF CopyEnds, NextCopy, StoreInv, TypeOK
  <2>3. CASE CopyNothing \/ CleanFails \/ CreateFails \/ RollbackTmp
    BY <1>5, <2>3 DEF CopyNothing, NextCopy, CleanFails, CreateFails, RollbackTmp,
         OtherTmps
  <2>4. CASE \E n \in Names : CallCreate(n)
    BY <1>1, <2>4 DEF CallCreate
  <2> QED
    BY <1>2, <1>4, <1>6, <2>1, <2>2, <2>3, <2>4 DEF Create
<1>7. CASE Restore
  BY <1>1, <1>7 DEF Restore, CallRestore, StageBegins, StageEnds, NothingToStage,
       WipeTree, SwapTree, RestoreFails
<1>8. CASE Prune
  BY <1>5, <1>8 DEF Prune, CallPrune, PruneOne, PruneEnds
<1>9. CASE Others
  BY <1>1, <1>9 DEF Others, Dies, Write, Retire
<1> QED
  BY <1>1, <1>6, <1>7, <1>8, <1>9 DEF Next, vars

LEMMA StrayStep ==
    ASSUME StoreInv, [Next]_vars PROVE StrayIsReclaimable'
<1> USE DEF diskVars, locals, callVars
<1> USE DEF StrayIsReclaimable, Exists
<1>1. CASE backups' \subseteq backups /\ tmp' \subseteq tmp
  BY <1>1 DEF StoreInv
<1>2. ASSUME backups' = backups, \A d \in tmp' : d \in tmp \/ d.name = name, pc \in Creating
      PROVE  StrayIsReclaimable'
  BY <1>2 DEF StoreInv, CreateInv
<1>3. CASE Create
  <2>1. CASE CleanTmp
    BY <1>2, <2>1 DEF CleanTmp, FreshTmp, OtherTmps, Creating
  <2>2. CASE CopyBegins \/ CopyEnds
    BY <1>2, <2>2 DEF CopyBegins, CopyEnds, NextCopy, TmpWith, OtherTmps,
         Creating, Copying
  <2>3. CASE Publish
    <3>1. PICK d \in tmp, m \in 1 .. MaxTime :
            backups' = backups \cup
                 {[dep |-> name.dep, boot |-> name.boot, data |-> d.data, mtime |-> m]}
      BY <2>3 DEF Publish
    <3>2. \A e \in tmp' : e \in tmp /\ e.name # name
      BY <2>3 DEF Publish, TmpsAfterRename, OtherTmps
    <3>3. name = [dep |-> name.dep, boot |-> name.boot]
      BY <2>3 DEF Publish, StoreInv, TypeOK, Creating, Copying, Names
    <3>4. \A b \in backups' : b \in backups \/ Name(b) = name
      BY <3>1, <3>3 DEF Name
    <3> QED
      BY <3>2, <3>4 DEF StoreInv
  <2>4. CASE CopyNothing \/ CleanFails \/ CreateFails \/ RollbackTmp
    BY <1>1, <2>4 DEF CopyNothing, NextCopy, CleanFails, CreateFails, RollbackTmp,
         OtherTmps
  <2>5. CASE \E n \in Names : CallCreate(n)
    BY <1>1, <2>5 DEF CallCreate
  <2> QED
    BY <1>3, <2>1, <2>2, <2>3, <2>4, <2>5 DEF Create
<1>4. CASE Restore
  BY <1>1, <1>4 DEF Restore, CallRestore, StageBegins, StageEnds, NothingToStage,
       WipeTree, SwapTree, RestoreFails
<1>5. CASE Prune
  BY <1>1, <1>5 DEF Prune, CallPrune, PruneOne, PruneEnds
<1>6. CASE Others
  BY <1>1, <1>6 DEF Others, Dies, Write, Retire
<1> QED
  BY <1>1, <1>3, <1>4, <1>5, <1>6 DEF Next, vars

LEMMA FirstTreeStep ==
    ASSUME StoreInv, [Next]_vars PROVE FirstTree'
<1> USE DEF diskVars, locals, callVars
<1> USE DEF FirstTree, Return
<1>1. CASE Create
  BY <1>1 DEF Create, CallCreate, CleanTmp, CopyBegins, CopyEnds, CopyNothing, NextCopy,
       Publish, CleanFails, CreateFails, RollbackTmp, StoreInv
<1>2. CASE Restore
  BY <1>2 DEF Restore, CallRestore, StageBegins, StageEnds, NothingToStage, WipeTree,
       SwapTree, RestoreFails, StoreInv
<1>3. CASE Prune \/ Others \/ UNCHANGED vars
  BY <1>3 DEF Prune, CallPrune, PruneOne, PruneEnds, Others, Dies, Write, Retire,
       StoreInv, vars
<1> QED
  BY <1>1, <1>2, <1>3 DEF Next

\* The trees come one after the other, and each is visited once.
LEMMA TreeOrder ==
    ASSUME NEW t \in Trees
    PROVE  /\ t \notin Before(t)
           /\ t \notin After(t)
           /\ Before(t) \subseteq Trees
           /\ Before("etcd") = {}
           /\ t # "kubelet" =>
                 /\ Before(TreeAfter(t)) = Before(t) \cup {t}
                 /\ After(TreeAfter(t)) \subseteq After(t)
                 /\ TreeAfter(t) \in After(t)
           /\ Before("kubelet") \cup {"kubelet"} = Trees
<1>1. CASE t = "etcd"
  BY <1>1 DEF Before, After, TreeAfter, Trees
<1>2. CASE t = "kubernetes"
  BY <1>2 DEF Before, After, TreeAfter, Trees
<1>3. CASE t = "kubelet"
  BY <1>3 DEF Before, After, TreeAfter, Trees
<1> QED
  BY <1>1, <1>2, <1>3 DEF Trees

\* Every tree before the one Create has come to, and that one, is copied:
\* it moves on.
LEMMA NextTree ==
    ASSUME StoreInv, NextCopy, NEW e \in TmpDirs,
           \A t \in Before(tree) : e.data[t] = live[t],
           e.data[tree] = live[tree],
           \A t \in After(tree) : e.data[t] = Absent
    PROVE  Filled(e)'
<1>1. tree \in Trees /\ live \in [Trees -> Contents] /\ e.data \in [Trees -> Contents]
  BY DEF StoreInv, TypeOK, TmpDirs
<1>2. live' = live /\ tree' = TreeAfter(tree)
  BY DEF NextCopy
<1>3. CASE tree = "kubelet"
  <2>1. \A t \in Trees : e.data[t] = live[t]
    BY <1>1, <1>3, TreeOrder
  <2>2. e.data = live
    BY <1>1, <2>1
  <2> QED
    BY <1>2, <1>3, <2>2 DEF Filled, NextCopy
<1>4. CASE tree # "kubelet"
  BY <1>1, <1>2, <1>4, TreeOrder DEF Filled, NextCopy
<1> QED
  BY <1>3, <1>4

LEMMA CreateStep ==
    ASSUME StoreInv, [Next]_vars PROVE CreateInv'
<1> USE DEF diskVars, locals, callVars
<1>1. CASE pc' \notin Creating
  BY <1>1 DEF CreateInv
<1>2. tree \in Trees /\ live \in [Trees -> Contents] /\ tmp \subseteq TmpDirs
  BY DEF StoreInv, TypeOK, TmpDirs
<1>3. pc \in Creating => ~Exists(backups, name)
  BY DEF StoreInv, CreateInv
<1>4. ASSUME NEW n \in Names, CallCreate(n) PROVE CreateInv'
  BY <1>4 DEF CallCreate, CreateInv, Filled, Exists
<1>5. CASE CleanTmp
  <2>1. tree = "etcd"
    BY <1>5 DEF CleanTmp, StoreInv, FirstTree
  <2>2. ASSUME NEW d \in tmp', d.name = name PROVE d.data = Nothing
    BY <1>5, <2>2 DEF CleanTmp, FreshTmp, OtherTmps
  <2>3. ASSUME NEW d \in tmp', d.name = name PROVE Filled(d)'
    <3>1. \A t \in Trees : d.data[t] = Absent
      BY <2>2, <2>3 DEF Nothing
    <3>2. Before(tree') = {} /\ After(tree') \subseteq Trees /\ tree' \in Trees
      BY <1>2, <1>5, <2>1, TreeOrder DEF CleanTmp, After
    <3>3. pc' = "copy"
      BY <1>5 DEF CleanTmp
    <3> QED
      BY <3>1, <3>2, <3>3 DEF Filled
  <2> QED
    BY <1>3, <1>5, <2>3 DEF CleanTmp, CreateInv, Exists, Creating
<1>6. CASE CopyBegins
  <2>1. ASSUME NEW d \in tmp', d.name = name PROVE Filled(d)'
    <3>1. PICK x \in tmp :
             x.name = name /\ d = [name |-> name, data |-> [x.data EXCEPT ![tree] = Torn]]
      BY <1>6, <2>1 DEF CopyBegins, TmpWith, OtherTmps
    <3>2. Filled(x)
      BY <1>6, <3>1 DEF CopyBegins, StoreInv, CreateInv, Creating, Copying
    <3>3. x.data \in [Trees -> Contents]
      BY <1>2 DEF TmpDirs
    <3>4. /\ \A t \in Before(tree) : d.data[t] = x.data[t]
          /\ \A t \in After(tree) : d.data[t] = x.data[t]
      BY <1>2, <3>1, <3>3, TreeOrder DEF After
    <3> QED
      BY <1>6, <3>2, <3>4 DEF CopyBegins, Filled
  <2> QED
    BY <1>3, <1>6, <2>1 DEF CopyBegins, CreateInv, Exists, Creating, Copying
<1>7. CASE CopyEnds
  <2>1. ASSUME NEW d \in tmp', d.name = name PROVE Filled(d)'
    <3>1. PICK x \in tmp :
             /\ x.name = name
             /\ d = [name |-> name, data |-> [x.data EXCEPT ![tree] = live[tree]]]
      BY <1>7, <2>1 DEF CopyEnds, TmpWith, OtherTmps
    <3>2. Filled(x)
      BY <1>7, <3>1 DEF CopyEnds, StoreInv, CreateInv, Creating, Copying
    <3>3. x.data \in [Trees -> Contents] /\ name \in Names
      BY <1>2, <3>1 DEF TmpDirs
    <3>4. /\ \A t \in Before(tree) : d.data[t] = x.data[t]
          /\ \A t \in After(tree) : d.data[t] = x.data[t]
          /\ d.data[tree] = live[tree]
      BY <1>2, <3>1, <3>3, TreeOrder DEF After
    <3>5. d \in TmpDirs
      BY <1>2, <3>1, <3>3 DEF TmpDirs
    <3> QED
      BY <1>7, <3>2, <3>4, <3>5, NextTree DEF CopyEnds, Filled
  <2> QED
    BY <1>3, <1>7, <2>1 DEF CopyEnds, NextCopy, CreateInv, Exists, Creating, Copying
<1>8. CASE CopyNothing
  <2>1. ASSUME NEW d \in tmp', d.name = name PROVE Filled(d)'
    <3>1. d \in tmp /\ d \in TmpDirs /\ live[tree] = Absent
      BY <1>2, <1>8, <2>1 DEF CopyNothing
    <3>2. Filled(d)
      BY <1>8, <2>1, <3>1 DEF CopyNothing, StoreInv, CreateInv, Creating, Copying
    <3> QED
      BY <1>8, <3>1, <3>2, NextTree DEF CopyNothing, Filled
  <2> QED
    BY <1>3, <1>8, <2>1 DEF CopyNothing, NextCopy, CreateInv, Exists, Creating, Copying
<1>9. CASE CreateFails
  BY <1>3, <1>9 DEF CreateFails, CreateInv, Filled, Exists, Creating, Copying
<1>10. CASE Publish \/ CleanFails \/ RollbackTmp
  BY <1>1, <1>10 DEF Publish, CleanFails, RollbackTmp, Return, Creating, Copying
<1>11. CASE Create
  BY <1>4, <1>5, <1>6, <1>7, <1>8, <1>9, <1>10, <1>11 DEF Create
<1>12. CASE Restore
  BY <1>1, <1>12 DEF Restore, CallRestore, StageBegins, StageEnds, NothingToStage,
       WipeTree, SwapTree, RestoreFails, Return, Creating, Copying
<1>13. CASE Prune \/ Others
  BY <1>1, <1>13 DEF Prune, CallPrune, PruneOne, PruneEnds, Others, Dies, Write, Retire,
       Return, Creating, Copying
<1>14. CASE UNCHANGED vars
  BY <1>14 DEF vars, StoreInv, CreateInv, Filled, Exists
<1> QED
  BY <1>11, <1>12, <1>13, <1>14 DEF Next

LEMMA RestoreStep ==
    ASSUME StoreInv, [Next]_vars PROVE RestoreInv'
<1> USE DEF diskVars, locals, callVars
<1>1. CASE pc' \notin Restoring
  BY <1>1 DEF RestoreInv
<1>2. /\ tree \in Trees
      /\ live \in [Trees -> Contents]
      /\ staged \in [Trees -> Contents]
      /\ Before(tree) \subseteq Trees
      /\ tree \notin Before(tree)
  BY TreeOrder DEF StoreInv, TypeOK
<1>3. ASSUME NEW d \in known, CallRestore(d) PROVE RestoreInv'
  <2>1. tree' = "etcd"
    BY <1>3 DEF CallRestore, StoreInv, FirstTree
  <2>2. target' \in backups /\ target'.dep \in known /\ IsNewest(target', backups)
    BY <1>3 DEF CallRestore, LatestForDeployment
  <2>3. Before(tree') = {}
    BY <1>2, <2>1, TreeOrder
  <2> QED
    BY <1>3, <2>2, <2>3 DEF CallRestore, RestoreInv, IsNewest
<1>4. CASE StageBegins \/ StageEnds \/ NothingToStage
  BY <1>2, <1>4 DEF StageBegins, StageEnds, NothingToStage, StoreInv, RestoreInv,
       IsNewest, Restoring
<1>5. CASE WipeTree
  BY <1>2, <1>5 DEF WipeTree, StoreInv, RestoreInv, IsNewest, Restoring
<1>6. CASE SwapTree
  <2>1. CASE tree = "kubelet"
    BY <1>1, <1>6, <2>1 DEF SwapTree, Return, Restoring
  <2>2. CASE tree # "kubelet"
    <3>1. live'[tree] = target.data[tree]
      BY <1>2, <1>6 DEF SwapTree, Placed, StoreInv, RestoreInv, Restoring
    <3>2. Before(tree') = Before(tree) \cup {tree}
      BY <1>2, <1>6, <2>2, TreeOrder DEF SwapTree
    <3>3. \A t \in Before(tree) : live'[t] = target.data[t]
      BY <1>2, <1>6 DEF SwapTree, StoreInv, RestoreInv, Restoring
    <3> QED
      BY <1>6, <2>2, <3>1, <3>2, <3>3
         DEF SwapTree, StoreInv, RestoreInv, IsNewest, Restoring
  <2> QED
    BY <2>1, <2>2
<1>7. CASE Restore
  BY <1>1, <1>3, <1>4, <1>5, <1>6, <1>7 DEF Restore, RestoreFails, Return, Restoring
<1>8. CASE Create
  BY <1>1, <1>8 DEF Create, CallCreate, CleanTmp, CopyBegins, CopyEnds, CopyNothing,
       NextCopy, Publish, CleanFails, CreateFails, RollbackTmp, Return, Restoring
<1>9. CASE Prune \/ Others
  BY <1>1, <1>9 DEF Prune, CallPrune, PruneOne, PruneEnds, Others, Dies, Write, Retire,
       Return, Restoring
<1>10. CASE UNCHANGED vars
  BY <1>10 DEF vars, StoreInv, RestoreInv, IsNewest
<1> QED
  BY <1>7, <1>8, <1>9, <1>10 DEF Next

LEMMA StoreInvariant == Spec => []StoreInv
<1>1. Init => StoreInv
  BY TypeInit DEF Init, StoreInv, Distinct, StrayIsReclaimable, FirstTree, CreateInv,
     RestoreInv, Creating, Copying, Restoring
<1>2. StoreInv /\ [Next]_vars => StoreInv'
  <2>1. StoreInv /\ [Next]_vars => TypeOK'
    <3>1. TypeOK /\ UNCHANGED vars => TypeOK'
      BY DEF vars, diskVars, callVars, locals, TypeOK
    <3> QED
      BY <3>1, CreateTypes, RestoreTypes, OtherTypes DEF Next, StoreInv
  <2> QED
    BY <2>1, DistinctStep, StrayStep, FirstTreeStep, CreateStep, RestoreStep
       DEF StoreInv
<1> QED
  BY <1>1, <1>2, PTL DEF Spec

\* No `.tmp` directory is ever left under a name that is taken: a Create of
\* its name reclaims it, however many have failed or died before.
THEOREM StraysReclaimable == Spec => []StrayIsReclaimable
BY StoreInvariant, PTL DEF StoreInv

-----------------------------------------------------------------------------
(***************************************************************************)
(* The refinement: what each step of backup.go is to SnapshotStore.        *)
(***************************************************************************)
LEMMA BackupTypes ==
    ASSUME TypeOK, NEW b \in backups
    PROVE  /\ Name(b) \in Names
           /\ Name(b).dep = b.dep
           /\ b.mtime \in Nat
           /\ Snapshot(b).name = Name(b)
           /\ Snapshot(b).data = b.data
<1>1. b \in BackupDirs
  BY DEF TypeOK
<1> QED
  BY <1>1 DEF BackupDirs, Name, Names, Snapshot

\* The newest backup of a deployment is the promise's latest snapshot.
LEMMA NewestIsLatest ==
    ASSUME TypeOK, Distinct, NEW b \in backups
    PROVE  Promise!IsLatest(Snapshot(b)) <=> IsNewest(b, backups)
<1>1. ASSUME NEW c \in backups
      PROVE  <<Name(b), Name(c)>> \in TakenBefore <=> b.mtime < c.mtime
  <2>1. ASSUME b.mtime < c.mtime PROVE <<Name(b), Name(c)>> \in TakenBefore
    BY <2>1, BackupTypes DEF TakenBefore
  <2>2. ASSUME <<Name(b), Name(c)>> \in TakenBefore PROVE b.mtime < c.mtime
    <3>1. PICK p \in backups, q \in backups :
             p.mtime < q.mtime /\ Name(p) = Name(b) /\ Name(q) = Name(c)
      BY <2>2 DEF TakenBefore
    <3> QED
      BY <3>1 DEF Distinct
  <2> QED
    BY <2>1, <2>2
<1>2. \A c \in backups : c.mtime <= b.mtime <=> ~(b.mtime < c.mtime)
  BY BackupTypes
<1>3. Promise!IsLatest(Snapshot(b)) <=>
         \A c \in backups : c.dep = b.dep => <<Name(b), Name(c)>> \notin TakenBefore
  BY BackupTypes DEF Promise!IsLatest, Saved
<1> QED
  BY <1>1, <1>2, <1>3 DEF IsNewest

\* What the promise sees of the backups changes only with them.
LEMMA SameBackups ==
    backups' = backups => Saved' = Saved /\ TakenBefore' = TakenBefore
BY DEF Saved, TakenBefore

LEMMA PublishIsTake ==
    ASSUME StoreInv, Publish PROVE Promise!Take(name)
<1> USE DEF locals
<1>1. PICK d \in tmp \ OtherTmps, m \in 1 .. MaxTime :
        /\ IsNow(m, backups)
        /\ backups' = backups \cup
               {[dep |-> name.dep, boot |-> name.boot, data |-> d.data, mtime |-> m]}
  BY DEF Publish
<1>2. d.data = live /\ ~Exists(backups, name) /\ name \in Names
  BY <1>1 DEF Publish, OtherTmps, StoreInv, CreateInv, Filled, Creating, Copying, TypeOK
<1> DEFINE new == [dep |-> name.dep, boot |-> name.boot, data |-> d.data, mtime |-> m]
<1>3. Name(new) = name /\ new.mtime = m
  BY <1>2 DEF Name, Names
<1>4. Snapshot(new) = [name |-> name, data |-> live]
  BY <1>2, <1>3 DEF Snapshot
<1> HIDE DEF new
<1>5. backups' = backups \cup {new}
  BY <1>1 DEF new
<1>6. \A b \in backups : b.mtime < m /\ ~(m < b.mtime) /\ Name(b) \in Names
  BY <1>1, BackupTypes DEF IsNow, StoreInv
<1>7. Saved' = Saved \cup {[name |-> name, data |-> live]}
  BY <1>4, <1>5 DEF Saved
<1>8. TakenBefore' = TakenBefore \cup {<<s.name, name>> : s \in Saved}
  <2>1. {<<s.name, name>> : s \in Saved} = {<<Name(b), name>> : b \in backups}
    <3>1. \A b \in backups : Snapshot(b).name = Name(b)
      BY BackupTypes DEF StoreInv
    <3> QED
      BY <3>1 DEF Saved
  <2>2. ASSUME NEW n \in Names \X Names
        PROVE  n \in TakenBefore' <=>
                  n \in TakenBefore \/ \E b \in backups : n = <<Name(b), name>>
    <3>1. n \in TakenBefore' <=>
             \E b, c \in backups' : n = <<Name(b), Name(c)>> /\ b.mtime < c.mtime
      BY DEF TakenBefore
    <3>2. ~(new.mtime < new.mtime)
      BY <1>3
    <3>3. n \in TakenBefore' <=>
             \/ \E b, c \in backups : n = <<Name(b), Name(c)>> /\ b.mtime < c.mtime
             \/ \E b \in backups : n = <<Name(b), Name(new)>> /\ b.mtime < new.mtime
             \/ \E c \in backups : n = <<Name(new), Name(c)>> /\ new.mtime < c.mtime
      BY <1>5, <3>1, <3>2
    <3> QED
      BY <1>3, <1>6, <3>3 DEF TakenBefore
  <2>3. \A b \in backups : <<Name(b), name>> \in Names \X Names
    BY <1>2, <1>6
  <2> QED
    BY <2>1, <2>2, <2>3 DEF TakenBefore
<1>9. \A s \in Saved : s.name # name
  BY <1>2, BackupTypes DEF Exists, Saved, StoreInv
<1>10. pc = "publish" /\ pc' = "idle"
  BY DEF Publish, Return
<1> QED
  BY <1>7, <1>8, <1>9, <1>10
     DEF Promise!Take, BeingPutBack, Restoring, Publish

LEMMA PruneIsDrop ==
    ASSUME StoreInv, PruneOne PROVE \E s \in Saved : Promise!Drop(s)
<1> USE DEF diskVars, locals, callVars
<1>1. PICK b \in backups \ Survivors(backups, known) : backups' = backups \ {b}
  BY DEF PruneOne
<1>2. b \in backups /\ (b.dep \notin known \/ ~IsNewest(b, backups))
  BY <1>1 DEF Survivors
<1>3. Snapshot(b) \in Saved
  BY <1>2 DEF Saved
<1>4. Snapshot(b).name.dep \notin known \/ ~Promise!IsLatest(Snapshot(b))
  BY <1>2, BackupTypes, NewestIsLatest DEF StoreInv
<1>5. \A c \in backups : Name(c) = Name(b) <=> c = b
  BY <1>2 DEF StoreInv, Distinct
<1>6. Saved' = Saved \ {Snapshot(b)}
  <2>1. \A c \in backups : Snapshot(c) = Snapshot(b) <=> c = b
    BY <1>2, <1>5, BackupTypes DEF StoreInv
  <2> QED
    BY <1>1, <1>2, <2>1 DEF Saved
<1>7. TakenBefore' = {p \in TakenBefore : Name(b) \notin {p[1], p[2]}}
  <2>1. ASSUME NEW n \in Names \X Names
        PROVE  n \in TakenBefore' <=> n \in TakenBefore /\ Name(b) \notin {n[1], n[2]}
    BY <1>1, <1>2, <1>5 DEF TakenBefore
  <2> QED
    BY <2>1 DEF TakenBefore
<1>8. pc = "pruning" /\ pc' = pc /\ Snapshot(b).name = Name(b)
  BY <1>2, BackupTypes DEF PruneOne, StoreInv
<1> QED
  BY <1>3, <1>4, <1>6, <1>7, <1>8
     DEF Promise!Drop, BeingPutBack, Restoring, PruneOne

LEMMA RestoreIsBegun ==
    ASSUME StoreInv, NEW d \in known, CallRestore(d)
    PROVE  \E s \in Saved : Promise!BeginRestore(s)
<1> USE DEF diskVars, locals
<1>1. target' \in backups /\ target'.dep = d /\ IsNewest(target', backups)
  BY DEF CallRestore, LatestForDeployment
<1>2. Promise!IsLatest(Snapshot(target')) /\ Snapshot(target').name.dep = d
  BY <1>1, BackupTypes, NewestIsLatest DEF StoreInv
<1>3. Snapshot(target') \in Saved
  BY <1>1 DEF Saved
<1>4. BeingPutBack = {} /\ BeingPutBack' = {Snapshot(target')}
  BY DEF CallRestore, BeingPutBack, Restoring, Snapshot, Name
<1>5. Saved' = Saved /\ TakenBefore' = TakenBefore
  BY SameBackups DEF CallRestore
<1> QED
  BY <1>2, <1>3, <1>4, <1>5 DEF Promise!BeginRestore, CallRestore

LEMMA SwapIsPutBack ==
    ASSUME StoreInv, SwapTree
    PROVE  \E s \in BeingPutBack, t \in Trees : Promise!PutBack(s, t)
<1> USE DEF diskVars, locals
<1>1. /\ BeingPutBack = {Snapshot(target)}
      /\ Snapshot(target).data = target.data
      /\ target.data \in [Trees -> Contents]
      /\ tree \in Trees
      /\ live \in [Trees -> Contents]
  BY BackupTypes
     DEF SwapTree, BeingPutBack, Restoring, StoreInv, RestoreInv, TypeOK, BackupDirs
<1>2. Placed = target.data[tree]
  BY DEF SwapTree, Placed, StoreInv, RestoreInv, Restoring
<1>3. live' = [live EXCEPT ![tree] = Snapshot(target).data[tree]]
  BY <1>1, <1>2 DEF SwapTree
<1>4. Saved' = Saved /\ TakenBefore' = TakenBefore
  BY SameBackups DEF SwapTree
<1>5. CASE tree # "kubelet"
  <2>1. BeingPutBack' = BeingPutBack
    BY <1>5 DEF SwapTree, BeingPutBack, Restoring, Snapshot, Name
  <2> QED
    BY <1>1, <1>3, <1>4, <1>5, <2>1 DEF SwapTree, Promise!PutBack
<1>6. CASE tree = "kubelet"
  <2>1. BeingPutBack' = {} /\ outcome' = "ok"
    BY <1>6 DEF SwapTree, Return, BeingPutBack, Restoring
  <2>2. \A t \in Before("kubelet") : live[t] = target.data[t]
    BY <1>6 DEF SwapTree, StoreInv, RestoreInv, Restoring
  <2>3. \A t \in Trees : live'[t] = target.data[t]
    BY <1>1, <1>3, <1>6, <2>2, TreeOrder
  <2>4. live' = target.data
    BY <1>1, <1>3, <2>3
  <2> QED
    BY <1>1, <1>3, <1>4, <2>1, <2>4 DEF SwapTree, Promise!PutBack
<1> QED
  BY <1>5, <1>6

LEMMA FailureIsGivenUp ==
    ASSUME StoreInv, RestoreFails \/ Dies, pc \in Restoring PROVE Promise!GiveUp
<1> USE DEF diskVars, locals
<1>1. Saved' = Saved /\ TakenBefore' = TakenBefore
  BY SameBackups DEF RestoreFails, Dies
<1>2. BeingPutBack # {} /\ BeingPutBack' = {}
  BY DEF RestoreFails, Dies, Return, BeingPutBack, Restoring
<1> QED
  BY <1>1, <1>2 DEF RestoreFails, Dies, Promise!GiveUp

LEMMA StepIsPromised ==
    ASSUME StoreInv, [Next]_vars PROVE [Promise!Next]_(Promise!vars)
<1> USE DEF diskVars, locals, callVars
<1>1. ASSUME backups' = backups, pc \notin Restoring, pc' \notin Restoring,
             UNCHANGED <<live, known, outcome>>
      PROVE  UNCHANGED Promise!vars
  BY <1>1, SameBackups DEF Promise!vars, BeingPutBack
<1>2. CASE Create
  <2>1. CASE Publish
    BY <2>1, PublishIsTake DEF Promise!Next, Publish, StoreInv, TypeOK, Creating, Copying
  <2>2. CASE ~Publish
    BY <1>1, <1>2, <2>2 DEF Create, CallCreate, CleanTmp, CopyBegins, CopyEnds, CopyNothing,
         NextCopy, CleanFails, CreateFails, RollbackTmp, Return, Restoring, Copying
  <2> QED
    BY <2>1, <2>2
<1>3. CASE Restore
  <2>1. ASSUME NEW d \in known, CallRestore(d) PROVE Promise!Next
    BY <2>1, RestoreIsBegun DEF Promise!Next
  <2>2. CASE StageBegins \/ StageEnds \/ NothingToStage
    BY <2>2, SameBackups DEF StageBegins, StageEnds, NothingToStage, Restoring,
         BeingPutBack, Snapshot, Name, Promise!vars
  <2>3. CASE WipeTree
    BY <2>3, SameBackups DEF WipeTree, Restoring, BeingPutBack, Snapshot, Name,
         Promise!Break, Promise!Next, StoreInv, TypeOK
  <2>4. CASE SwapTree
    BY <2>4, SwapIsPutBack DEF Promise!Next
  <2>5. CASE RestoreFails
    BY <2>5, FailureIsGivenUp DEF RestoreFails, Promise!Next
  <2> QED
    BY <1>3, <2>1, <2>2, <2>3, <2>4, <2>5 DEF Restore
<1>4. CASE Prune
  <2>1. CASE PruneOne
    BY <2>1, PruneIsDrop DEF Promise!Next
  <2>2. CASE CallPrune \/ PruneEnds
    BY <1>1, <2>2 DEF CallPrune, PruneEnds, Return, Restoring
  <2> QED
    BY <1>4, <2>1, <2>2 DEF Prune
<1>5. CASE Dies
  <2>1. CASE pc \in Restoring
    BY <1>5, <2>1, FailureIsGivenUp DEF Promise!Next
  <2>2. CASE pc \notin Restoring
    BY <1>1, <1>5, <2>2 DEF Dies, Return, Restoring
  <2> QED
    BY <2>1, <2>2
<1>6. ASSUME NEW t \in Trees, Write(t) PROVE Promise!Next
  <2>1. live' \in [Trees -> Contents]
    BY <1>6, StoreAssumption DEF Write, StoreInv, TypeOK, Contents, Torn
  <2> QED
    BY <1>6, <2>1, SameBackups DEF Write, BeingPutBack, Restoring, Promise!Elsewhere,
         Promise!Next
<1>7. ASSUME NEW d \in known, Retire(d) PROVE Promise!Next
  BY <1>7, SameBackups DEF Retire, BeingPutBack, Restoring, Promise!Elsewhere,
       Promise!Next, StoreInv, TypeOK
<1>8. CASE UNCHANGED vars
  BY <1>8, SameBackups DEF vars, BeingPutBack, Snapshot, Name, Promise!vars
<1> QED
  BY <1>2, <1>3, <1>4, <1>5, <1>6, <1>7, <1>8 DEF Next, Others

\* backup.go implements the promise: every step is one of its steps, or is
\* one nobody can see.
THEOREM StoreRefinement == Spec => Implements
<1>1. Init => Promise!Init
  BY ContentTypes DEF Init, Promise!Init, Saved, TakenBefore, BeingPutBack, Restoring,
     Nothing
<1> QED
  BY <1>1, StepIsPromised, StoreInvariant, PTL DEF Spec, Implements, Promise!Spec
=============================================================================
