----------------------------- MODULE SnapshotStore -----------------------------
(***************************************************************************)
(* What internal/backup promises its caller, whatever calls fail and       *)
(* wherever the process dies:                                              *)
(*                                                                         *)
(*   - a snapshot appears at once, whole, and holds what the live trees    *)
(*     held at that very moment; it is never changed afterwards;           *)
(*   - a restore puts back the newest snapshot of a deployment, and when   *)
(*     it reports success the live trees are that snapshot, tree by tree;  *)
(*   - a snapshot is dropped only when its deployment is gone, or has a    *)
(*     newer one.                                                          *)
(*                                                                         *)
(* Directories, staging, modification times and retries are BackupStore's. *)
(***************************************************************************)
CONSTANTS
    Deps,       \* deployment ids
    Names,      \* names of snapshots: records with a field dep
    Trees,      \* the trees a snapshot covers
    Contents,   \* what a tree may hold
    Torn        \* ... while it is being replaced

VARIABLES
    live,       \* [Trees -> Contents]
    saved,      \* the snapshots: a set of [name, data]
    before,     \* <<m, n>>: snapshot m was taken before snapshot n
    known,      \* the deployments the host can still boot
    goal,       \* the snapshot being put back, in a set of at most one
    outcome     \* what the last restore came to: "none", "ok" or "error"

vars == <<live, saved, before, known, goal, outcome>>

Init ==
    /\ live \in [Trees -> Contents]
    /\ saved = {}
    /\ before = {}
    /\ known = Deps
    /\ goal = {}
    /\ outcome = "none"

IsLatest(s) ==
    \A r \in saved : r.name.dep = s.name.dep => <<s.name, r.name>> \notin before

\* Others write the live trees, and deployments go, as long as nothing is
\* being put back.
Elsewhere ==
    /\ goal = {}
    /\ live' \in [Trees -> Contents]
    /\ known' \subseteq known
    /\ outcome' \in {outcome, "none"}
    /\ live' # live => outcome' = "none"
    /\ UNCHANGED <<saved, before, goal>>

Take(n) ==
    /\ goal = {}
    /\ \A s \in saved : s.name # n
    /\ saved' = saved \cup {[name |-> n, data |-> live]}
    /\ before' = before \cup {<<s.name, n>> : s \in saved}
    /\ UNCHANGED <<live, known, goal, outcome>>

Drop(s) ==
    /\ goal = {}
    /\ s.name.dep \notin known \/ ~IsLatest(s)
    /\ saved' = saved \ {s}
    /\ before' = {p \in before : s.name \notin {p[1], p[2]}}
    /\ UNCHANGED <<live, known, goal, outcome>>

BeginRestore(s) ==
    /\ goal = {}
    /\ s.name.dep \in known
    /\ IsLatest(s)
    /\ goal' = {s}
    /\ UNCHANGED <<live, saved, before, known, outcome>>

\* A tree is taken apart ...
Break(t) ==
    /\ goal # {}
    /\ live' = [live EXCEPT ![t] = Torn]
    /\ UNCHANGED <<saved, before, known, goal, outcome>>

\* ... and put back; with the last of them the restore may report success.
PutBack(s, t) ==
    /\ goal = {s}
    /\ live' = [live EXCEPT ![t] = s.data[t]]
    /\ \/ UNCHANGED <<goal, outcome>>
       \/ live' = s.data /\ goal' = {} /\ outcome' = "ok"
    /\ UNCHANGED <<saved, before, known>>

\* The restore fails, or its process dies and says nothing.
GiveUp ==
    /\ goal # {}
    /\ goal' = {}
    /\ outcome' \in {"error", "none"}
    /\ UNCHANGED <<live, saved, before, known>>

Next ==
    \/ Elsewhere
    \/ \E n \in Names : Take(n)
    \/ \E s \in saved : Drop(s) \/ BeginRestore(s)
    \/ \E t \in Trees : Break(t) \/ \E s \in goal : PutBack(s, t)
    \/ GiveUp

Spec == Init /\ [][Next]_vars
=============================================================================
