---------------------------- MODULE AccessPolicy ----------------------------
(***************************************************************************)
(* nemclass_mod/src/access.c: the uid/gid allowlist, reloaded from a config*)
(* file by a delayed work item and read under RCU by every open and every  *)
(* gated ioctl.                                                            *)
(*                                                                         *)
(* A user stands for a uid together with its groups; the config names a    *)
(* set of users.  Blank, malformed and over-cap lines simply do not add a  *)
(* user (nemclass_acl_parse_line), so an unparsable file is the empty set. *)
(* A snapshot is a kzalloc'd object with an identity, so that an RCU       *)
(* reader left with a freed one stays visible.                             *)
(***************************************************************************)
EXTENDS Integers, FiniteSets

CONSTANTS
  Threads,      \* tasks that may be inside nemclass_access_check_open
  Users,        \* the users a config can name
  Snaps,        \* snapshot objects nemclass_acl_build can allocate
  NoSnap,       \* NULL
  MaxEdits      \* bound on the number of changes to the file

ASSUME NoSnapAssumption == NoSnap \notin Snaps
ASSUME MaxEditsAssumption == MaxEdits \in Nat

VARIABLES
  file,         \* the config on disk: present, its inode, contents and fingerprint
  fp,           \* nemclass_acl_fp: the fingerprint last loaded, 0 when not valid
  acl,          \* nemclass_acl: the published snapshot or NULL
  snap,         \* each snapshot: memory state, users, RCU readers its free waits for
  work,         \* the work item: where it is, and the locals of nemclass_acl_reload
  pollOn,       \* access_poll_ms # 0
  held          \* each task's rcu_read_lock section: the snapshot it read, if inside

accessVars == <<file, fp, acl, snap, work, pollOn, held>>

\* What the config in force allows; NULL allows nobody but CAP_SYS_ADMIN.
Policy(a) == IF a = NoSnap THEN {} ELSE snap[a].users

\* rcu_read_lock ... rcu_read_unlock: a set with the pointer read, or none.
InRcu(t) == held[t] # {}

Workless == [at |-> "stopped", force |-> FALSE, ino |-> 0, stamp |-> 0, users |-> {},
             resched |-> FALSE]

AccessInit ==
  /\ \E U \in SUBSET Users, p \in BOOLEAN :
       file = [present |-> p, ino |-> 1, stamp |-> 1, users |-> U]
  /\ fp = 0
  /\ acl = NoSnap
  /\ snap = [s \in Snaps |-> [mem |-> "none", users |-> {}, waits |-> {}]]
  /\ work = [Workless EXCEPT !.at = "reload", !.force = TRUE]
  /\ pollOn \in BOOLEAN
  /\ held = [t \in Threads |-> {}]

-----------------------------------------------------------------------------
(* The administrator, outside the module.  Every change of the file moves  *)
(* its mtime, size or inode: one new stamp.                                *)

\* An edit in place is also seen through a file that is already open.
EditInPlace(U) ==
  /\ file.present /\ file.stamp < MaxEdits
  /\ file' = [file EXCEPT !.stamp = @ + 1, !.users = U]
  /\ work' = IF work.at = "opened" /\ work.ino = file.ino
               THEN [work EXCEPT !.users = U] ELSE work
  /\ UNCHANGED <<fp, acl, snap, pollOn, held>>

\* A new file renamed over the old one: an open file keeps the old contents.
ReplaceFile(U) ==
  /\ file.stamp < MaxEdits
  /\ file' = [present |-> TRUE, ino |-> file.stamp + 1, stamp |-> file.stamp + 1, users |-> U]
  /\ UNCHANGED <<fp, acl, snap, work, pollOn, held>>

RemoveFile ==
  /\ file.present /\ file.stamp < MaxEdits
  /\ file' = [file EXCEPT !.present = FALSE, !.stamp = @ + 1]
  /\ UNCHANGED <<fp, acl, snap, work, pollOn, held>>

\* access_poll_ms is a writable module parameter.
SetPollMs ==
  /\ pollOn' = ~pollOn
  /\ UNCHANGED <<file, fp, acl, snap, work, held>>

-----------------------------------------------------------------------------
(* nemclass_acl_reload, from init (force) and from the work item.          *)

\* Mutation: the old snapshot is freed at once.
FreeNow(s) ==
  snap' = IF acl = NoSnap THEN s ELSE [s EXCEPT ![acl].mem = "freed"]

\* Mutation: the old snapshot is forgotten.
Forget(s) == snap' = s

\* call_rcu on the old snapshot: its free waits for the readers inside now.
Retire(s) ==
  snap' = IF acl = NoSnap THEN s
          ELSE [s EXCEPT ![acl].mem = "retired", ![acl].waits = {t \in Threads : InRcu(t)}]

\* The reload is over.  The work item goes round again only if access_poll_ms
\* was not 0 when it started; init looks at the parameter after its load.
Reloaded(resched) ==
  work' = [Workless EXCEPT !.at = IF resched THEN "scheduled" ELSE "stopped"]

Resched == IF work.force THEN pollOn ELSE work.resched

\* The work item fires, reads access_poll_ms and calls nemclass_acl_reload.
PollFires ==
  /\ work.at = "scheduled"
  /\ work' = [work EXCEPT !.at = "reload", !.resched = pollOn]
  /\ UNCHANGED <<file, fp, acl, snap, pollOn, held>>

\* filp_open failed: deny everybody, once (or when forced).
ReloadNoFile ==
  /\ work.at = "reload" /\ ~file.present
  /\ IF work.force \/ fp # 0
       THEN fp' = 0 /\ acl' = NoSnap /\ Retire(snap)
       ELSE UNCHANGED <<fp, acl, snap>>
  /\ Reloaded(Resched)
  /\ UNCHANGED <<file, pollOn, held>>

ReloadUnchanged ==
  /\ work.at = "reload" /\ ~work.force /\ file.present /\ fp = file.stamp
  /\ Reloaded(Resched)
  /\ UNCHANGED <<file, fp, acl, snap, pollOn, held>>

\* The file is open and its mtime, size and inode have been read.
ReloadStat ==
  /\ work.at = "reload" /\ file.present
  /\ work.force \/ fp # file.stamp
  /\ work' = [work EXCEPT !.at = "opened", !.ino = file.ino, !.stamp = file.stamp,
                          !.users = file.users]
  /\ UNCHANGED <<file, fp, acl, snap, pollOn, held>>

\* No memory, or the read failed: the old policy and fingerprint stay.
ReloadFails ==
  /\ work.at = "opened"
  /\ Reloaded(Resched)
  /\ UNCHANGED <<file, fp, acl, snap, pollOn, held>>

\* Mutation: the fingerprint is taken after the read instead of before it.
StampAtPublish == file.stamp

StampToRecord == work.stamp

\* kernel_read, nemclass_acl_build, nemclass_acl_publish and the fingerprint.
ReloadPublish(s) ==
  /\ work.at = "opened" /\ snap[s].mem = "none"
  /\ Retire([snap EXCEPT ![s] = [mem |-> "live", users |-> work.users, waits |-> {}]])
  /\ acl' = s
  /\ fp' = StampToRecord
  /\ Reloaded(Resched)
  /\ UNCHANGED <<file, pollOn, held>>

\* The grace period of a retired snapshot is over: nemclass_acl_free_rcu.
RcuFree(s) ==
  /\ snap[s].mem = "retired" /\ snap[s].waits = {}
  /\ snap' = [snap EXCEPT ![s].mem = "freed"]
  /\ UNCHANGED <<file, fp, acl, work, pollOn, held>>

\* nemclass_access_exit: cancel_delayed_work_sync waits for a running work item.
CancelAndUnpublish ==
  /\ work.at \in {"scheduled", "stopped"}
  /\ work' = Workless
  /\ acl' = NoSnap
  /\ Retire(snap)
  /\ UNCHANGED <<file, fp, pollOn, held>>

-----------------------------------------------------------------------------
(* nemclass_access_check_open, in its two RCU steps.                       *)

CheckEnter(t) ==
  /\ held' = [held EXCEPT ![t] = {acl}]
  /\ UNCHANGED <<file, fp, acl, snap, work, pollOn>>

\* The lists are walked and the section left, which grace periods wait for.
CheckLeave(t) ==
  /\ held' = [held EXCEPT ![t] = {}]
  /\ snap' = [s \in Snaps |-> [snap[s] EXCEPT !.waits = @ \ {t}]]
  /\ UNCHANGED <<file, fp, acl, work, pollOn>>

Listed(t, u) == \E a \in held[t] : u \in Policy(a)

EditorNext ==
  \/ \E U \in SUBSET Users : EditInPlace(U) \/ ReplaceFile(U)
  \/ RemoveFile \/ SetPollMs

ReloadNext ==
  \/ PollFires \/ ReloadNoFile \/ ReloadUnchanged \/ ReloadStat \/ ReloadFails
  \/ \E s \in Snaps : ReloadPublish(s)

AccessTypeOK ==
  /\ file \in [present : BOOLEAN, ino : Nat, stamp : Nat, users : SUBSET Users]
  /\ fp \in Nat
  /\ acl \in Snaps \cup {NoSnap}
  /\ snap \in [Snaps -> [mem : {"none", "live", "retired", "freed"},
                         users : SUBSET Users, waits : SUBSET Threads]]
  /\ work \in [at : {"stopped", "scheduled", "reload", "opened"}, force : BOOLEAN,
               ino : Nat, stamp : Nat, users : SUBSET Users, resched : BOOLEAN]
  /\ pollOn \in BOOLEAN
  /\ held \in [Threads -> SUBSET (Snaps \cup {NoSnap})]

\* A task inside nemclass_access_check_open never walks a freed allowlist, however
\* many reloads publish meanwhile, and no allowlist is leaked: only the published one
\* is live.
ReadersSeeLiveSnapshots ==
  /\ \A t \in Threads : \A a \in held[t] : a # NoSnap => snap[a].mem # "freed"
  /\ \A s \in Snaps : snap[s].mem = "live" <=> s = acl
=============================================================================
