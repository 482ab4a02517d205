------------------------- MODULE EvidenceRetention -------------------------
(***************************************************************************)
(* The POSIX retained-evidence protocol of retention.py: publication of an *)
(* evidence file with its sidecar manifest, evidence-prune (deletion of an *)
(* expired pair through a staged transaction, and its recovery) and        *)
(* evidence-repair (quarantine of orphans), each under the flock handshake *)
(* of a directory and its ancestor.                                        *)
(*                                                                         *)
(* Two nested directories, "root" and "child"; one evidence name, in the   *)
(* child.  A publication of that name is a generation 1..MaxGen: its two   *)
(* inodes are <<"ev", g>> and <<"sc", g>>.  A directory entry holds the    *)
(* generation it links, 0 when it is absent.  Every system call that       *)
(* changes the tree is a step of its own, and the process may die (or the  *)
(* call may raise) before any of them.                                     *)
(***************************************************************************)
EXTENDS Integers, FiniteSets, FiniteSetsExt

CONSTANTS Procs,        \* processes that write, prune or repair
          None,         \* no process
          Operations,   \* which of "write", "prune", "repair" are called
          MaxGen,       \* bound on publications of the name
          MaxFaults     \* bound on deaths and failing system calls

\* What the constants are.
RetentionAssumption ==
    /\ None \notin Procs
    /\ Operations \subseteq {"write", "prune", "repair"}
    /\ MaxGen \in Nat \ {0} /\ MaxFaults \in Nat

VARIABLES lockfile,  \* directories whose .master-agent-retention.lock exists
          excl,      \* exclusive flock holder of each directory
          share,     \* processes sharing the root's flock
          proc,      \* each process: operation, selected root, pc, data
          pub,       \* the public names of the pair
          temp,      \* .tmp links left in the child directory
          stage,     \* each root's .retention-prune transaction
          quar,      \* each root's .retention-quarantine
          expired,   \* generations whose expires_at has passed
          committed, \* generations whose publication returned
          faults

vars == <<lockfile, excl, share, proc, pub, temp, stage, quar, expired,
          committed, faults>>

Dirs == {"root", "child"}
Kinds == {"ev", "sc"}
Gens == 1..MaxGen
Absent == [k \in Kinds |-> 0]
EmptyStage == [dir |-> FALSE, marker |-> "none", gen |-> 0, st |-> Absent]
Idle == [op |-> "none", at |-> "child", pc |-> "idle", gen |-> 0, now |-> {},
         seen |-> <<>>, todo |-> {}, rec |-> FALSE]

Init ==
    /\ lockfile = {} /\ excl = [d \in Dirs |-> None] /\ share = {}
    /\ proc = [p \in Procs |-> Idle]
    /\ pub = Absent /\ temp = {} /\ stage = [d \in Dirs |-> EmptyStage]
    /\ quar = [d \in Dirs |-> [names |-> Absent, temps |-> {}]]
    /\ expired = {} /\ committed = {} /\ faults = 0

-----------------------------------------------------------------------------
(* Link counts, locks *)

\* st_nlink of the inode of kind k of generation g.
Links(k, g) ==
    (IF pub[k] = g THEN 1 ELSE 0)
    + (IF <<k, g>> \in temp THEN 1 ELSE 0)
    + Cardinality({d \in Dirs : stage[d].st[k] = g})
    + Cardinality({d \in Dirs : quar[d].names[k] = g})
    + Cardinality({d \in Dirs : <<k, g>> \in quar[d].temps})

\* _read_record_bytes_at: a record is read only while it has one link.
Readable(k) == pub[k] # 0 /\ Links(k, pub[k]) = 1

\* _verify_retained_record_at under the manifest's digest: sidecar and evidence
\* are readable and of one publication.
ValidPair == Readable("sc") /\ Readable("ev") /\ pub["ev"] = pub["sc"]

Unlocked(d) == excl[d] = None /\ (d = "root" => share = {})

At(p, pc) == proc[p].pc = pc
Go(p, pc) == proc' = [proc EXCEPT ![p].pc = pc]

\* The finally blocks: every flock of p is released.
ReleaseAll(p) ==
    /\ excl' = [d \in Dirs |-> IF excl[d] = p THEN None ELSE excl[d]]
    /\ share' = share \ {p}
    /\ proc' = [proc EXCEPT ![p] = Idle]

LocksSame == UNCHANGED <<lockfile, excl, share>>
TreeSame == UNCHANGED <<pub, temp, stage, quar>>
GhostsSame == UNCHANGED <<expired, committed, faults>>
Leave(p) == ReleaseAll(p) /\ UNCHANGED lockfile /\ TreeSame /\ GhostsSame

-----------------------------------------------------------------------------
(* The lock handshake, common to publication and maintenance *)

\* The next unused generation number (bounded by MaxGen).
NextGen == Max({0} \cup committed \cup {proc[p].gen : p \in Procs}
               \cup UNION {{pub[k], stage[d].st[k], quar[d].names[k]} :
                           k \in Kinds, d \in Dirs}
               \cup {f[2] : f \in temp \cup UNION {quar[d].temps : d \in Dirs}}) + 1

\* _open_retention_lock: creates the persistent lock file of the selected root.
OpenLock(p, op, d) ==
    /\ At(p, "idle") /\ op \in Operations
    /\ op = "write" => d = "child" /\ NextGen \in Gens
    /\ lockfile' = lockfile \cup {d}
    /\ proc' = [proc EXCEPT ![p] = [Idle EXCEPT !.op = op, !.at = d, !.pc = "lock",
                                                !.now = expired]]
    /\ UNCHANGED <<excl, share>> /\ TreeSame /\ GhostsSame

\* _acquire_file_lock EXCLUSIVE: a writer blocks, maintenance is refused.
LockRoot(p) ==
    LET d == proc[p].at IN
    /\ At(p, "lock")
    /\ \/ /\ Unlocked(d)
          /\ excl' = [excl EXCEPT ![d] = p] /\ Go(p, "hier")
          /\ UNCHANGED <<lockfile, share>> /\ TreeSame /\ GhostsSame
       \/ /\ ~Unlocked(d) /\ proc[p].op # "write" /\ Leave(p)

\* _acquire_retention_directory_hierarchy: share-lock the ancestor's lock file
\* if there is one, without blocking.
LockHierarchy(p) ==
    LET inside == proc[p].at = "child" /\ "root" \in lockfile IN
    /\ At(p, "hier")
    /\ \/ /\ inside /\ excl["root"] # None /\ Leave(p)
       \/ /\ inside => excl["root"] = None
          /\ share' = IF inside THEN share \cup {p} ELSE share
          /\ Go(p, IF proc[p].op = "write" THEN "names" ELSE "scan")
          /\ UNCHANGED <<lockfile, excl>> /\ TreeSame /\ GhostsSame

-----------------------------------------------------------------------------
(* Publication: write_retained_json -> _commit_restricted_files_at *)

\* _require_retained_names_absent.
CheckNames(p) ==
    /\ At(p, "names")
    /\ \/ pub # Absent /\ Leave(p)
       \/ NextGen \notin Gens /\ Leave(p)
       \/ /\ pub = Absent /\ NextGen \in Gens
          /\ proc' = [proc EXCEPT ![p].pc = "temp_ev", ![p].gen = NextGen]
          /\ LocksSame /\ TreeSame /\ GhostsSame

\* _open_restricted_temp_file_at and _write_restricted_descriptor.
WriteTemp(p, k, pc, next) ==
    /\ At(p, pc) /\ temp' = temp \cup {<<k, proc[p].gen>>} /\ Go(p, next)
    /\ LocksSame /\ UNCHANGED <<pub, stage, quar>> /\ GhostsSame

\* _publish_restricted_temp_file_at: link the final name, create-only ...
LinkFinal(p, k, pc, next) ==
    /\ At(p, pc) /\ pub[k] = 0
    /\ pub' = [pub EXCEPT ![k] = proc[p].gen] /\ Go(p, next)
    /\ LocksSame /\ UNCHANGED <<temp, stage, quar>> /\ GhostsSame

\* ... then remove the temporary name.
DropTemp(p, k, pc, next) ==
    /\ At(p, pc) /\ temp' = temp \ {<<k, proc[p].gen>>} /\ Go(p, next)
    /\ LocksSame /\ UNCHANGED <<pub, stage, quar>> /\ GhostsSame

\* The pair is durable: the publication returns.
Committed(p) ==
    /\ At(p, "commit") /\ committed' = committed \cup {proc[p].gen}
    /\ ReleaseAll(p) /\ UNCHANGED <<lockfile, expired, faults>> /\ TreeSame

\* The publication order: manifest first, evidence last.
Publish(p) ==
    \/ WriteTemp(p, "ev", "temp_ev", "temp_sc")
    \/ WriteTemp(p, "sc", "temp_sc", "link_sc")
    \/ LinkFinal(p, "sc", "link_sc", "drop_sc")
    \/ DropTemp(p, "sc", "drop_sc", "link_ev")
    \/ LinkFinal(p, "ev", "link_ev", "drop_ev")
    \/ DropTemp(p, "ev", "drop_ev", "commit")
    \/ Committed(p)

Publishing == {"temp_ev", "temp_sc", "link_sc", "drop_sc", "link_ev", "drop_ev",
               "commit"}

\* A raising call rolls back every name the publication owns.  (The names go one
\* at a time; each intermediate tree is one a death during publication leaves.)
RollbackWrite(p) ==
    /\ proc[p].pc \in Publishing /\ faults < MaxFaults /\ faults' = faults + 1
    /\ pub' = [k \in Kinds |-> IF pub[k] = proc[p].gen THEN 0 ELSE pub[k]]
    /\ temp' = temp \ {<<k, proc[p].gen>> : k \in Kinds}
    /\ ReleaseAll(p) /\ UNCHANGED <<lockfile, stage, quar, expired, committed>>

-----------------------------------------------------------------------------
(* Maintenance: scan, descendant locks, rescan *)

Pending(d) == stage[d].dir
StagedKinds(d) == {k \in Kinds : stage[d].st[k] # 0}

\* Descendant parents whose lock a scan of d finds it needs: a visible lock file,
\* a record, or (prune) the source parent of a pending transaction.
LockParents(op, d) ==
    IF d = "root"
       /\ \/ "child" \in lockfile
          \/ pub["sc"] # 0
          \/ op = "repair" /\ (pub["ev"] # 0 \/ temp # {})
          \/ op = "prune" /\ Pending("root") /\ StagedKinds("root") # {}
    THEN {"child"} ELSE {}

\* _scan_retained_files_at: the records, and a nested transaction's error.  The
\* selected root's own .retention-prune is not looked into.
Scan(op, d) == [pub |-> pub, temp |-> temp, parents |-> LockParents(op, d),
                nested |-> d = "root" /\ Pending("child")]

ScanTree(p) ==
    /\ At(p, "scan")
    /\ proc' = [proc EXCEPT ![p].pc = "desc",
                            ![p].seen = Scan(proc[p].op, proc[p].at)]
    /\ LocksSame /\ TreeSame /\ GhostsSame

\* Faulty variant: maintenance relies on its own root's lock alone.
LockNoDescendants(p) ==
    /\ At(p, "desc")
    /\ Go(p, IF proc[p].op = "prune" /\ ~proc[p].seen.nested THEN "recover" ELSE "rescan")
    /\ LocksSame /\ TreeSame /\ GhostsSame

\* _acquire_descendant_retention_locks_at with dry_run false.
LockDescendants(p) ==
    LET ds == proc[p].seen.parents IN
    /\ At(p, "desc")
    /\ \/ /\ \E d \in ds : ~Unlocked(d)
          /\ ReleaseAll(p) /\ lockfile' = lockfile \cup ds
          /\ TreeSame /\ GhostsSame
       \/ /\ \A d \in ds : Unlocked(d)
          /\ excl' = [d \in Dirs |-> IF d \in ds THEN p ELSE excl[d]]
          /\ lockfile' = lockfile \cup ds
          /\ Go(p, IF proc[p].op = "prune" /\ ~proc[p].seen.nested
                   THEN "recover" ELSE "rescan")
          /\ UNCHANGED share /\ TreeSame /\ GhostsSame

-----------------------------------------------------------------------------
(* Recovery of an interrupted prune transaction *)

\* _require_transaction_record_identity and the link counts of the preflight.
SameInode(d, k) ==
    LET s == stage[d] IN
    /\ s.st[k] # 0 => s.st[k] = s.gen
                      /\ Links(k, s.gen) = IF pub[k] # 0 THEN 2 ELSE 1
    /\ pub[k] # 0 => pub[k] = s.gen
                     /\ Links(k, s.gen) = IF s.st[k] # 0 THEN 2 ELSE 1

\* Faulty variant: a marker torn by the interruption is an error, as it is with files.
VerdictNeedsMarker(d) ==
    LET sources == {k \in Kinds : pub[k] # 0} IN
    IF stage[d].marker # "good" \/ ~(\A k \in Kinds : SameInode(d, k)) THEN "stuck"
    ELSE CASE StagedKinds(d) = Kinds -> "finish"
           [] OTHER -> IF Cardinality(sources) = 1 THEN "stuck" ELSE "clear"

\* _preflight_prune_transaction_at / _recover_prune_transaction_at: what to do
\* with the transaction of d.
Verdict(d) ==
    LET s == stage[d]
        sources == {k \in Kinds : pub[k] # 0}
        identical == \A k \in Kinds : SameInode(d, k) IN
    CASE StagedKinds(d) = {} ->
           IF s.marker = "good" /\ Cardinality(sources) = 1 THEN "stuck" ELSE "clear"
      [] StagedKinds(d) = Kinds /\ s.marker = "good" /\ identical -> "finish"
      [] Cardinality(StagedKinds(d)) = 1 /\ s.marker = "good" /\ identical
           /\ Cardinality(sources) # 1 -> "clear"
      [] OTHER -> "stuck"

\* The paths a recovery reports removed leave the expected records of the rescan.
Completes(d) == Verdict(d) = "finish" \/ (stage[d].marker = "good" /\ pub = Absent)

\* _recover_prune_transactions_at: an unrecoverable transaction is an error, and
\* with an error no deletion starts.
Recover(p) ==
    LET d == proc[p].at IN
    /\ At(p, "recover")
    /\ \/ /\ ~Pending(d) /\ Go(p, "rescan") /\ LocksSame /\ TreeSame /\ GhostsSame
       \/ /\ Pending(d) /\ Verdict(d) = "stuck" /\ Leave(p)
       \/ /\ Pending(d) /\ Verdict(d) # "stuck"
          /\ proc' = [proc EXCEPT ![p].pc = IF Verdict(d) = "finish" THEN "pub_sc"
                                            ELSE "st_ev",
                                  ![p].rec = TRUE,
                                  ![p].seen.pub = IF Completes(d) THEN Absent ELSE @]
          /\ LocksSame /\ TreeSame /\ GhostsSame

-----------------------------------------------------------------------------
(* The validating rescan and the plan *)

\* Everything the rescan compares is as it was scanned.
Stable(p) == Scan(proc[p].op, proc[p].at) = proc[p].seen

\* _plan_retained_pairs_at: the one pair is deleted when it is valid and expired
\* at the time the command started; any error refuses the deletion.
Prunable(p) == /\ Stable(p) /\ ~proc[p].seen.nested
               /\ ValidPair /\ pub["sc"] \in proc[p].now

Rescan(p) ==
    /\ At(p, "rescan") /\ proc[p].op = "prune"
    /\ \/ /\ Prunable(p)
          /\ proc' = [proc EXCEPT ![p].pc = "mkdir", ![p].gen = pub["sc"], ![p].rec = FALSE]
          /\ LocksSame /\ TreeSame /\ GhostsSame
       \/ ~Prunable(p) /\ Leave(p)

\* _classify_orphaned_records_at: temporaries, a sidecar that cannot be read or
\* has no evidence, both members when the evidence does not verify, and evidence
\* no valid sidecar names.
Orphans ==
    {[tmp |-> TRUE, k |-> f[1], g |-> f[2]] : f \in temp}
    \cup {[tmp |-> FALSE, k |-> k, g |-> pub[k]] :
            k \in {x \in Kinds : pub[x] # 0 /\ ~ValidPair}}

\* _repair_orphaned_evidence_locked after the rescan.
Classify(p) ==
    /\ At(p, "rescan") /\ proc[p].op = "repair"
    /\ \/ /\ Stable(p) /\ ~proc[p].seen.nested /\ Orphans # {}
          /\ proc' = [proc EXCEPT ![p].pc = "quar", ![p].todo = Orphans]
          /\ LocksSame /\ TreeSame /\ GhostsSame
       \/ /\ ~(Stable(p) /\ ~proc[p].seen.nested /\ Orphans # {}) /\ Leave(p)

-----------------------------------------------------------------------------
(* Deletion of one expired pair: _delete_retained_pair_at *)

Stage(p, s, next) ==
    /\ stage' = [stage EXCEPT ![proc[p].at] = s] /\ Go(p, next)
    /\ LocksSame /\ UNCHANGED <<pub, temp, quar>> /\ GhostsSame

\* _create_private_transaction_directory_at, and the marker: created, then written.
MakeStage(p) ==
    LET d == proc[p].at IN
    \/ At(p, "mkdir") /\ Stage(p, [EmptyStage EXCEPT !.dir = TRUE], "marker")
    \/ At(p, "marker") /\ Stage(p, [stage[d] EXCEPT !.marker = "torn"], "record")
    \/ At(p, "record") /\ Stage(p, [stage[d] EXCEPT !.marker = "good",
                                                    !.gen = proc[p].gen], "ln_ev")

\* _link_prune_stage_file_at.
LinkStage(p, k, pc, next) ==
    LET d == proc[p].at IN
    /\ At(p, pc) /\ pub[k] = proc[p].gen
    /\ Stage(p, [stage[d] EXCEPT !.st[k] = proc[p].gen], next)

\* _unlink_relative_record_at (nothing to do when recovery finds it gone).
UnlinkSource(p, k, pc, next) ==
    /\ At(p, pc) /\ pub' = [pub EXCEPT ![k] = 0] /\ Go(p, next)
    /\ LocksSame /\ UNCHANGED <<temp, stage, quar>> /\ GhostsSame

\* _unlink_stage_record_at.
UnlinkStage(p, k, pc, next) ==
    LET d == proc[p].at IN
    /\ At(p, pc) /\ Stage(p, [stage[d] EXCEPT !.st[k] = 0], next)

\* Unlink the marker, then _remove_private_transaction_directory_at.
RemoveStage(p) ==
    LET d == proc[p].at IN
    \/ At(p, "unmark") /\ Stage(p, [stage[d] EXCEPT !.marker = "none", !.gen = 0], "rmdir")
    \/ /\ At(p, "rmdir")
       /\ IF proc[p].rec THEN Stage(p, EmptyStage, "rescan")
          ELSE /\ stage' = [stage EXCEPT ![d] = EmptyStage] /\ ReleaseAll(p)
               /\ UNCHANGED <<lockfile, pub, temp, quar>> /\ GhostsSame

Delete(p) ==
    \/ MakeStage(p)
    \/ LinkStage(p, "ev", "ln_ev", "ln_sc")
    \/ LinkStage(p, "sc", "ln_sc", "pub_sc")
    \/ UnlinkSource(p, "sc", "pub_sc", "pub_ev")
    \/ UnlinkSource(p, "ev", "pub_ev", "st_ev")
    \/ UnlinkStage(p, "ev", "st_ev", "st_sc")
    \/ UnlinkStage(p, "sc", "st_sc", "unmark")
    \/ RemoveStage(p)

Deleting == {"marker", "record", "ln_ev", "ln_sc", "pub_sc", "pub_ev", "st_ev",
             "st_sc", "unmark", "rmdir"}

\* A raising call during the deletion enters the recovery of its transaction; a
\* raising call during recovery ends the command with the error.
FailDelete(p) ==
    LET d == proc[p].at IN
    /\ proc[p].pc \in Deleting /\ faults < MaxFaults /\ faults' = faults + 1
    /\ UNCHANGED <<lockfile, expired, committed>> /\ TreeSame
    /\ IF proc[p].rec \/ Verdict(d) = "stuck"
       THEN ReleaseAll(p)
       ELSE /\ Go(p, IF Verdict(d) = "finish" THEN "pub_sc" ELSE "st_ev")
            /\ UNCHANGED <<excl, share>>

-----------------------------------------------------------------------------
(* Quarantine: _quarantine_records_at *)

\* The orphans go in name order: temporaries, evidence, sidecar.
First(todo) == CHOOSE o \in todo : \A x \in todo :
    \/ x.tmp = o.tmp /\ x.k = o.k
    \/ o.tmp /\ ~x.tmp
    \/ o.tmp = x.tmp /\ o.k = "ev"

\* _quarantine_owned_name_at refuses an inode with another link, or a name the
\* quarantine already holds; otherwise it links there ...
QuarantineLink(p) ==
    LET d == proc[p].at
        o == First(proc[p].todo)
        taken == ~o.tmp /\ quar[d].names[o.k] # 0 IN
    /\ At(p, "quar") /\ proc[p].todo # {}
    /\ IF Links(o.k, o.g) # 1 \/ taken
       THEN /\ proc' = [proc EXCEPT ![p].todo = @ \ {o}] /\ UNCHANGED quar
       ELSE /\ quar' = IF o.tmp THEN [quar EXCEPT ![d].temps = @ \cup {<<o.k, o.g>>}]
                       ELSE [quar EXCEPT ![d].names[o.k] = o.g]
            /\ Go(p, "move")
    /\ LocksSame /\ UNCHANGED <<pub, temp, stage>> /\ GhostsSame

\* ... and unlinks the source.
QuarantineUnlink(p) ==
    LET o == First(proc[p].todo) IN
    /\ At(p, "move")
    /\ IF o.tmp THEN temp' = temp \ {<<o.k, o.g>>} /\ UNCHANGED pub
       ELSE pub' = [pub EXCEPT ![o.k] = 0] /\ UNCHANGED temp
    /\ proc' = [proc EXCEPT ![p].pc = "quar", ![p].todo = @ \ {o}]
    /\ LocksSame /\ UNCHANGED <<stage, quar>> /\ GhostsSame

QuarantineDone(p) == At(p, "quar") /\ proc[p].todo = {} /\ Leave(p)

-----------------------------------------------------------------------------
(* Time and death *)

Expire(g) ==
    /\ g \in committed \ expired /\ expired' = expired \cup {g}
    /\ UNCHANGED <<lockfile, excl, share, proc, committed, faults>> /\ TreeSame

\* The kernel releases a dead process's flocks; the names stay.
Die(p) ==
    /\ ~At(p, "idle") /\ faults < MaxFaults /\ faults' = faults + 1
    /\ ReleaseAll(p) /\ UNCHANGED <<lockfile, expired, committed>> /\ TreeSame

Step(p) ==
    \/ LockRoot(p) \/ LockHierarchy(p) \/ CheckNames(p) \/ Publish(p)
    \/ ScanTree(p) \/ LockDescendants(p) \/ Recover(p) \/ Rescan(p) \/ Classify(p)
    \/ Delete(p) \/ QuarantineLink(p) \/ QuarantineUnlink(p) \/ QuarantineDone(p)

Next ==
    \/ \E p \in Procs :
        \/ \E op \in Operations, d \in Dirs : OpenLock(p, op, d)
        \/ Step(p) \/ RollbackWrite(p) \/ FailDelete(p) \/ Die(p)
    \/ \E g \in Gens : Expire(g)

Spec == Init /\ [][Next]_vars

\* A started command runs on, and the operator repeats the apply at each root.
FairSpec ==
    /\ Spec
    /\ \A p \in Procs : WF_vars(Step(p))
    /\ \A p \in Procs, d \in Dirs : SF_vars(OpenLock(p, "prune", d))

-----------------------------------------------------------------------------
(* Properties *)

\* Types of the locks, names, transactions and processes; a flock is held only by
\* a process inside a command.
RetentionTypeOK ==
    /\ lockfile \subseteq Dirs /\ excl \in [Dirs -> Procs \cup {None}]
    /\ share \subseteq Procs /\ pub \in [Kinds -> 0..MaxGen]
    /\ temp \subseteq Kinds \X Gens
    /\ \A d \in Dirs : /\ stage[d].dir \in BOOLEAN /\ stage[d].gen \in 0..MaxGen
                       /\ stage[d].marker \in {"none", "torn", "good"}
                       /\ stage[d].st \in [Kinds -> 0..MaxGen]
                       /\ quar[d].names \in [Kinds -> 0..MaxGen]
                       /\ quar[d].temps \subseteq Kinds \X Gens
    /\ \A p \in Procs : proc[p].op \in Operations \cup {"none"} /\ proc[p].at \in Dirs
    /\ \A p \in Procs : At(p, "idle") => p \notin share \cup {excl[d] : d \in Dirs}
    /\ expired \subseteq committed /\ committed \subseteq Gens
    /\ faults \in 0..MaxFaults

Mutating(p) == proc[p].pc \in Publishing \cup Deleting \cup {"mkdir", "quar", "move"}

\* The handshake works: with maintenance on the ancestor, maintenance on the
\* child and publication in the child, at most one process is changing the pair's
\* names, although a writer locks an ancestor only if its lock file exists.
OneMutator == \A p, q \in Procs : Mutating(p) /\ Mutating(q) => p = q

\* "a crash can never expose evidence without a retention manifest": public
\* evidence always has its manifest, beside it or staged with it.
EvidenceIsCovered ==
    pub["ev"] # 0 => \/ pub["sc"] = pub["ev"]
                     \/ \E d \in Dirs : stage[d].st = [k \in Kinds |-> pub["ev"]]

\* What a committed publication wrote is gone only once it expired, and then as a
\* pair: one member survives the other only inside a pending transaction or
\* while the deletion runs.
LossIsWholeAndExpired ==
    \A g \in committed :
        LET gone == {k \in Kinds : Links(k, g) = 0} IN
        /\ gone # {} => g \in expired
        /\ Cardinality(gone) = 1 => \E d \in Dirs : stage[d].gen = g

\* Whenever nobody works on it, an interrupted transaction can be recovered by
\* repeating the apply: it never meets a tree it calls unrecoverable.
InterruptedPruneIsRecoverable ==
    (\A p \in Procs : ~Mutating(p))
        => \A d \in Dirs : Pending(d) => Verdict(d) # "stuck"

\* An interrupted prune is finished or undone by repeated applies.
InterruptedPruneEnds == (\E d \in Dirs : Pending(d)) ~> (\A d \in Dirs : ~Pending(d))
=============================================================================
