---------------------------- MODULE PluginLoader ----------------------------
(***************************************************************************)
(* The connector plugin lock and its loader (master_agent/plugins.py): an  *)
(* operator inventories an installed distribution into a lock; a process   *)
(* verifies the installed files against the lock, copies them into a       *)
(* private snapshot while hashing them again, imports the entry module     *)
(* from the snapshot and registers its connectors, while the package       *)
(* manager replaces the installed files one at a time.                     *)
(***************************************************************************)
EXTENDS Naturals, FiniteSets, Sequences

CONSTANTS
    Files,       \* the artifacts of the distribution, in sorted order
    Entry,       \* the entry module; the others are modules it imports
    Versions,    \* contents a file may have
    Connectors,  \* how many connectors the factory produces
    None,
    MaxInstalls, MaxFaults, MaxLoads  \* bounds

\* What the constants are.
PluginAssumption ==
    /\ Files \in Seq(STRING) /\ Len(Files) > 0
    /\ Entry \in {Files[k] : k \in 1..Len(Files)}
    /\ Connectors \in Nat \ {0} /\ None \notin Versions

Names == {Files[k] : k \in 1..Len(Files)}

VARIABLES
    disk,       \* the installed files: content and change stamp
    lock,       \* the digests in the operator's lock file, or None
    hasher,     \* process -> the hash of the distribution under way
    loader,     \* the loading process: step and what it has in hand
    snapshots,  \* snapshot -> its files; the active ones of the process
    modules,    \* sys.modules: file -> the snapshot it came from and content
    registry,   \* contents the registered connectors run, this load's
    served,     \* observation: contents of each completed load
    spent       \* installs, faults and loads so far

vars == <<disk, lock, hasher, loader, snapshots, modules, registry, served, spent>>

Digest == [Names -> Versions]
Processes == {"operator", "loader"}
NoHash == [at |-> 0, stamp |-> 0, half |-> None, found |-> <<>>]
NotCached == [from |-> 0, content |-> None]
Outside == [from |-> 999, content |-> None]  \* cached from another origin

PluginInit ==
    /\ \E v \in Versions : disk = [f \in Names |-> [content |-> v, stamp |-> 0]]
    /\ lock = None
    /\ hasher = [p \in Processes |-> NoHash]
    /\ loader = [pc |-> "idle", lock |-> None, snap |-> 0, new |-> FALSE, registered |-> 0]
    /\ snapshots = <<>>
    /\ modules \in [Names -> {NotCached, Outside}]
    /\ registry = {}
    /\ served = {}
    /\ spent = [installs |-> 0, faults |-> 0, loads |-> 0]

-----------------------------------------------------------------------------
(* The package manager replaces or rewrites one installed file. *)
Install(f) ==
    /\ spent.installs < MaxInstalls
    /\ spent' = [spent EXCEPT !.installs = @ + 1]
    /\ \E v \in Versions :
         disk' = [disk EXCEPT ![f] = [content |-> v, stamp |-> @.stamp + 1]]
    /\ UNCHANGED <<lock, hasher, loader, snapshots, modules, registry, served>>

(* _hash_distribution_artifact opens a file, notes its identity and reads  *)
(* the first blocks; the digest is of the bytes read.                      *)
HashFirst(p) ==
    LET f == Files[hasher[p].at]
    IN /\ hasher[p].half = None
       /\ hasher' = [hasher EXCEPT ![p].stamp = disk[f].stamp,
                                   ![p].half = disk[f].content]

(* The final fstat and stat of the name against the opened identity. *)
Unchanged(p) == disk[Files[hasher[p].at]].stamp = hasher[p].stamp

(* What a digest is of when the two halves were of different contents. *)
Mixed(u, v) == IF u = v THEN u ELSE None

HashSecond(p) ==
    LET f == Files[hasher[p].at]
    IN /\ hasher[p].half # None
       /\ Unchanged(p)
       /\ hasher' = [hasher EXCEPT ![p].at = @ + 1, ![p].half = None,
            ![p].found = Append(@, Mixed(hasher[p].half, disk[f].content))]

HashFails(p) == hasher[p].half # None /\ ~Unchanged(p)

Hashing(p) == hasher[p].at \in 1..Len(Files)
Hashed(p) == hasher[p].at = Len(Files) + 1
Found(p) == [f \in Names |-> hasher[p].found[CHOOSE k \in 1..Len(Files) : Files[k] = f]]

StartHash == [NoHash EXCEPT !.at = 1]

-----------------------------------------------------------------------------
(* `master-agent plugins --output`: discover_connector_plugins, PluginLock. *)
Inventory ==
    LET p == "operator"
    IN /\ \/ hasher[p].at = 0 /\ hasher' = [hasher EXCEPT ![p] = StartHash]
          \/ Hashing(p) /\ (HashFirst(p) \/ HashSecond(p))
          \/ Hashing(p) /\ HashFails(p) /\ hasher' = [hasher EXCEPT ![p] = NoHash]
       /\ UNCHANGED <<disk, lock, loader, snapshots, modules, registry, served, spent>>

WriteLock ==
    /\ Hashed("operator")
    /\ lock' = Found("operator")
    /\ hasher' = [hasher EXCEPT !["operator"] = NoHash]
    /\ UNCHANGED <<disk, loader, snapshots, modules, registry, served, spent>>

-----------------------------------------------------------------------------
(* load_connector_plugins.                                                 *)

LoadFails ==
    /\ loader' = [loader EXCEPT !.pc = "idle", !.registered = 0]
    /\ hasher' = [hasher EXCEPT !["loader"] = NoHash]

(* The lock is read and the installed entry is described. *)
LoadStart ==
    /\ loader.pc = "idle" /\ lock # None /\ spent.loads < MaxLoads
    /\ spent' = [spent EXCEPT !.loads = @ + 1]
    /\ loader' = [pc |-> "resolve", lock |-> lock, snap |-> 0, new |-> FALSE,
                  registered |-> 0]
    /\ hasher' = [hasher EXCEPT !["loader"] = StartHash]
    /\ registry' = {}
    /\ UNCHANGED <<disk, lock, snapshots, modules, served>>

LoaderHashes ==
    /\ loader.pc \in {"resolve", "snapshot"} /\ Hashing("loader")
    /\ \/ (HashFirst("loader") \/ HashSecond("loader")) /\ UNCHANGED loader
       \/ HashFails("loader") /\ LoadFails
    /\ UNCHANGED <<disk, lock, snapshots, modules, registry, served, spent>>

(* resolve_locked_plugin_descriptors compares identities; a snapshot of    *)
(* the same artifact digest is used again.                                 *)
Resolve ==
    /\ loader.pc = "resolve" /\ Hashed("loader")
    /\ LET known == {k \in DOMAIN snapshots : snapshots[k].active
                                              /\ snapshots[k].files = loader.lock}
       IN IF Found("loader") # loader.lock THEN LoadFails
          ELSE IF known # {}
          THEN /\ loader' = [loader EXCEPT !.pc = "import", !.new = FALSE,
                               !.snap = CHOOSE k \in known : TRUE]
               /\ hasher' = [hasher EXCEPT !["loader"] = NoHash]
          ELSE /\ loader' = [loader EXCEPT !.pc = "snapshot", !.new = TRUE,
                               !.snap = Len(snapshots) + 1]
               /\ hasher' = [hasher EXCEPT !["loader"] = StartHash]
    /\ UNCHANGED <<disk, lock, snapshots, modules, registry, served, spent>>

(* The snapshot holds the very blocks that were hashed. *)
SnapshotFiles == Found("loader")

(* _load_from_verified_snapshot: the digest must be the descriptor's. *)
TakeSnapshot ==
    /\ loader.pc = "snapshot" /\ Hashed("loader")
    /\ IF Found("loader") # loader.lock
       THEN LoadFails /\ UNCHANGED snapshots
       ELSE /\ snapshots' = Append(snapshots, [files |-> SnapshotFiles, active |-> FALSE])
            /\ loader' = [loader EXCEPT !.pc = "import"]
            /\ hasher' = [hasher EXCEPT !["loader"] = NoHash]
    /\ UNCHANGED <<disk, lock, modules, registry, served, spent>>

(* _reject_cached_module_outside_snapshot looks at the entry module and    *)
(* its parents, at none of the modules it imports.                         *)
EntryIsOwn == modules[Entry] = NotCached \/ modules[Entry].from = loader.snap

(* Importing f from the snapshot; a cached module is used as it is. *)
Imported(f) ==
    IF modules[f] = NotCached
    THEN [from |-> loader.snap, content |-> snapshots[loader.snap].files[f]]
    ELSE modules[f]

(* _purge_snapshot_modules. *)
PurgedModules ==
    [f \in Names |-> IF modules[f].from = loader.snap THEN NotCached ELSE modules[f]]

(* A failure after the snapshot was made: a new one is purged and removed. *)
FailFromSnapshot ==
    /\ modules' = IF loader.new THEN PurgedModules ELSE modules
    /\ LoadFails
    /\ UNCHANGED <<disk, lock, snapshots, registry, served>>

(* The modules the entry module imports are executed first. *)
ImportHelpers ==
    /\ loader.pc = "import"
    /\ IF EntryIsOwn
       THEN /\ modules' = [f \in Names |-> IF f = Entry THEN modules[f] ELSE Imported(f)]
            /\ loader' = [loader EXCEPT !.pc = "entry"]
            /\ UNCHANGED <<disk, lock, hasher, snapshots, registry, served>>
       ELSE FailFromSnapshot
    /\ UNCHANGED spent

(* The entry module and its factory complete: _module_from_snapshot. *)
ImportEntry ==
    /\ loader.pc = "entry"
    /\ modules' = [modules EXCEPT ![Entry] = Imported(Entry)]
    /\ loader' = [loader EXCEPT !.pc = "register"]
    /\ UNCHANGED <<disk, lock, hasher, snapshots, registry, served, spent>>

(* Plugin code raises: Python drops the entry module, not its imports; or  *)
(* a connector is invalid or overlaps a registered one.                    *)
PluginRaises ==
    /\ loader.pc \in {"entry", "register"}
    /\ spent.faults < MaxFaults
    /\ spent' = [spent EXCEPT !.faults = @ + 1]
    /\ FailFromSnapshot

RegisterConnector ==
    /\ loader.pc = "register"
    /\ registry' = registry \cup {[f \in Names |-> modules[f].content]}
    /\ LET last == loader.registered + 1 = Connectors
       IN /\ loader' = [loader EXCEPT !.registered = IF last THEN 0 ELSE @ + 1,
                                      !.pc = IF last THEN "idle" ELSE @]
          /\ snapshots' = IF last THEN [snapshots EXCEPT ![loader.snap].active = TRUE]
                          ELSE snapshots
          /\ served' = IF last THEN served \cup registry' ELSE served
    /\ UNCHANGED <<disk, lock, hasher, modules, spent>>

LoadStep ==
    \/ LoadStart \/ LoaderHashes \/ Resolve \/ TakeSnapshot
    \/ ImportHelpers \/ ImportEntry \/ RegisterConnector

PluginNext ==
    \/ \E f \in Names : Install(f)
    \/ Inventory \/ WriteLock
    \/ LoadStep \/ PluginRaises

PluginSpec == PluginInit /\ [][PluginNext]_vars

(* The loading process is not suspended for ever. *)
FairPluginSpec == PluginSpec /\ WF_vars(LoadStep)

-----------------------------------------------------------------------------
Pcs == {"idle", "resolve", "snapshot", "import", "entry", "register"}

(* Every variable keeps the shape the code gives it. *)
PluginTypeOK ==
    /\ \A f \in Names : disk[f].content \in Versions
    /\ lock \in Digest \cup {None}
    /\ loader.pc \in Pcs /\ loader.lock \in Digest \cup {None}
    /\ \A k \in DOMAIN snapshots : snapshots[k].files \in Digest
    /\ \A f \in Names : modules[f].from \in 0..Len(snapshots) \cup {999}

(* Every connector that was ever registered, also by a load that failed    *)
(* later, runs exactly the contents of the lock that load was given: of    *)
(* the entry module always, and of every module it imports that the        *)
(* interpreter had not cached from elsewhere ("cannot seal ... already-    *)
(* cached dependencies"), whatever the package manager did between the     *)
(* checks, the copy and the import.                                        *)
RegisteredIsLocked ==
    \A c \in registry, f \in Names :
      c[f] = loader.lock[f] \/ (f # Entry /\ modules[f] = Outside)

(* One process never serves two versions of a distribution, nor modules of *)
(* two of them together, through upgrades, new locks and failed loads.     *)
OneVersionServes ==
    /\ Cardinality(served) <= 1
    /\ \A f, g \in Names :
         {modules[f].from, modules[g].from} \cap {0, 999} = {} =>
           modules[f].from = modules[g].from

Wanted == lock # None /\ modules[Entry] # Outside
Installed == [f \in Names |-> disk[f].content] = lock

(* A load that failed leaves nothing that refuses the next one: while the  *)
(* installed files are the locked ones, repeated loads end in one that     *)
(* completes, unless the entry module was cached from elsewhere.           *)
FailedLoadIsRetryable == Wanted ~> (served # {} \/ ~Installed)
=============================================================================
