--------------------------- MODULE StateDatabase ---------------------------
(***************************************************************************)
(* The state file under every SQLite store and every protected JSON store: *)
(* sqlite_safety.py (PinnedSQLiteDatabase on POSIX) and the Windows atomic *)
(* state transaction of platform_runtime/windows/atomic.py it selects.     *)
(* Both serialise processes by a lock, publish a whole new file by rename, *)
(* and bracket the rename with a ledger (prepare, replace, commit).  A     *)
(* generation is [ino, data], data being the transactions in it.  A rename *)
(* is volatile until its directory is flushed; a power failure keeps a     *)
(* prefix of the renames made since.  Inode numbers are never reused.      *)
(***************************************************************************)
EXTENDS Integers, Sequences, FiniteSets

CONSTANTS Procs,          \* processes using the state file
          Windows,        \* the Windows backend, otherwise POSIX
          FaultyCleanup,  \* a cleanup of created state may be interrupted
          MaxFiles,       \* bound on files created
          MaxPowerLoss    \* bound on power failures

\* What the constants are.
StateAssumption ==
    /\ Windows \in BOOLEAN /\ FaultyCleanup \in BOOLEAN
    /\ MaxFiles \in Nat /\ MaxPowerLoss \in Nat /\ "none" \notin Procs

VARIABLES db,      \* the database file, or Absent
          ledger,  \* the lock ledger, or NoLedger
          lock,    \* the POSIX flock file: 0 or its inode
          holder,  \* who holds the directory's (Windows: the lock file's) lock
          jnl,     \* <<durable state>> followed by the states after each unflushed rename
          proc,    \* process -> its instance
          files, losses,
          acked    \* ghost: transactions acknowledged

stateVars == <<db, ledger, lock, holder, jnl, proc, files, losses, acked>>

None == "none"
Absent == [ino |-> 0, data |-> {}]
NoLedger == [com |-> Absent, op |-> "no", new |-> Absent]
Settled(d) == [com |-> d, op |-> None, new |-> Absent]
Pending(op, old, new) == [com |-> old, op |-> op, new |-> new]
Closed == [pc |-> "closed", nx |-> None, lock |-> 0, made |-> FALSE, madeLedger |-> FALSE,
           madeLock |-> FALSE, first |-> TRUE, clean |-> Absent, base |-> Absent,
           tmp |-> Absent, tx |-> 0]

StateInit ==
    /\ db = Absent /\ ledger = NoLedger /\ lock = 0 /\ holder = None
    /\ jnl = <<<<Absent, NoLedger, 0>>>> /\ proc = [p \in Procs |-> Closed]
    /\ files = 0 /\ losses = 0 /\ acked = {}

-----------------------------------------------------------------------------
At(p, pc) == proc[p].pc = pc
Set(p, r) == proc' = [proc EXCEPT ![p] = r]
Renamed == jnl' = IF <<db', ledger', lock'>> = jnl[Len(jnl)] THEN jnl
                  ELSE Append(jnl, <<db', ledger', lock'>>)
Flushed == jnl' = <<<<db', ledger', lock'>>>>
\* After a rename the process flushes the directory, then goes on at nx.
ThenFlush(r, nx) == [r EXCEPT !.pc = "flush", !.nx = nx]

\* _reconcile_ledger: the file is the committed generation, or either side of an
\* interrupted replacement.
PosixResolves(d, l) ==
    \/ l.op = "no"
    \/ l.op = None /\ d = l.com
    \/ l.op = "replace" /\ d \in {l.com, l.new}

\* WindowsAtomicStateTransaction._recover: a removal may be interrupted too.
WindowsResolves(d, l) ==
    \/ l.op = "no"
    \/ l.op = None /\ d = l.com
    \/ l.op = "replace" /\ d \in {l.com, l.new}
    \/ l.op = "remove" /\ d \in {l.com, Absent}

Resolvable(d, l) == IF Windows THEN WindowsResolves(d, l) ELSE PosixResolves(d, l)

-----------------------------------------------------------------------------
(* Opening *)

\* The constructor takes the directory lock, then opens or creates the lock file.
OpenLock(p) ==
    /\ At(p, "closed") /\ holder = None /\ files < MaxFiles /\ holder' = p
    /\ LET made == ~Windows /\ lock = 0 IN
       /\ lock' = (IF made THEN files + 1 ELSE lock) /\ files' = files + (IF made THEN 1 ELSE 0)
       /\ Set(p, [Closed EXCEPT !.pc = "database", !.lock = lock', !.madeLock = made])
    /\ UNCHANGED <<db, ledger, losses, acked>> /\ Flushed

\* _open_database_file: O_CREAT | O_EXCL, flushed at once.
CreateDatabase(p) ==
    /\ At(p, "database") /\ ~Windows /\ db = Absent /\ files < MaxFiles
    /\ db' = [ino |-> files + 1, data |-> {}] /\ files' = files + 1
    /\ Set(p, [proc[p] EXCEPT !.pc = "ledger", !.made = TRUE, !.base = db'])
    /\ UNCHANGED <<ledger, lock, holder, losses, acked>> /\ Flushed

UseDatabase(p) ==
    /\ At(p, "database") /\ ~Windows /\ db # Absent
    /\ Set(p, [proc[p] EXCEPT !.pc = "ledger", !.base = db])
    /\ UNCHANGED <<db, ledger, lock, holder, jnl, files, losses, acked>>

\* The first ledger of an existing file, or the end of an interrupted replacement.
OpenLedger(p) ==
    /\ At(p, "ledger") /\ Resolvable(db, ledger)
    /\ ledger' = Settled(db)
    /\ Set(p, ThenFlush([proc[p] EXCEPT !.madeLedger = ledger.op = "no",
                                        !.clean = IF proc[p].made THEN db ELSE Absent], "opened"))
    /\ UNCHANGED <<db, lock, holder, files, losses, acked>> /\ Renamed

\* _WindowsPinnedSQLiteDatabase.__init__: recovery on entry, then an absent file
\* is published empty like any other generation.
OpenWindows(p) ==
    /\ At(p, "database") /\ Windows /\ Resolvable(db, ledger)
    /\ ledger' = IF db = Absent /\ ledger.op = "no" THEN ledger ELSE Settled(db)
    /\ Set(p, ThenFlush([proc[p] EXCEPT !.base = db],
                        IF db = Absent THEN "create" ELSE "opened"))
    /\ UNCHANGED <<db, lock, holder, files, losses, acked>> /\ Renamed

CreateWindows(p) ==
    /\ At(p, "create") /\ files < MaxFiles /\ files' = files + 1
    /\ LET new == [ino |-> files + 1, data |-> {}] IN
       /\ ledger' = Pending("replace", Absent, new)
       /\ Set(p, ThenFlush([proc[p] EXCEPT !.made = TRUE, !.clean = new, !.tmp = new], "replace"))
    /\ UNCHANGED <<db, lock, holder, losses, acked>> /\ Renamed

Opened(p) ==
    /\ At(p, "opened") /\ holder' = None
    /\ Set(p, [proc[p] EXCEPT !.pc = "idle", !.base = Absent, !.tmp = Absent])
    /\ UNCHANGED <<db, ledger, lock, jnl, files, losses, acked>>

\* A failure while opening.  The locks are released; a process that created the
\* database cleans up under them later, unless its ledger may have been published.
OpenFails(p) ==
    /\ proc[p].pc \in {"database", "ledger"} /\ holder' = None
    /\ \/ ~Resolvable(db, ledger) /\ proc[p].pc = (IF Windows THEN "database" ELSE "ledger")
       \/ FaultyCleanup
    /\ Set(p, IF proc[p].made \/ proc[p].madeLock THEN [proc[p] EXCEPT !.pc = "undo"] ELSE Closed)
    /\ UNCHANGED <<db, ledger, lock, jnl, files, losses, acked>>

\* The constructor's own cleanup: by identity of the file it created.
UndoOpen(p) ==
    /\ At(p, "undo") /\ holder = None
    /\ LET s == proc[p]
           mine == lock = s.lock /\ (~s.made \/ db = s.base)
       IN /\ db' = IF mine /\ s.made THEN Absent ELSE db
          /\ lock' = IF mine /\ s.madeLock THEN 0 ELSE lock
    /\ Set(p, Closed)
    /\ UNCHANGED <<ledger, holder, files, losses, acked>> /\ Flushed

-----------------------------------------------------------------------------
(* connect(): one transaction *)

\* Both locks, the paths, the current generation and its ledger.
Loadable(p) ==
    /\ (Windows \/ lock = proc[p].lock) /\ db # Absent
    /\ ledger.op # "no" /\ Resolvable(db, ledger)

Begin(p) ==
    /\ At(p, "idle") /\ holder = None /\ Loadable(p)
    /\ holder' = p /\ ledger' = Settled(db)
    /\ IF ledger.op = None
       THEN Set(p, [proc[p] EXCEPT !.pc = "body", !.base = db]) /\ UNCHANGED jnl
       ELSE Set(p, ThenFlush([proc[p] EXCEPT !.base = db], "body"))
            /\ jnl' = Append(jnl, <<db, ledger', lock>>)
    /\ UNCHANGED <<db, lock, files, losses, acked>>

BeginFails(p) ==
    /\ At(p, "idle") /\ holder = None /\ ~Loadable(p)
    /\ Set(p, IF proc[p].made /\ proc[p].first THEN [proc[p] EXCEPT !.pc = "remove"] ELSE Closed)
    /\ UNCHANGED <<db, ledger, lock, holder, jnl, files, losses, acked>>

\* The prepare record of _persist_generation and publish_bytes.
Prepared(p, new) == Pending("replace", proc[p].base, new)

\* The new content is in a flushed private file; the ledger names both generations.
Prepare(p) ==
    /\ At(p, "body") /\ files < MaxFiles /\ files' = files + 1
    /\ LET new == [ino |-> files + 1, data |-> proc[p].base.data \cup {files + 1}] IN
       /\ ledger' = Prepared(p, new)
       /\ Set(p, ThenFlush([proc[p] EXCEPT !.tmp = new, !.tx = files + 1], "replace"))
    /\ UNCHANGED <<db, lock, holder, losses, acked>> /\ Renamed

\* os.replace (replace_into) over the public name.
Replace(p) ==
    /\ At(p, "replace") /\ db = proc[p].base /\ db' = proc[p].tmp
    /\ Set(p, ThenFlush(proc[p], "commit"))
    /\ UNCHANGED <<ledger, lock, holder, files, losses, acked>> /\ Renamed

Commit(p) ==
    /\ At(p, "commit") /\ ledger' = Settled(proc[p].tmp)
    /\ Set(p, ThenFlush(proc[p], IF proc[p].tx = 0 THEN "opened" ELSE "done"))
    /\ UNCHANGED <<db, lock, holder, files, losses, acked>> /\ Renamed

\* Faulty variant: the directory is never flushed.
FlushSkipped(p) ==
    /\ At(p, "flush") /\ Set(p, [proc[p] EXCEPT !.pc = proc[p].nx, !.nx = None])
    /\ UNCHANGED <<db, ledger, lock, holder, jnl, files, losses, acked>>

\* os.fsync of the directory (flush_directory).
Flush(p) ==
    /\ At(p, "flush") /\ jnl' = <<<<db, ledger, lock>>>>
    /\ Set(p, [proc[p] EXCEPT !.pc = proc[p].nx, !.nx = None])
    /\ UNCHANGED <<db, ledger, lock, holder, files, losses, acked>>

\* connect returns: the transaction is acknowledged.
Done(p) ==
    /\ At(p, "done") /\ holder' = None /\ acked' = acked \cup {proc[p].tx}
    /\ Set(p, [proc[p] EXCEPT !.pc = "idle", !.first = FALSE, !.base = Absent, !.tmp = Absent,
                              !.tx = 0, !.clean = IF proc[p].made THEN proc[p].tmp ELSE Absent])
    /\ UNCHANGED <<db, ledger, lock, jnl, files, losses>>

\* The body raises, or changes nothing: nothing was published.
Abort(p) ==
    /\ At(p, "body") /\ holder' = None
    /\ \/ Set(p, [proc[p] EXCEPT !.pc = "idle", !.base = Absent])
       \/ Set(p, IF proc[p].made /\ proc[p].first THEN [proc[p] EXCEPT !.pc = "remove"] ELSE Closed)
    /\ UNCHANGED <<db, ledger, lock, jnl, files, losses, acked>>

\* An error while publishing.  After the prepare record it poisons the instance;
\* an initialisation that fails this way still closes with remove_created, a
\* failed open or removal leaves everything to the next process.
Poison(p) ==
    /\ proc[p].pc \in {"create", "replace", "commit", "flush", "delete", "settle"}
    /\ holder' = None
    /\ Set(p, IF proc[p].made /\ proc[p].first /\ proc[p].pc \notin {"delete", "settle"}
                  /\ (proc[p].tx # 0 \/ proc[p].nx = "body")
              THEN [proc[p] EXCEPT !.pc = "remove", !.tx = 0] ELSE Closed)
    /\ UNCHANGED <<db, ledger, lock, jnl, files, losses, acked>>

-----------------------------------------------------------------------------
(* close(remove_created=True) after a failed initialisation *)

\* Only the generation this process created or last wrote, settled in the ledger.
MayRemove(p) == Loadable(p) /\ db = proc[p].clean

RemoveRefused(p) ==
    /\ At(p, "remove") /\ holder = None /\ ~MayRemove(p)
    /\ ledger' = IF Loadable(p) THEN Settled(db) ELSE ledger
    /\ Set(p, Closed)
    /\ UNCHANGED <<db, lock, holder, files, losses, acked>> /\ Renamed

\* POSIX unlinks the database, then its ledger and lock file.
RemoveDatabase(p) ==
    /\ At(p, "remove") /\ ~Windows /\ holder = None /\ MayRemove(p)
    /\ db' = Absent /\ ledger' = Settled(db) /\ holder' = p
    /\ Set(p, [proc[p] EXCEPT !.pc = "unlink"])
    /\ UNCHANGED <<lock, files, losses, acked>> /\ Renamed

RemoveLedger(p) ==
    /\ At(p, "unlink")
    /\ ledger' = IF proc[p].madeLedger THEN NoLedger ELSE ledger
    /\ lock' = (IF proc[p].madeLock THEN 0 ELSE lock)
    /\ holder' = None /\ Set(p, Closed)
    /\ UNCHANGED <<db, files, losses, acked>> /\ Flushed

\* Windows records the removal, deletes and commits the absence.
PrepareRemove(p) ==
    /\ At(p, "remove") /\ Windows /\ holder = None /\ MayRemove(p)
    /\ ledger' = Pending("remove", db, Absent) /\ holder' = p
    /\ Set(p, ThenFlush(proc[p], "delete"))
    /\ UNCHANGED <<db, lock, files, losses, acked>> /\ Renamed

Delete(p) ==
    /\ At(p, "delete") /\ db' = Absent /\ Set(p, ThenFlush(proc[p], "settle"))
    /\ UNCHANGED <<ledger, lock, holder, files, losses, acked>> /\ Renamed

SettleRemove(p) ==
    /\ At(p, "settle") /\ ledger' = Settled(Absent) /\ holder' = None /\ Set(p, Closed)
    /\ UNCHANGED <<db, lock, files, losses, acked>> /\ Flushed

-----------------------------------------------------------------------------
\* A killed process: the kernel releases its lock, its renames stay.
Crash(p) ==
    /\ ~At(p, "closed") /\ (FaultyCleanup \/ proc[p].pc \notin {"unlink", "undo"})
    /\ holder' = (IF holder = p THEN None ELSE holder) /\ Set(p, Closed)
    /\ UNCHANGED <<db, ledger, lock, jnl, files, losses, acked>>

PowerLoss ==
    /\ losses < MaxPowerLoss /\ losses' = losses + 1
    /\ (FaultyCleanup \/ \A p \in Procs : proc[p].pc \notin {"unlink", "undo"})
    /\ \E i \in DOMAIN jnl :
          /\ db' = jnl[i][1] /\ ledger' = jnl[i][2] /\ lock' = jnl[i][3]
          /\ jnl' = <<jnl[i]>>
    /\ holder' = None /\ proc' = [p \in Procs |-> Closed]
    /\ UNCHANGED <<files, acked>>

StateNext ==
    \/ \E p \in Procs :
          \/ OpenLock(p) \/ CreateDatabase(p) \/ UseDatabase(p) \/ OpenLedger(p)
          \/ OpenWindows(p) \/ CreateWindows(p) \/ Opened(p) \/ OpenFails(p) \/ UndoOpen(p)
          \/ Begin(p) \/ BeginFails(p) \/ Prepare(p) \/ Replace(p) \/ Commit(p)
          \/ Flush(p) \/ Done(p) \/ Abort(p) \/ Poison(p)
          \/ RemoveRefused(p) \/ RemoveDatabase(p) \/ RemoveLedger(p)
          \/ PrepareRemove(p) \/ Delete(p) \/ SettleRemove(p) \/ Crash(p)
    \/ PowerLoss

StateSpec == StateInit /\ [][StateNext]_stateVars

-----------------------------------------------------------------------------
(* Properties *)

Data == IF db = Absent THEN {} ELSE db.data

\* Types of the state; only one process is between its lock and its release.
Inside == {"database", "ledger", "flush", "create", "opened", "body", "replace", "commit",
           "done", "unlink", "delete", "settle"}
StateTypeOK ==
    /\ \A p \in Procs : proc[p].pc \in Inside <=> holder = p
    /\ files \in 0..MaxFiles /\ jnl # <<>> /\ ledger.op \in {"no", None, "replace", "remove"}

\* A transaction whose connect() returned is in the database for ever: across
\* kills, power failures, recovery by another process, and the cleanup of a
\* creator whose own initialisation failed (_persist_generation, close).
AckedSurvives == acked \subseteq Data

\* Between any two critical sections, and after every crash, the file and its
\* ledger can be reconciled: the crash windows are deterministic on restart and
\* the next open succeeds (_reconcile_ledger, _recover).
Openable ==
    holder = None => Resolvable(db, ledger) /\ (Windows \/ db # Absent \/ ledger.op = "no")

\* A transaction whose connect() returned is in the database for ever, across
\* kills, power failures, recovery by another process and the cleanup of a
\* failed creator; and between any two critical sections, and after every
\* crash, file and ledger can be reconciled, so that the next open succeeds,
\* except on POSIX after a creator was killed between the two removals of its
\* cleanup (sqlite_safety.py; windows/atomic.py).
StateIsDurable ==
    /\ StateTypeOK /\ AckedSurvives
    /\ Windows \/ ~FaultyCleanup => Openable
=============================================================================
