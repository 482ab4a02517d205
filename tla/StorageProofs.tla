--------------------------- MODULE StorageProofs ---------------------------
(***************************************************************************)
(* Proofs about what is kept in files.  The state file under every store,  *)
(* for any number of processes, files, kills and power failures: no        *)
(* acknowledged transaction is lost and the next open succeeds.  Pinned    *)
(* directories, for any directories moved into the path and any number of  *)
(* descriptors: what is read is the approved directory's, and a descriptor *)
(* has one owner.                                                          *)
(***************************************************************************)
EXTENDS StateDatabase, PinnedDirectory, SequenceTheorems, WellFoundedInduction, TLAPS

(* A file, a ledger, a state a power failure may bring back, an instance. *)
Generation == [ino : Nat, data : SUBSET Nat]
LedgerRecord == [com : Generation, op : {"no", "none", "replace", "remove"}, new : Generation]
Entry == Generation \X LedgerRecord \X Nat
Later == {"opened", "create", "replace", "body", "commit", "done", "delete", "settle"}
Instance ==
    [pc : Inside \cup {"closed", "idle", "undo", "remove"}, nx : Later \cup {"none"}, lock : Nat,
     made : BOOLEAN, madeLedger : BOOLEAN, madeLock : BOOLEAN, first : BOOLEAN,
     clean : Generation, base : Generation, tmp : Generation, tx : Nat]

(* The shapes of the variables, as functions and records. *)
StateTypes ==
    /\ db \in Generation /\ ledger \in LedgerRecord /\ lock \in Nat
    /\ jnl \in Seq(Entry) /\ jnl # <<>>
    /\ proc \in [Procs -> Instance]
    /\ files \in 0..MaxFiles /\ acked \subseteq Nat
    /\ holder \in Procs \cup {None}
    /\ \A p \in Procs : proc[p].pc \in Inside <=> holder = p

(* Where the next open is promised to succeed. *)
Promised == Windows \/ ~FaultyCleanup
Reopens(d, l) == Resolvable(d, l) /\ (Windows \/ d # Absent \/ l.op = "no")
Cleaning == \E p \in Procs : proc[p].pc = "unlink"

(* What a file and its ledger must be at any moment a power failure may    *)
(* bring them back.                                                        *)
Safe(d, l) == acked \subseteq d.data /\ (Promised /\ ~Cleaning => Reopens(d, l))

(* Where an instance is, or will be after its flush. *)
Stage(r) == IF r.pc = "flush" THEN r.nx ELSE r.pc

(* What an instance knows without looking at the file. *)
OwnOK(r) ==
    /\ r.first => r.clean.data = {}
    /\ r.pc = "remove" => r.first
    /\ r.pc \in {"remove", "unlink"} => r.made
    /\ r.pc = "flush" => r.nx \in Later
    /\ r.pc = "database" => ~r.made /\ (Windows => ~r.madeLock)
    /\ Stage(r) \in {"database", "create"} => r.tx = 0
    /\ r.made /\ r.pc \in {"ledger", "undo"} => r.base.data = {}
    /\ Promised /\ ~Windows /\ r.made /\ r.pc \notin {"ledger", "undo"} => r.madeLedger
    /\ r.pc = "undo" => FaultyCleanup /\ ~Windows
    /\ r.pc \in {"ledger", "unlink"} => ~Windows
    /\ Stage(r) \in {"create", "delete", "settle"} => Windows

(* What the one instance with the lock knows of the file and its ledger. *)
HolderOK(r) ==
    /\ r.pc = "ledger" => /\ db # Absent /\ r.base = db
                          /\ Promised /\ r.made => ledger.op = "no"
    /\ Stage(r) = "create" => db = Absent /\ r.base = Absent
    /\ Stage(r) = "body" => db = r.base /\ db # Absent
    /\ Stage(r) = "replace" => ledger = Pending("replace", r.base, r.tmp)
    /\ Stage(r) = "replace" => r.tmp # Absent /\ r.base.data \subseteq r.tmp.data
    /\ Stage(r) \in {"commit", "done"} => db = r.tmp /\ r.tmp # Absent
    /\ Stage(r) \in {"replace", "commit"} /\ r.tx # 0 => r.tx \in r.tmp.data
    /\ Stage(r) = "done" => r.tx \in r.tmp.data
    /\ r.pc = "done" => \A i \in DOMAIN jnl : jnl[i] = <<db, ledger, lock>>
    /\ Stage(r) \in {"unlink", "settle"} => db = Absent
    /\ Stage(r) = "delete" => db.data = {} /\ ledger = Pending("remove", db, Absent)
    /\ Stage(r) = "settle" => ledger.op = "remove"

(* The file and its ledger are safe now and in every state a power failure *)
(* may bring back, and the one instance with the lock knows where it is    *)
(* between the two.                                                        *)
StateInv ==
    /\ StateTypes
    /\ Safe(db, ledger)
    /\ \A i \in DOMAIN jnl : Safe(jnl[i][1], jnl[i][2])
    /\ \A p \in Procs : OwnOK(proc[p])
    /\ \A p \in Procs : holder = p => HolderOK(proc[p])

USE DEF None, Later, Inside

(* The file, its ledger and the lock file, as a power failure finds them. *)
Current == <<db, ledger, lock>>

(* Every state a power failure may bring back after a step of p: the       *)
(* current one, or one it could have brought back before.                  *)
Journalled(p) ==
    /\ jnl' \in Seq(Entry) /\ jnl' # <<>>
    /\ \A i \in DOMAIN jnl' :
         \/ jnl'[i] = Current'
         \/ /\ acked' = acked /\ proc[p].pc # "unlink"
            /\ \E k \in DOMAIN jnl : jnl'[i] = jnl[k]

(* A step of one instance that has the lock, takes it, or works while it   *)
(* is free.                                                                *)
Turn(p) ==
    /\ proc'[p] \in Instance /\ proc' = [proc EXCEPT ![p] = proc'[p]]
    /\ holder \in {None, p} /\ holder' \in {None, p}
    /\ proc'[p].pc \in Inside <=> holder' = p

(* The shapes after a step. *)
Typed ==
    /\ db' \in Generation /\ ledger' \in LedgerRecord /\ lock' \in Nat
    /\ files' \in 0..MaxFiles /\ acked' \subseteq Nat

(* What was acknowledged is in the file, and the file can be opened. *)
SafeAfter(p) ==
    /\ acked' \subseteq db'.data
    /\ Promised /\ proc'[p].pc # "unlink" => Reopens(db', ledger')

(* A step that renames nothing leaves the journal as it is.                *)
LEMMA JournalSame ==
    ASSUME StateInv, NEW p \in Procs, UNCHANGED <<jnl, acked>>, proc[p].pc # "unlink"
    PROVE  Journalled(p)
  BY DEF StateInv, StateTypes, Journalled

(* A journal that grows, grows by the current state.                       *)
LEMMA JournalGrows ==
    ASSUME StateInv, NEW p \in Procs, UNCHANGED acked, proc[p].pc # "unlink", Typed,
           jnl' = jnl \/ jnl' = Append(jnl, <<db', ledger', lock'>>)
    PROVE  Journalled(p)
<1> DEFINE c == <<db', ledger', lock'>>
<1>1. c \in Entry
  BY DEF Entry, Typed
<1>2. jnl \in Seq(Entry) /\ jnl # <<>> /\ (jnl' = jnl \/ jnl' = Append(jnl, c))
  BY DEF StateInv, StateTypes
<1>3. CASE jnl' = jnl
  BY <1>2, <1>3 DEF Journalled
<1>4. CASE jnl' = Append(jnl, c)
  <2> HIDE DEF c
  <2>1. jnl' \in Seq(Entry) /\ jnl' # <<>> /\ DOMAIN jnl' = 1..(Len(jnl) + 1) /\ DOMAIN jnl = 1..Len(jnl)
    BY <1>1, <1>2, <1>4
  <2>2. \A i \in DOMAIN jnl' : jnl'[i] = c \/ (i \in DOMAIN jnl /\ jnl'[i] = jnl[i])
    <3>1. \A i \in 1..Len(jnl) : jnl'[i] = jnl[i]
      BY <1>1, <1>2, <1>4, AppendProperties
    <3>2. jnl'[Len(jnl) + 1] = c
      BY <1>1, <1>2, <1>4, AppendProperties
    <3>3. \A i \in DOMAIN jnl' : i \in 1..Len(jnl) \/ i = Len(jnl) + 1
      BY <1>2, <2>1
    <3> QED
      BY <2>1, <3>1, <3>2, <3>3
  <2>3. c = Current'
    BY DEF Current, c
  <2> QED
    BY <2>1, <2>2, <2>3 DEF Journalled
<1> QED
  BY <1>2, <1>3, <1>4

(* A rename adds the current state.                                        *)
LEMMA JournalRenamed ==
    ASSUME StateInv, NEW p \in Procs, UNCHANGED acked, proc[p].pc # "unlink", Renamed, Typed
    PROVE  Journalled(p)
  BY JournalGrows DEF Renamed

(* A flush leaves the current state only.                                  *)
LEMMA JournalFlushed ==
    ASSUME NEW p \in Procs, Flushed, Typed
    PROVE  Journalled(p)
<1> DEFINE c == <<db', ledger', lock'>>
<1>1. c \in Entry /\ jnl' = <<c>> /\ c = Current'
  BY DEF Entry, Typed, Flushed, Current
<1> HIDE DEF c
<1>2. jnl' \in Seq(Entry) /\ jnl' # <<>> /\ DOMAIN jnl' = {1} /\ jnl'[1] = c
  BY <1>1
<1> QED
  BY <1>1, <1>2 DEF Journalled

(* What a step of one instance has to show: the other instances are        *)
(* outside their critical sections, and every state a power failure may    *)
(* bring back is the current one or was covered before.                    *)
LEMMA TurnKeeps ==
    ASSUME StateAssumption, StateInv, NEW p \in Procs, Turn(p), Typed, Journalled(p),
           OwnOK(proc'[p]), SafeAfter(p), holder' = p => HolderOK(proc[p])'
    PROVE  StateInv'
<1>1. /\ proc' \in [Procs -> Instance]
      /\ \A q \in Procs : q # p => proc'[q] = proc[q] /\ proc[q].pc \notin Inside /\ holder # q /\ holder' # q
  BY DEF Turn, StateInv, StateTypes, StateAssumption
<1>2. StateTypes'
  BY <1>1 DEF Turn, Typed, Journalled, StateTypes
<1>3. (Cleaning <=> proc[p].pc = "unlink") /\ (Cleaning' <=> proc'[p].pc = "unlink")
  BY <1>1 DEF Cleaning
<1>4. Safe(db, ledger)'
  BY <1>3 DEF SafeAfter, Safe, Promised, Reopens, Resolvable, PosixResolves,
     WindowsResolves
<1>5. \A i \in DOMAIN jnl' : Safe(jnl[i][1], jnl[i][2])'
  <2> SUFFICES ASSUME NEW i \in DOMAIN jnl' PROVE Safe(jnl[i][1], jnl[i][2])'
    OBVIOUS
  <2>1. CASE jnl'[i] = Current'
    BY <1>4, <2>1 DEF Current
  <2>2. CASE acked' = acked /\ proc[p].pc # "unlink" /\ \E k \in DOMAIN jnl : jnl'[i] = jnl[k]
    <3>1. PICK k \in DOMAIN jnl : jnl'[i] = jnl[k]
      BY <2>2
    <3>2. Safe(jnl[k][1], jnl[k][2])
      BY DEF StateInv
    <3> QED
      BY <1>3, <2>2, <3>1, <3>2 DEF Safe, Promised, Reopens, Resolvable,
         PosixResolves, WindowsResolves
  <2> QED
    BY <2>1, <2>2 DEF Journalled
<1>6. \A q \in Procs : OwnOK(proc'[q])
  BY <1>1 DEF StateInv
<1>7. \A q \in Procs : holder' = q => HolderOK(proc[q])'
  BY <1>1
<1> QED
  BY <1>2, <1>4, <1>5, <1>6, <1>7 DEF StateInv, OwnOK, Stage, Promised

(* An instance that is closed owns nothing.                                *)
LEMMA ClosedIsInstance == Closed \in Instance /\ OwnOK(Closed)
  BY DEF Closed, Absent, Generation, Instance, OwnOK, Stage

(* A step that leaves instance r at p. *)
LEMMA SetIsTurn ==
    ASSUME StateAssumption, StateInv, NEW p \in Procs, NEW r \in Instance, Set(p, r), holder \in {None, p},
           holder' \in {None, p}, r.pc \in Inside <=> holder' = p
    PROVE  Turn(p) /\ proc'[p] = r
<1>1. proc'[p] = r
  BY DEF Set, StateInv, StateTypes
<1> QED
  BY <1>1 DEF Turn, Set

(* Nobody is in its cleanup while the lock is free. *)
LEMMA FreeIsWhole ==
    ASSUME StateAssumption, StateInv, holder = None
    PROVE  ~Cleaning
  BY DEF StateAssumption, StateInv, StateTypes, Cleaning

(* A step that leaves the file and its ledger leaves them safe.            *)
LEMMA SafeSame ==
    ASSUME StateInv, ~Cleaning, NEW p \in Procs, UNCHANGED <<db, ledger, acked>>
    PROVE  SafeAfter(p)
  BY DEF StateInv, Safe, SafeAfter

(* The constructor takes the locks.                                        *)
LEMMA OpenLockKeeps ==
    ASSUME StateAssumption, StateInv, NEW p \in Procs, OpenLock(p)
    PROVE  StateInv'
<1>1. Typed
  BY SMTT(30) DEF Typed, Instance, StateInv, StateTypes, StateAssumption, OpenLock, Absent,
     Generation, LedgerRecord, At, Set
<1> DEFINE r == [Closed EXCEPT !.pc = "database", !.lock = lock', !.madeLock = ~Windows /\ lock = 0]
<1>a. r \in Instance
  <2>1. /\ proc[p] \in Instance /\ Closed \in Instance /\ Absent \in Generation
        /\ db \in Generation /\ db' \in Generation /\ files + 1 \in Nat /\ lock' \in Nat
    BY <1>1, ClosedIsInstance DEF Typed, Absent, Generation, StateInv, StateTypes
  <2> QED
    BY <2>1 DEF Instance, ThenFlush
<1>b. Set(p, r)
  BY DEF OpenLock
<1>2. Turn(p) /\ proc'[p] = r
  <2>1. r.pc = "database"
    BY DEF Instance, ThenFlush, Closed, StateInv, StateTypes
  <2>2. holder \in {None, p} /\ holder' = p
    BY DEF OpenLock, At, StateInv, StateTypes
  <2> HIDE DEF r
  <2> QED
    BY <1>a, <1>b, <2>1, <2>2, SetIsTurn DEF StateAssumption
<1> HIDE DEF r
<1>3. Journalled(p)
  BY <1>1, JournalFlushed DEF OpenLock, At
<1>4. OwnOK(proc'[p])
  <2>1. /\ r.pc = "database" /\ r.first /\ ~r.made /\ (Windows => ~r.madeLock)
        /\ r.clean = Absent /\ r.tx = 0
    BY DEF r, Closed
  <2> QED
    BY <1>2, <2>1 DEF OwnOK, Stage, Absent
<1>5. SafeAfter(p)
  BY FreeIsWhole, SafeSame DEF OpenLock
<1>6. holder' = p => HolderOK(proc[p])'
  BY DEF HolderOK, OwnOK, Stage, Safe, Cleaning, Promised, Reopens, Instance,
     StateInv, StateTypes, StateAssumption, OpenLock, Absent, Generation, LedgerRecord,
     At, Set, Closed
<1> QED
  BY <1>1, <1>2, <1>3, <1>4, <1>5, <1>6, TurnKeeps

(* A database is created where none was: nothing was acknowledged.         *)
LEMMA CreateDatabaseKeeps ==
    ASSUME StateAssumption, StateInv, NEW p \in Procs, CreateDatabase(p)
    PROVE  StateInv'
<1>1. Typed
  BY SMTT(30) DEF Typed, Instance, StateInv, StateTypes, StateAssumption, CreateDatabase,
     Absent, Generation, LedgerRecord, At, Set
<1> DEFINE r == [proc[p] EXCEPT !.pc = "ledger", !.made = TRUE, !.base = db']
<1>a. r \in Instance
  <2>1. /\ proc[p] \in Instance /\ Closed \in Instance /\ Absent \in Generation
        /\ db \in Generation /\ db' \in Generation /\ files + 1 \in Nat /\ lock' \in Nat
    BY <1>1, ClosedIsInstance DEF Typed, Absent, Generation, StateInv, StateTypes
  <2> QED
    BY <2>1 DEF Instance, ThenFlush
<1>b. Set(p, r)
  BY DEF CreateDatabase
<1>2. Turn(p) /\ proc'[p] = r
  <2>1. r.pc = "ledger"
    BY DEF Instance, ThenFlush, Closed, StateInv, StateTypes
  <2>2. holder \in {None, p} /\ holder' = p
    BY DEF CreateDatabase, At, StateInv, StateTypes
  <2> HIDE DEF r
  <2> QED
    BY <1>a, <1>b, <2>1, <2>2, SetIsTurn DEF StateAssumption
<1> HIDE DEF r
<1>3. Journalled(p)
  BY <1>1, JournalFlushed DEF CreateDatabase, At
<1>4. OwnOK(proc'[p])
  BY DEF OwnOK, HolderOK, Stage, Promised, Safe, Reopens, Instance, StateInv,
     StateTypes, CreateDatabase, Absent, Generation, LedgerRecord, At, Set
<1>5. SafeAfter(p)
  BY DEF SafeAfter, OwnOK, HolderOK, Stage, Safe, Cleaning, Promised, Reopens,
     Resolvable, PosixResolves, WindowsResolves, Instance, StateInv, StateTypes,
     CreateDatabase, Absent, Generation, LedgerRecord, At, Set
<1>6. holder' = p => HolderOK(proc[p])'
  BY DEF HolderOK, OwnOK, Stage, Safe, Cleaning, Promised, Reopens, Instance,
     StateInv, StateTypes, StateAssumption, CreateDatabase, Absent, Generation,
     LedgerRecord, At, Set
<1> QED
  BY <1>1, <1>2, <1>3, <1>4, <1>5, <1>6, TurnKeeps

(* An existing database is opened.                                         *)
LEMMA UseDatabaseKeeps ==
    ASSUME StateAssumption, StateInv, NEW p \in Procs, UseDatabase(p)
    PROVE  StateInv'
<1>1. Typed
  BY DEF Typed, Instance, StateInv, StateTypes, StateAssumption, UseDatabase,
     Absent, Generation, LedgerRecord, At, Set
<1> DEFINE r == [proc[p] EXCEPT !.pc = "ledger", !.base = db]
<1>a. r \in Instance
  <2>1. /\ proc[p] \in Instance /\ Closed \in Instance /\ Absent \in Generation
        /\ db \in Generation /\ db' \in Generation /\ files + 1 \in Nat /\ lock' \in Nat
    BY <1>1, ClosedIsInstance DEF Typed, Absent, Generation, StateInv, StateTypes
  <2> QED
    BY <2>1 DEF Instance, ThenFlush
<1>b. Set(p, r)
  BY DEF UseDatabase
<1>2. Turn(p) /\ proc'[p] = r
  <2>1. r.pc = "ledger"
    BY DEF Instance, ThenFlush, Closed, StateInv, StateTypes
  <2>2. holder \in {None, p} /\ holder' = p
    BY DEF UseDatabase, At, StateInv, StateTypes
  <2> HIDE DEF r
  <2> QED
    BY <1>a, <1>b, <2>1, <2>2, SetIsTurn DEF StateAssumption
<1> HIDE DEF r
<1>3. Journalled(p)
  BY <1>1, JournalSame DEF UseDatabase, At
<1>4. OwnOK(proc'[p])
  BY DEF OwnOK, HolderOK, Stage, Promised, Safe, Reopens, Instance, StateInv,
     StateTypes, UseDatabase, Absent, Generation, LedgerRecord, At, Set
<1>5. SafeAfter(p)
  BY DEF SafeAfter, OwnOK, HolderOK, Stage, Safe, Cleaning, Promised, Reopens,
     Resolvable, PosixResolves, WindowsResolves, Instance, StateInv, StateTypes,
     UseDatabase, Absent, Generation, LedgerRecord, At, Set
<1>6. holder' = p => HolderOK(proc[p])'
  BY DEF HolderOK, OwnOK, Stage, Safe, Cleaning, Promised, Reopens, Instance,
     StateInv, StateTypes, StateAssumption, UseDatabase, Absent, Generation,
     LedgerRecord, At, Set
<1> QED
  BY <1>1, <1>2, <1>3, <1>4, <1>5, <1>6, TurnKeeps

(* The ledger is settled on the file that is there.                        *)
LEMMA OpenLedgerKeeps ==
    ASSUME StateAssumption, StateInv, NEW p \in Procs, OpenLedger(p)
    PROVE  StateInv'
<1>1. Typed
  BY DEF Typed, Instance, StateInv, StateTypes, StateAssumption, OpenLedger, Absent,
     Generation, LedgerRecord, At, Set, Settled
<1> DEFINE r == ThenFlush([proc[p] EXCEPT !.madeLedger = ledger.op = "no",
                                        !.clean = IF proc[p].made THEN db ELSE Absent], "opened")
<1>a. r \in Instance
  <2>1. /\ proc[p] \in Instance /\ Closed \in Instance /\ Absent \in Generation
        /\ db \in Generation /\ db' \in Generation /\ files + 1 \in Nat /\ lock' \in Nat
    BY <1>1, ClosedIsInstance DEF Typed, Absent, Generation, StateInv, StateTypes
  <2> QED
    BY ZenonT(60), <2>1 DEF Instance, ThenFlush
<1>b. Set(p, r)
  BY DEF OpenLedger
<1>2. Turn(p) /\ proc'[p] = r
  <2>1. r.pc = "flush"
    BY DEF Instance, ThenFlush, Closed, StateInv, StateTypes
  <2>2. holder \in {None, p} /\ holder' = p
    BY DEF OpenLedger, At, StateInv, StateTypes
  <2> HIDE DEF r
  <2> QED
    BY <1>a, <1>b, <2>1, <2>2, SetIsTurn DEF StateAssumption
<1> HIDE DEF r
<1>3. Journalled(p)
  BY <1>1, JournalRenamed DEF OpenLedger, At
<1>4. OwnOK(proc'[p])
  BY DEF OwnOK, HolderOK, Stage, Promised, Safe, Reopens, Instance, StateInv,
     StateTypes, OpenLedger, Absent, Generation, LedgerRecord, At, Set, ThenFlush,
     Settled
<1>5. SafeAfter(p)
  BY DEF SafeAfter, OwnOK, HolderOK, Stage, Safe, Cleaning, Promised, Reopens,
     Resolvable, PosixResolves, WindowsResolves, Instance, StateInv, StateTypes,
     OpenLedger, Absent, Generation, LedgerRecord, At, Set, ThenFlush, Settled
<1>6. holder' = p => HolderOK(proc[p])'
  BY DEF HolderOK, OwnOK, Stage, Safe, Cleaning, Promised, Reopens, Instance,
     StateInv, StateTypes, StateAssumption, OpenLedger, Absent, Generation,
     LedgerRecord, At, Set, ThenFlush, Settled
<1> QED
  BY <1>1, <1>2, <1>3, <1>4, <1>5, <1>6, TurnKeeps

(* Recovery on entry settles on the file that is there.                    *)
LEMMA OpenWindowsKeeps ==
    ASSUME StateAssumption, StateInv, NEW p \in Procs, OpenWindows(p)
    PROVE  StateInv'
<1>1. Typed
  BY DEF Typed, Instance, StateInv, StateTypes, StateAssumption, OpenWindows,
     Absent, Generation, LedgerRecord, At, Set, Settled
<1> DEFINE r == ThenFlush([proc[p] EXCEPT !.base = db], IF db = Absent THEN "create" ELSE "opened")
<1>a. r \in Instance
  <2>1. /\ proc[p] \in Instance /\ Closed \in Instance /\ Absent \in Generation
        /\ db \in Generation /\ db' \in Generation /\ files + 1 \in Nat /\ lock' \in Nat
    BY <1>1, ClosedIsInstance DEF Typed, Absent, Generation, StateInv, StateTypes
  <2> QED
    BY <2>1 DEF Instance, ThenFlush
<1>b. Set(p, r)
  BY DEF OpenWindows
<1>2. Turn(p) /\ proc'[p] = r
  <2>1. r.pc = "flush"
    BY DEF Instance, ThenFlush, Closed, StateInv, StateTypes
  <2>2. holder \in {None, p} /\ holder' = p
    BY DEF OpenWindows, At, StateInv, StateTypes
  <2> HIDE DEF r
  <2> QED
    BY <1>a, <1>b, <2>1, <2>2, SetIsTurn DEF StateAssumption
<1> HIDE DEF r
<1>3. Journalled(p)
  BY <1>1, JournalRenamed DEF OpenWindows, At
<1>4. OwnOK(proc'[p])
  BY DEF OwnOK, HolderOK, Stage, Promised, Safe, Reopens, Instance, StateInv,
     StateTypes, OpenWindows, Absent, Generation, LedgerRecord, At, Set, ThenFlush,
     Settled
<1>5. SafeAfter(p)
  BY DEF SafeAfter, OwnOK, HolderOK, Stage, Safe, Cleaning, Promised, Reopens,
     Resolvable, PosixResolves, WindowsResolves, Instance, StateInv, StateTypes,
     OpenWindows, Absent, Generation, LedgerRecord, At, Set, ThenFlush, Settled
<1>6. holder' = p => HolderOK(proc[p])'
  BY DEF HolderOK, OwnOK, Stage, Safe, Cleaning, Promised, Reopens, Instance,
     StateInv, StateTypes, StateAssumption, OpenWindows, Absent, Generation,
     LedgerRecord, At, Set, ThenFlush, Settled
<1> QED
  BY <1>1, <1>2, <1>3, <1>4, <1>5, <1>6, TurnKeeps

(* The empty first generation is prepared.                                 *)
LEMMA CreateWindowsKeeps ==
    ASSUME StateAssumption, StateInv, NEW p \in Procs, CreateWindows(p)
    PROVE  StateInv'
<1>1. Typed
  BY SMTT(30) DEF Typed, Instance, StateInv, StateTypes, StateAssumption, CreateWindows,
     Absent, Generation, LedgerRecord, At, Set, Pending
<1> DEFINE r == ThenFlush([proc[p] EXCEPT !.made = TRUE, !.clean = [ino |-> files + 1, data |-> {}],
                             !.tmp = [ino |-> files + 1, data |-> {}]], "replace")
<1>a. r \in Instance
  <2>1. /\ proc[p] \in Instance /\ Closed \in Instance /\ Absent \in Generation
        /\ db \in Generation /\ db' \in Generation /\ files + 1 \in Nat /\ lock' \in Nat
    BY <1>1, ClosedIsInstance DEF Typed, Absent, Generation, StateInv, StateTypes
  <2>2. [ino |-> files + 1, data |-> {}] \in Generation
    BY <2>1 DEF Instance, Generation
  <2> QED
    BY <2>1, <2>2 DEF Instance, ThenFlush
<1>b. Set(p, r)
  BY DEF CreateWindows
<1>2. Turn(p) /\ proc'[p] = r
  <2>1. r.pc = "flush"
    BY DEF Instance, ThenFlush, Closed, StateInv, StateTypes
  <2>2. holder \in {None, p} /\ holder' = p
    BY DEF CreateWindows, At, StateInv, StateTypes
  <2> HIDE DEF r
  <2> QED
    BY <1>a, <1>b, <2>1, <2>2, SetIsTurn DEF StateAssumption
<1> HIDE DEF r
<1>3. Journalled(p)
  BY <1>1, JournalRenamed DEF CreateWindows, At
<1>4. OwnOK(proc'[p])
  BY DEF OwnOK, HolderOK, Stage, Promised, Safe, Reopens, Instance, StateInv,
     StateTypes, CreateWindows, Absent, Generation, LedgerRecord, At, Set, ThenFlush,
     Pending
<1>5. SafeAfter(p)
  BY DEF SafeAfter, OwnOK, HolderOK, Stage, Safe, Cleaning, Promised, Reopens,
     Resolvable, PosixResolves, WindowsResolves, Instance, StateInv, StateTypes,
     CreateWindows, Absent, Generation, LedgerRecord, At, Set, ThenFlush, Pending
<1>6. holder' = p => HolderOK(proc[p])'
  <2>1. /\ r.pc = "flush" /\ r.nx = "replace" /\ r.base = Absent /\ r.tx = 0
        /\ r.tmp = [ino |-> files + 1, data |-> {}]
        /\ ledger' = Pending("replace", Absent, r.tmp)
    BY DEF r, ThenFlush, Instance, CreateWindows, At, StateInv, StateTypes,
       HolderOK, OwnOK, Stage
  <2>2. r.tmp # Absent /\ Absent.data = {}
    BY <2>1 DEF Absent, StateInv, StateTypes
  <2> QED
    BY <1>2, <2>1, <2>2 DEF HolderOK, Stage
<1> QED
  BY <1>1, <1>2, <1>3, <1>4, <1>5, <1>6, TurnKeeps

(* The locks are released.                                                 *)
LEMMA OpenedKeeps ==
    ASSUME StateAssumption, StateInv, NEW p \in Procs, Opened(p)
    PROVE  StateInv'
<1>1. Typed
  BY DEF Typed, Instance, StateInv, StateTypes, StateAssumption, Opened, Absent,
     Generation, LedgerRecord, At, Set
<1> DEFINE r == [proc[p] EXCEPT !.pc = "idle", !.base = Absent, !.tmp = Absent]
<1>a. r \in Instance
  <2>1. /\ proc[p] \in Instance /\ Closed \in Instance /\ Absent \in Generation
        /\ db \in Generation /\ db' \in Generation /\ files + 1 \in Nat /\ lock' \in Nat
    BY <1>1, ClosedIsInstance DEF Typed, Absent, Generation, StateInv, StateTypes
  <2> QED
    BY <2>1 DEF Instance, ThenFlush
<1>b. Set(p, r)
  BY DEF Opened
<1>2. Turn(p) /\ proc'[p] = r
  <2>1. r.pc = "idle"
    BY DEF Instance, ThenFlush, Closed, StateInv, StateTypes
  <2>2. holder \in {None, p} /\ holder' = None
    BY DEF Opened, At, StateInv, StateTypes
  <2> HIDE DEF r
  <2> QED
    BY <1>a, <1>b, <2>1, <2>2, SetIsTurn DEF StateAssumption
<1> HIDE DEF r
<1>3. Journalled(p)
  BY <1>1, JournalSame DEF Opened, At
<1>4. OwnOK(proc'[p])
  BY DEF OwnOK, HolderOK, Stage, Promised, Safe, Reopens, Instance, StateInv,
     StateTypes, Opened, Absent, Generation, LedgerRecord, At, Set
<1>5. SafeAfter(p)
  BY DEF SafeAfter, OwnOK, HolderOK, Stage, Safe, Cleaning, Promised, Reopens,
     Resolvable, PosixResolves, WindowsResolves, Instance, StateInv, StateTypes,
     Opened, Absent, Generation, LedgerRecord, At, Set
<1>6. holder' = p => HolderOK(proc[p])'
  BY DEF HolderOK, OwnOK, Stage, Safe, Cleaning, Promised, Reopens, Instance,
     StateInv, StateTypes, StateAssumption, Opened, Absent, Generation, LedgerRecord,
     At, Set
<1> QED
  BY <1>1, <1>2, <1>3, <1>4, <1>5, <1>6, TurnKeeps

(* An open fails: unless cleanups are cut short, only one that the         *)
(* invariant excludes.                                                     *)
LEMMA OpenFailsKeeps ==
    ASSUME StateAssumption, StateInv, NEW p \in Procs, OpenFails(p)
    PROVE  StateInv'
<1>1. Typed
  BY DEF Typed, Instance, StateInv, StateTypes, StateAssumption, OpenFails, Absent,
     Generation, LedgerRecord, Set
<1> DEFINE r == IF proc[p].made \/ proc[p].madeLock THEN [proc[p] EXCEPT !.pc = "undo"] ELSE Closed
<1>a. r \in Instance
  <2>1. /\ proc[p] \in Instance /\ Closed \in Instance /\ Absent \in Generation
        /\ db \in Generation /\ db' \in Generation /\ files + 1 \in Nat /\ lock' \in Nat
    BY <1>1, ClosedIsInstance DEF Typed, Absent, Generation, StateInv, StateTypes
  <2> QED
    BY <2>1 DEF Instance, ThenFlush
<1>b. Set(p, r)
  BY DEF OpenFails
<1>2. Turn(p) /\ proc'[p] = r
  <2>1. r.pc \in {"undo", "closed"}
    BY DEF Instance, ThenFlush, Closed, StateInv, StateTypes
  <2>2. holder \in {None, p} /\ holder' = None
    BY DEF OpenFails, At, StateInv, StateTypes
  <2> HIDE DEF r
  <2> QED
    BY <1>a, <1>b, <2>1, <2>2, SetIsTurn DEF StateAssumption
<1> HIDE DEF r
<1>3. Journalled(p)
  BY <1>1, JournalSame DEF OpenFails, At
<1>4. OwnOK(proc'[p])
  <2>1. CASE r = Closed
    BY <1>2, <2>1, ClosedIsInstance
  <2>2. CASE r = [proc[p] EXCEPT !.pc = "undo"] /\ (proc[p].made \/ proc[p].madeLock)
    <3>1. ~Cleaning
      BY DEF OpenFails, StateInv, StateTypes, Cleaning
    <3>2. ~Windows
      BY <2>2 DEF OpenFails, StateInv, OwnOK
    <3>3. FaultyCleanup
      BY <3>1, <3>2 DEF OpenFails, StateInv, Safe, Promised, Reopens
    <3>4. proc[p] \in Instance /\ OwnOK(proc[p]) /\ proc[p].pc \in {"database", "ledger"}
      BY DEF OpenFails, StateInv, StateTypes
    <3>5. /\ r.pc = "undo" /\ r.first = proc[p].first /\ r.clean = proc[p].clean
          /\ r.made = proc[p].made /\ r.base = proc[p].base
      BY <2>2, <3>4 DEF Instance
    <3> QED
      BY <1>2, <3>2, <3>3, <3>4, <3>5 DEF OwnOK, Stage, Promised
  <2> QED
    BY <2>1, <2>2 DEF r
<1>5. SafeAfter(p)
  BY DEF SafeAfter, OwnOK, HolderOK, Stage, Safe, Cleaning, Promised, Reopens,
     Resolvable, PosixResolves, WindowsResolves, Instance, StateInv, StateTypes,
     OpenFails, Absent, Generation, LedgerRecord, Set, Closed
<1>6. holder' = p => HolderOK(proc[p])'
  BY DEF HolderOK, OwnOK, Stage, Safe, Cleaning, Promised, Reopens, Instance,
     StateInv, StateTypes, StateAssumption, OpenFails, Absent, Generation,
     LedgerRecord, Set, Closed
<1> QED
  BY <1>1, <1>2, <1>3, <1>4, <1>5, <1>6, TurnKeeps

(* The constructor removes the empty file it created, and nothing else.    *)
LEMMA UndoOpenKeeps ==
    ASSUME StateAssumption, StateInv, NEW p \in Procs, UndoOpen(p)
    PROVE  StateInv'
<1>1. Typed
  BY DEF Typed, Instance, StateInv, StateTypes, StateAssumption, UndoOpen, Absent,
     Generation, LedgerRecord, At, Set
<1> DEFINE r == Closed
<1>a. r \in Instance
  <2>1. /\ proc[p] \in Instance /\ Closed \in Instance /\ Absent \in Generation
        /\ db \in Generation /\ db' \in Generation /\ files + 1 \in Nat /\ lock' \in Nat
    BY <1>1, ClosedIsInstance DEF Typed, Absent, Generation, StateInv, StateTypes
  <2> QED
    BY <2>1 DEF Instance, ThenFlush
<1>b. Set(p, r)
  BY DEF UndoOpen
<1>2. Turn(p) /\ proc'[p] = r
  <2>1. r.pc = "closed"
    BY DEF Instance, ThenFlush, Closed, StateInv, StateTypes
  <2>2. holder \in {None, p} /\ holder' = None
    BY DEF UndoOpen, At, StateInv, StateTypes
  <2> HIDE DEF r
  <2> QED
    BY <1>a, <1>b, <2>1, <2>2, SetIsTurn DEF StateAssumption
<1> HIDE DEF r
<1>3. Journalled(p)
  BY <1>1, JournalFlushed DEF UndoOpen, At
<1>4. OwnOK(proc'[p])
  BY DEF OwnOK, HolderOK, Stage, Promised, Safe, Reopens, Instance, StateInv,
     StateTypes, UndoOpen, Absent, Generation, LedgerRecord, At, Set, Closed
<1>5. SafeAfter(p)
  BY DEF SafeAfter, OwnOK, HolderOK, Stage, Safe, Cleaning, Promised, Reopens,
     Resolvable, PosixResolves, WindowsResolves, Instance, StateInv, StateTypes,
     UndoOpen, Absent, Generation, LedgerRecord, At, Set, Closed
<1>6. holder' = p => HolderOK(proc[p])'
  BY DEF HolderOK, OwnOK, Stage, Safe, Cleaning, Promised, Reopens, Instance,
     StateInv, StateTypes, StateAssumption, UndoOpen, Absent, Generation, LedgerRecord,
     At, Set, Closed
<1> QED
  BY <1>1, <1>2, <1>3, <1>4, <1>5, <1>6, TurnKeeps

(* A transaction takes the locks and settles the ledger.                   *)
LEMMA BeginKeeps ==
    ASSUME StateAssumption, StateInv, NEW p \in Procs, Begin(p)
    PROVE  StateInv'
<1>1. Typed
  BY DEF Typed, Instance, StateInv, StateTypes, StateAssumption, Begin, Absent,
     Generation, LedgerRecord, At, Set, Settled, Loadable
<1> DEFINE r == IF ledger.op = None THEN [proc[p] EXCEPT !.pc = "body", !.base = db]
                ELSE ThenFlush([proc[p] EXCEPT !.base = db], "body")
<1>a. r \in Instance
  <2>1. /\ proc[p] \in Instance /\ Closed \in Instance /\ Absent \in Generation
        /\ db \in Generation /\ db' \in Generation /\ files + 1 \in Nat /\ lock' \in Nat
    BY <1>1, ClosedIsInstance DEF Typed, Absent, Generation, StateInv, StateTypes
  <2> QED
    BY <2>1 DEF Instance, ThenFlush
<1>b. Set(p, r)
  BY DEF Begin
<1>2. Turn(p) /\ proc'[p] = r
  <2>1. r.pc \in {"body", "flush"}
    BY DEF Instance, ThenFlush, Closed, StateInv, StateTypes
  <2>2. holder \in {None, p} /\ holder' = p
    BY DEF Begin, At, StateInv, StateTypes
  <2> HIDE DEF r
  <2> QED
    BY <1>a, <1>b, <2>1, <2>2, SetIsTurn DEF StateAssumption
<1> HIDE DEF r
<1>3. Journalled(p)
  BY <1>1, JournalGrows DEF Begin, At
<1>4. OwnOK(proc'[p])
  <2>1. /\ r.first = proc[p].first /\ r.clean = proc[p].clean /\ r.made = proc[p].made
        /\ r.madeLedger = proc[p].madeLedger /\ Stage(r) = "body" /\ r.pc \in {"body", "flush"}
    BY DEF r, ThenFlush, Stage, Instance, StateInv, StateTypes
  <2>2. OwnOK(proc[p]) /\ proc[p].pc = "idle"
    BY DEF Begin, At, StateInv
  <2> QED
    BY <1>2, <2>1, <2>2 DEF OwnOK, Stage
<1>5. SafeAfter(p)
  BY DEF SafeAfter, OwnOK, HolderOK, Stage, Safe, Cleaning, Promised, Reopens,
     Resolvable, PosixResolves, WindowsResolves, Instance, StateInv, StateTypes, Begin,
     Absent, Generation, LedgerRecord, At, Set, ThenFlush, Settled, Loadable
<1>6. holder' = p => HolderOK(proc[p])'
  <2>1. Stage(r) = "body" /\ r.pc \in {"body", "flush"} /\ r.base = db
    BY DEF r, ThenFlush, Stage, Instance, StateInv, StateTypes
  <2>2. db # Absent /\ db' = db
    BY DEF Begin, Loadable
  <2> QED
    BY <1>2, <2>1, <2>2 DEF HolderOK
<1> QED
  BY <1>1, <1>2, <1>3, <1>4, <1>5, <1>6, TurnKeeps

(* A transaction that cannot begin changes no file.                        *)
LEMMA BeginFailsKeeps ==
    ASSUME StateAssumption, StateInv, NEW p \in Procs, BeginFails(p)
    PROVE  StateInv'
<1>1. Typed
  BY DEF Typed, Instance, StateInv, StateTypes, StateAssumption, BeginFails, Absent,
     Generation, LedgerRecord, At, Set, Loadable
<1> DEFINE r == IF proc[p].made /\ proc[p].first THEN [proc[p] EXCEPT !.pc = "remove"] ELSE Closed
<1>a. r \in Instance
  <2>1. /\ proc[p] \in Instance /\ Closed \in Instance /\ Absent \in Generation
        /\ db \in Generation /\ db' \in Generation /\ files + 1 \in Nat /\ lock' \in Nat
    BY <1>1, ClosedIsInstance DEF Typed, Absent, Generation, StateInv, StateTypes
  <2> QED
    BY <2>1 DEF Instance, ThenFlush
<1>b. Set(p, r)
  BY DEF BeginFails
<1>2. Turn(p) /\ proc'[p] = r
  <2>1. r.pc \in {"remove", "closed"}
    BY DEF Instance, ThenFlush, Closed, StateInv, StateTypes
  <2>2. holder \in {None, p} /\ holder' = None
    BY DEF BeginFails, At, StateInv, StateTypes
  <2> HIDE DEF r
  <2> QED
    BY <1>a, <1>b, <2>1, <2>2, SetIsTurn DEF StateAssumption
<1> HIDE DEF r
<1>3. Journalled(p)
  BY <1>1, JournalSame DEF BeginFails, At
<1>4. OwnOK(proc'[p])
  BY DEF OwnOK, HolderOK, Stage, Promised, Safe, Reopens, Instance, StateInv,
     StateTypes, BeginFails, Absent, Generation, LedgerRecord, At, Set, Closed,
     Loadable
<1>5. SafeAfter(p)
  BY FreeIsWhole, SafeSame DEF BeginFails
<1>6. holder' = p => HolderOK(proc[p])'
  BY DEF HolderOK, OwnOK, Stage, Safe, Cleaning, Promised, Reopens, Instance,
     StateInv, StateTypes, StateAssumption, BeginFails, Absent, Generation,
     LedgerRecord, At, Set, Closed, Loadable
<1> QED
  BY <1>1, <1>2, <1>3, <1>4, <1>5, <1>6, TurnKeeps

(* The ledger names the file that is there and the one to come.            *)
LEMMA PrepareKeeps ==
    ASSUME StateAssumption, StateInv, NEW p \in Procs, Prepare(p)
    PROVE  StateInv'
<1>1. Typed
  BY SMTT(30) DEF Typed, Instance, StateInv, StateTypes, StateAssumption, Prepare, Absent,
     Generation, LedgerRecord, At, Set, Pending, Prepared
<1> DEFINE r == ThenFlush([proc[p] EXCEPT !.tmp = [ino |-> files + 1, data |-> proc[p].base.data \cup {files + 1}],
                                    !.tx = files + 1], "replace")
<1>a. r \in Instance
  <2>1. /\ proc[p] \in Instance /\ Closed \in Instance /\ Absent \in Generation
        /\ db \in Generation /\ db' \in Generation /\ files + 1 \in Nat /\ lock' \in Nat
    BY <1>1, ClosedIsInstance DEF Typed, Absent, Generation, StateInv, StateTypes
  <2>2. [ino |-> files + 1, data |-> proc[p].base.data \cup {files + 1}] \in Generation
    BY <2>1 DEF Instance, Generation
  <2> QED
    BY <2>1, <2>2 DEF Instance, ThenFlush
<1>b. Set(p, r)
  BY DEF Prepare
<1>2. Turn(p) /\ proc'[p] = r
  <2>1. r.pc = "flush"
    BY DEF Instance, ThenFlush, Closed, StateInv, StateTypes
  <2>2. holder \in {None, p} /\ holder' = p
    BY DEF Prepare, At, StateInv, StateTypes
  <2> HIDE DEF r
  <2> QED
    BY <1>a, <1>b, <2>1, <2>2, SetIsTurn DEF StateAssumption
<1> HIDE DEF r
<1>3. Journalled(p)
  BY <1>1, JournalRenamed DEF Prepare, At
<1>4. OwnOK(proc'[p])
  BY DEF OwnOK, HolderOK, Stage, Promised, Safe, Reopens, Instance, StateInv,
     StateTypes, Prepare, Absent, Generation, LedgerRecord, At, Set, ThenFlush,
     Pending, Prepared
<1>5. SafeAfter(p)
  BY DEF SafeAfter, OwnOK, HolderOK, Stage, Safe, Cleaning, Promised, Reopens,
     Resolvable, PosixResolves, WindowsResolves, Instance, StateInv, StateTypes,
     Prepare, Absent, Generation, LedgerRecord, At, Set, ThenFlush, Pending, Prepared
<1>6. holder' = p => HolderOK(proc[p])'
  BY DEF HolderOK, OwnOK, Stage, Safe, Cleaning, Promised, Reopens, Instance,
     StateInv, StateTypes, StateAssumption, Prepare, Absent, Generation, LedgerRecord,
     At, Set, ThenFlush, Pending, Prepared
<1> QED
  BY <1>1, <1>2, <1>3, <1>4, <1>5, <1>6, TurnKeeps

(* The new file holds what the old one held.                               *)
LEMMA ReplaceKeeps ==
    ASSUME StateAssumption, StateInv, NEW p \in Procs, Replace(p)
    PROVE  StateInv'
<1>1. Typed
  BY DEF Typed, Instance, StateInv, StateTypes, StateAssumption, Replace, Absent,
     Generation, LedgerRecord, At, Set
<1> DEFINE r == ThenFlush(proc[p], "commit")
<1>a. r \in Instance
  <2>1. /\ proc[p] \in Instance /\ Closed \in Instance /\ Absent \in Generation
        /\ db \in Generation /\ db' \in Generation /\ files + 1 \in Nat /\ lock' \in Nat
    BY <1>1, ClosedIsInstance DEF Typed, Absent, Generation, StateInv, StateTypes
  <2> QED
    BY <2>1 DEF Instance, ThenFlush
<1>b. Set(p, r)
  BY DEF Replace
<1>2. Turn(p) /\ proc'[p] = r
  <2>1. r.pc = "flush"
    BY DEF Instance, ThenFlush, Closed, StateInv, StateTypes
  <2>2. holder \in {None, p} /\ holder' = p
    BY DEF Replace, At, StateInv, StateTypes
  <2> HIDE DEF r
  <2> QED
    BY <1>a, <1>b, <2>1, <2>2, SetIsTurn DEF StateAssumption
<1> HIDE DEF r
<1>3. Journalled(p)
  BY <1>1, JournalRenamed DEF Replace, At
<1>4. OwnOK(proc'[p])
  BY DEF OwnOK, HolderOK, Stage, Promised, Safe, Reopens, Instance, StateInv,
     StateTypes, Replace, Absent, Generation, LedgerRecord, At, Set, ThenFlush
<1>5. SafeAfter(p)
  BY DEF Pending, SafeAfter, OwnOK, HolderOK, Stage, Safe, Cleaning, Promised, Reopens,
     Resolvable, PosixResolves, WindowsResolves, Instance, StateInv, StateTypes,
     Replace, Absent, Generation, LedgerRecord, At, Set, ThenFlush
<1>6. holder' = p => HolderOK(proc[p])'
  BY DEF Pending, HolderOK, OwnOK, Stage, Safe, Cleaning, Promised, Reopens, Instance,
     StateInv, StateTypes, StateAssumption, Replace, Absent, Generation, LedgerRecord,
     At, Set, ThenFlush
<1> QED
  BY <1>1, <1>2, <1>3, <1>4, <1>5, <1>6, TurnKeeps

(* The ledger is settled on the new file.                                  *)
LEMMA CommitKeeps ==
    ASSUME StateAssumption, StateInv, NEW p \in Procs, Commit(p)
    PROVE  StateInv'
<1>1. Typed
  BY DEF Typed, Instance, StateInv, StateTypes, StateAssumption, Commit, Absent,
     Generation, LedgerRecord, At, Set, Settled
<1> DEFINE r == ThenFlush(proc[p], IF proc[p].tx = 0 THEN "opened" ELSE "done")
<1>a. r \in Instance
  <2>1. /\ proc[p] \in Instance /\ Closed \in Instance /\ Absent \in Generation
        /\ db \in Generation /\ db' \in Generation /\ files + 1 \in Nat /\ lock' \in Nat
    BY <1>1, ClosedIsInstance DEF Typed, Absent, Generation, StateInv, StateTypes
  <2> QED
    BY <2>1 DEF Instance, ThenFlush
<1>b. Set(p, r)
  BY DEF Commit
<1>2. Turn(p) /\ proc'[p] = r
  <2>1. r.pc = "flush"
    BY DEF Instance, ThenFlush, Closed, StateInv, StateTypes
  <2>2. holder \in {None, p} /\ holder' = p
    BY DEF Commit, At, StateInv, StateTypes
  <2> HIDE DEF r
  <2> QED
    BY <1>a, <1>b, <2>1, <2>2, SetIsTurn DEF StateAssumption
<1> HIDE DEF r
<1>3. Journalled(p)
  BY <1>1, JournalRenamed DEF Commit, At
<1>4. OwnOK(proc'[p])
  BY DEF OwnOK, HolderOK, Stage, Promised, Safe, Reopens, Instance, StateInv,
     StateTypes, Commit, Absent, Generation, LedgerRecord, At, Set, ThenFlush, Settled
<1>5. SafeAfter(p)
  BY ZenonT(60) DEF SafeAfter, OwnOK, HolderOK, Stage, Safe, Cleaning, Promised, Reopens,
     Resolvable, PosixResolves, WindowsResolves, Instance, StateInv, StateTypes,
     Commit, Absent, Generation, LedgerRecord, At, Set, ThenFlush, Settled
<1>6. holder' = p => HolderOK(proc[p])'
  BY DEF HolderOK, OwnOK, Stage, Safe, Cleaning, Promised, Reopens, Instance,
     StateInv, StateTypes, StateAssumption, Commit, Absent, Generation, LedgerRecord,
     At, Set, ThenFlush, Settled
<1> QED
  BY <1>1, <1>2, <1>3, <1>4, <1>5, <1>6, TurnKeeps

(* The directory is flushed: a power failure finds the current state.      *)
LEMMA FlushKeeps ==
    ASSUME StateAssumption, StateInv, NEW p \in Procs, Flush(p)
    PROVE  StateInv'
<1>1. Typed
  BY DEF Typed, Instance, StateInv, StateTypes, StateAssumption, Flush, Absent,
     Generation, LedgerRecord, At, Set
<1> DEFINE r == [proc[p] EXCEPT !.pc = proc[p].nx, !.nx = None]
<1>a. r \in Instance
  <2>1. /\ proc[p] \in Instance /\ Closed \in Instance /\ Absent \in Generation
        /\ db \in Generation /\ db' \in Generation /\ files + 1 \in Nat /\ lock' \in Nat
    BY <1>1, ClosedIsInstance DEF Typed, Absent, Generation, StateInv, StateTypes
  <2> QED
    BY <2>1 DEF Instance, ThenFlush, At, OwnOK, StateInv, Flush
<1>b. Set(p, r)
  BY DEF Flush
<1>2. Turn(p) /\ proc'[p] = r
  <2>1. r.pc \in Later
    BY DEF Instance, ThenFlush, Closed, StateInv, StateTypes, OwnOK, At, Flush
  <2>2. holder \in {None, p} /\ holder' = p
    BY DEF Flush, At, StateInv, StateTypes
  <2> HIDE DEF r
  <2> QED
    BY <1>a, <1>b, <2>1, <2>2, SetIsTurn DEF StateAssumption
<1> HIDE DEF r
<1>3. Journalled(p)
  BY <1>1, JournalFlushed DEF Flush, Flushed
<1>4. OwnOK(proc'[p])
  BY SMTT(30) DEF OwnOK, HolderOK, Stage, Promised, Safe, Reopens, Instance, StateInv,
     StateTypes, Flush, Absent, Generation, LedgerRecord, At, Set
<1>5. SafeAfter(p)
  BY DEF SafeAfter, OwnOK, HolderOK, Stage, Safe, Cleaning, Promised, Reopens,
     Resolvable, PosixResolves, WindowsResolves, Instance, StateInv, StateTypes, Flush,
     Absent, Generation, LedgerRecord, At, Set
<1>6. holder' = p => HolderOK(proc[p])'
  BY SMTT(30) DEF HolderOK, OwnOK, Stage, Safe, Cleaning, Promised, Reopens, Instance,
     StateInv, StateTypes, StateAssumption, Flush, Absent, Generation, LedgerRecord,
     At, Set
<1> QED
  BY <1>1, <1>2, <1>3, <1>4, <1>5, <1>6, TurnKeeps

(* connect returns: the transaction is in the only state left.             *)
LEMMA DoneKeeps ==
    ASSUME StateAssumption, StateInv, NEW p \in Procs, Done(p)
    PROVE  StateInv'
<1>1. Typed
  BY DEF Typed, Instance, StateInv, StateTypes, StateAssumption, Done, Absent,
     Generation, LedgerRecord, At, Set
<1> DEFINE r == [proc[p] EXCEPT !.pc = "idle", !.first = FALSE, !.base = Absent, !.tmp = Absent,
                             !.tx = 0, !.clean = IF proc[p].made THEN proc[p].tmp ELSE Absent]
<1>a. r \in Instance
  <2>1. /\ proc[p] \in Instance /\ Closed \in Instance /\ Absent \in Generation
        /\ db \in Generation /\ db' \in Generation /\ files + 1 \in Nat /\ lock' \in Nat
    BY <1>1, ClosedIsInstance DEF Typed, Absent, Generation, StateInv, StateTypes
  <2> QED
    BY <2>1 DEF Instance, ThenFlush
<1>b. Set(p, r)
  BY DEF Done
<1>2. Turn(p) /\ proc'[p] = r
  <2>1. r.pc = "idle"
    BY DEF Instance, ThenFlush, Closed, StateInv, StateTypes
  <2>2. holder \in {None, p} /\ holder' = None
    BY DEF Done, At, StateInv, StateTypes
  <2> HIDE DEF r
  <2> QED
    BY <1>a, <1>b, <2>1, <2>2, SetIsTurn DEF StateAssumption
<1> HIDE DEF r
<1>3. Journalled(p)
  <2>1. jnl' = jnl /\ Current' = Current /\ \A i \in DOMAIN jnl : jnl[i] = Current
    BY DEF Done, At, StateInv, StateTypes, HolderOK, Current
  <2> QED
    BY <2>1 DEF Journalled, StateInv, StateTypes
<1>4. OwnOK(proc'[p])
  BY DEF OwnOK, HolderOK, Stage, Promised, Safe, Reopens, Instance, StateInv,
     StateTypes, Done, Absent, Generation, LedgerRecord, At, Set
<1>5. SafeAfter(p)
  BY DEF SafeAfter, OwnOK, HolderOK, Stage, Safe, Cleaning, Promised, Reopens,
     Resolvable, PosixResolves, WindowsResolves, Instance, StateInv, StateTypes, Done,
     Absent, Generation, LedgerRecord, At, Set
<1>6. holder' = p => HolderOK(proc[p])'
  BY DEF HolderOK, OwnOK, Stage, Safe, Cleaning, Promised, Reopens, Instance,
     StateInv, StateTypes, StateAssumption, Done, Absent, Generation, LedgerRecord, At,
     Set
<1> QED
  BY <1>1, <1>2, <1>3, <1>4, <1>5, <1>6, TurnKeeps

(* A transaction that publishes nothing.                                   *)
LEMMA AbortKeeps ==
    ASSUME StateAssumption, StateInv, NEW p \in Procs, Abort(p)
    PROVE  StateInv'
<1>a. proc[p] \in Instance /\ OwnOK(proc[p]) /\ proc[p].pc = "body" /\ holder = p
  BY DEF Abort, At, StateInv, StateTypes
<1> DEFINE quit == [proc[p] EXCEPT !.pc = "idle", !.base = Absent]
           undo == [proc[p] EXCEPT !.pc = "remove"]
<1>b. quit \in Instance /\ quit.pc = "idle" /\ OwnOK(quit)
  BY ZenonT(60), <1>a DEF Instance, Absent, Generation, OwnOK, Stage
<1>c. undo \in Instance /\ undo.pc = "remove" /\ (proc[p].made /\ proc[p].first => OwnOK(undo))
  BY <1>a DEF Instance, OwnOK, Stage
<1>d. Closed \in Instance /\ Closed.pc = "closed" /\ OwnOK(Closed)
  BY ClosedIsInstance DEF Closed
<1>e. \/ Set(p, quit)
      \/ proc[p].made /\ proc[p].first /\ Set(p, undo)
      \/ Set(p, Closed)
  BY DEF Abort, Set
<1> HIDE DEF quit, undo
<1>f. PICK r \in Instance : Set(p, r) /\ r.pc \in {"idle", "remove", "closed"} /\ OwnOK(r)
  BY <1>b, <1>c, <1>d, <1>e
<1>1. Typed
  BY DEF Typed, Instance, StateInv, StateTypes, StateAssumption, Abort, Absent,
     Generation, LedgerRecord, At, Set
<1>2. Turn(p) /\ proc'[p] = r
  <2>1. holder' = None
    BY DEF Abort
  <2> QED
    BY <1>a, <1>f, <2>1, SetIsTurn DEF StateAssumption
<1>3. Journalled(p)
  BY <1>1, JournalSame DEF Abort, At
<1>4. OwnOK(proc'[p])
  BY <1>2, <1>f
<1>5. SafeAfter(p)
  BY DEF SafeAfter, OwnOK, HolderOK, Stage, Safe, Cleaning, Promised, Reopens,
     Resolvable, PosixResolves, WindowsResolves, Instance, StateInv, StateTypes, Abort,
     Absent, Generation, LedgerRecord, At, Set, Closed
<1>6. holder' = p => HolderOK(proc[p])'
  BY DEF HolderOK, OwnOK, Stage, Safe, Cleaning, Promised, Reopens, Instance,
     StateInv, StateTypes, StateAssumption, Abort, Absent, Generation, LedgerRecord,
     At, Set, Closed
<1> QED
  BY <1>1, <1>2, <1>3, <1>4, <1>5, <1>6, TurnKeeps

(* An error while publishing leaves file and ledger as they are.           *)
LEMMA PoisonKeeps ==
    ASSUME StateAssumption, StateInv, NEW p \in Procs, Poison(p)
    PROVE  StateInv'
<1>1. Typed
  BY DEF Typed, Instance, StateInv, StateTypes, StateAssumption, Poison, Absent,
     Generation, LedgerRecord, Set
<1> DEFINE r == IF proc[p].made /\ proc[p].first /\ proc[p].pc \notin {"delete", "settle"}
                   /\ (proc[p].tx # 0 \/ proc[p].nx = "body")
                THEN [proc[p] EXCEPT !.pc = "remove", !.tx = 0] ELSE Closed
<1>a. r \in Instance
  <2>1. /\ proc[p] \in Instance /\ Closed \in Instance /\ Absent \in Generation
        /\ db \in Generation /\ db' \in Generation /\ files + 1 \in Nat /\ lock' \in Nat
    BY <1>1, ClosedIsInstance DEF Typed, Absent, Generation, StateInv, StateTypes
  <2>2. [proc[p] EXCEPT !.pc = "remove", !.tx = 0] \in Instance
    BY <2>1 DEF Instance
  <2> QED
    BY <2>1, <2>2
<1>b. Set(p, r)
  BY DEF Poison
<1>2. Turn(p) /\ proc'[p] = r
  <2>1. r.pc \in {"remove", "closed"}
    BY DEF Instance, ThenFlush, Closed, StateInv, StateTypes
  <2>2. holder \in {None, p} /\ holder' = None
    BY DEF Poison, At, StateInv, StateTypes
  <2> HIDE DEF r
  <2> QED
    BY <1>a, <1>b, <2>1, <2>2, SetIsTurn DEF StateAssumption
<1> HIDE DEF r
<1>3. Journalled(p)
  BY <1>1, JournalSame DEF Poison, At
<1>4. OwnOK(proc'[p])
  BY DEF OwnOK, HolderOK, Stage, Promised, Safe, Reopens, Instance, StateInv,
     StateTypes, Poison, Absent, Generation, LedgerRecord, Set, Closed
<1>5. SafeAfter(p)
  BY SMTT(30) DEF SafeAfter, OwnOK, HolderOK, Stage, Safe, Cleaning, Promised, Reopens,
     Resolvable, PosixResolves, WindowsResolves, Instance, StateInv, StateTypes,
     Poison, Absent, Generation, LedgerRecord, Set, Closed
<1>6. holder' = p => HolderOK(proc[p])'
  BY DEF HolderOK, OwnOK, Stage, Safe, Cleaning, Promised, Reopens, Instance,
     StateInv, StateTypes, StateAssumption, Poison, Absent, Generation, LedgerRecord,
     Set, Closed
<1> QED
  BY <1>1, <1>2, <1>3, <1>4, <1>5, <1>6, TurnKeeps

(* A removal that is refused settles the ledger at most.                   *)
LEMMA RemoveRefusedKeeps ==
    ASSUME StateAssumption, StateInv, NEW p \in Procs, RemoveRefused(p)
    PROVE  StateInv'
<1>1. Typed
  BY DEF Typed, Instance, StateInv, StateTypes, StateAssumption, RemoveRefused,
     Absent, Generation, LedgerRecord, At, Set, Settled, Loadable, MayRemove
<1> DEFINE r == Closed
<1>a. r \in Instance
  <2>1. /\ proc[p] \in Instance /\ Closed \in Instance /\ Absent \in Generation
        /\ db \in Generation /\ db' \in Generation /\ files + 1 \in Nat /\ lock' \in Nat
    BY <1>1, ClosedIsInstance DEF Typed, Absent, Generation, StateInv, StateTypes
  <2> QED
    BY <2>1 DEF Instance, ThenFlush
<1>b. Set(p, r)
  BY DEF RemoveRefused
<1>2. Turn(p) /\ proc'[p] = r
  <2>1. r.pc = "closed"
    BY DEF Instance, ThenFlush, Closed, StateInv, StateTypes
  <2>2. holder \in {None, p} /\ holder' = None
    BY DEF RemoveRefused, At, StateInv, StateTypes
  <2> HIDE DEF r
  <2> QED
    BY <1>a, <1>b, <2>1, <2>2, SetIsTurn DEF StateAssumption
<1> HIDE DEF r
<1>3. Journalled(p)
  BY <1>1, JournalRenamed DEF RemoveRefused, At
<1>4. OwnOK(proc'[p])
  BY DEF OwnOK, HolderOK, Stage, Promised, Safe, Reopens, Instance, StateInv,
     StateTypes, RemoveRefused, Absent, Generation, LedgerRecord, At, Set, Closed,
     Settled, Loadable, MayRemove
<1>5. SafeAfter(p)
  <2>1. CASE Loadable(p)
    BY <2>1 DEF SafeAfter, Safe, Reopens, Resolvable, PosixResolves,
       WindowsResolves, StateInv, RemoveRefused, Loadable, Settled
  <2>2. CASE ~Loadable(p)
    BY <2>2, FreeIsWhole, SafeSame DEF RemoveRefused
  <2> QED
    BY <2>1, <2>2
<1>6. holder' = p => HolderOK(proc[p])'
  BY DEF HolderOK, OwnOK, Stage, Safe, Cleaning, Promised, Reopens, Instance,
     StateInv, StateTypes, StateAssumption, RemoveRefused, Absent, Generation,
     LedgerRecord, At, Set, Closed, Settled, Loadable, MayRemove
<1> QED
  BY <1>1, <1>2, <1>3, <1>4, <1>5, <1>6, TurnKeeps

(* A failed initialisation removes the empty file it created.              *)
LEMMA RemoveDatabaseKeeps ==
    ASSUME StateAssumption, StateInv, NEW p \in Procs, RemoveDatabase(p)
    PROVE  StateInv'
<1>1. Typed
  BY DEF Typed, Instance, StateInv, StateTypes, StateAssumption, RemoveDatabase,
     Absent, Generation, LedgerRecord, At, Set, Settled, Loadable, MayRemove
<1> DEFINE r == [proc[p] EXCEPT !.pc = "unlink"]
<1>a. r \in Instance
  <2>1. /\ proc[p] \in Instance /\ Closed \in Instance /\ Absent \in Generation
        /\ db \in Generation /\ db' \in Generation /\ files + 1 \in Nat /\ lock' \in Nat
    BY <1>1, ClosedIsInstance DEF Typed, Absent, Generation, StateInv, StateTypes
  <2> QED
    BY <2>1 DEF Instance, ThenFlush
<1>b. Set(p, r)
  BY DEF RemoveDatabase
<1>2. Turn(p) /\ proc'[p] = r
  <2>1. r.pc = "unlink"
    BY DEF Instance, ThenFlush, Closed, StateInv, StateTypes
  <2>2. holder \in {None, p} /\ holder' = p
    BY DEF RemoveDatabase, At, StateInv, StateTypes
  <2> HIDE DEF r
  <2> QED
    BY <1>a, <1>b, <2>1, <2>2, SetIsTurn DEF StateAssumption
<1> HIDE DEF r
<1>3. Journalled(p)
  BY <1>1, JournalRenamed DEF RemoveDatabase, At
<1>4. OwnOK(proc'[p])
  BY DEF OwnOK, HolderOK, Stage, Promised, Safe, Reopens, Instance, StateInv,
     StateTypes, RemoveDatabase, Absent, Generation, LedgerRecord, At, Set, Settled,
     Loadable, MayRemove
<1>5. SafeAfter(p)
  BY DEF SafeAfter, OwnOK, HolderOK, Stage, Safe, Cleaning, Promised, Reopens,
     Resolvable, PosixResolves, WindowsResolves, Instance, StateInv, StateTypes,
     RemoveDatabase, Absent, Generation, LedgerRecord, At, Set, Settled, Loadable,
     MayRemove
<1>6. holder' = p => HolderOK(proc[p])'
  BY DEF HolderOK, OwnOK, Stage, Safe, Cleaning, Promised, Reopens, Instance,
     StateInv, StateTypes, StateAssumption, RemoveDatabase, Absent, Generation,
     LedgerRecord, At, Set, Settled, Loadable, MayRemove
<1> QED
  BY <1>1, <1>2, <1>3, <1>4, <1>5, <1>6, TurnKeeps

(* Then its ledger and its lock file.                                      *)
LEMMA RemoveLedgerKeeps ==
    ASSUME StateAssumption, StateInv, NEW p \in Procs, RemoveLedger(p)
    PROVE  StateInv'
<1>1. Typed
  BY DEF Typed, Instance, StateInv, StateTypes, StateAssumption, RemoveLedger,
     Absent, NoLedger, Generation, LedgerRecord, At, Set
<1> DEFINE r == Closed
<1>a. r \in Instance
  <2>1. /\ proc[p] \in Instance /\ Closed \in Instance /\ Absent \in Generation
        /\ db \in Generation /\ db' \in Generation /\ files + 1 \in Nat /\ lock' \in Nat
    BY <1>1, ClosedIsInstance DEF Typed, Absent, Generation, StateInv, StateTypes
  <2> QED
    BY <2>1 DEF Instance, ThenFlush
<1>b. Set(p, r)
  BY DEF RemoveLedger
<1>2. Turn(p) /\ proc'[p] = r
  <2>1. r.pc = "closed"
    BY DEF Instance, ThenFlush, Closed, StateInv, StateTypes
  <2>2. holder \in {None, p} /\ holder' = None
    BY DEF RemoveLedger, At, StateInv, StateTypes
  <2> HIDE DEF r
  <2> QED
    BY <1>a, <1>b, <2>1, <2>2, SetIsTurn DEF StateAssumption
<1> HIDE DEF r
<1>3. Journalled(p)
  BY <1>1, JournalFlushed DEF RemoveLedger, At
<1>4. OwnOK(proc'[p])
  BY DEF OwnOK, HolderOK, Stage, Promised, Safe, Reopens, Instance, StateInv,
     StateTypes, RemoveLedger, Absent, NoLedger, Generation, LedgerRecord, At, Set,
     Closed
<1>5. SafeAfter(p)
  <2>1. db' = Absent /\ acked' = acked /\ db = Absent /\ acked \subseteq Absent.data
    BY DEF RemoveLedger, At, Stage, StateInv, StateTypes, HolderOK, Safe
  <2>2. Promised => ledger' = NoLedger
    BY DEF RemoveLedger, At, StateInv, OwnOK
  <2> QED
    BY <2>1, <2>2 DEF SafeAfter, Reopens, Resolvable, PosixResolves,
       WindowsResolves, NoLedger
<1>6. holder' = p => HolderOK(proc[p])'
  BY DEF HolderOK, OwnOK, Stage, Safe, Cleaning, Promised, Reopens, Instance,
     StateInv, StateTypes, StateAssumption, RemoveLedger, Absent, NoLedger, Generation,
     LedgerRecord, At, Set, Closed
<1> QED
  BY <1>1, <1>2, <1>3, <1>4, <1>5, <1>6, TurnKeeps

(* Windows records the removal of the empty file first.                    *)
LEMMA PrepareRemoveKeeps ==
    ASSUME StateAssumption, StateInv, NEW p \in Procs, PrepareRemove(p)
    PROVE  StateInv'
<1>1. Typed
  BY DEF Typed, Instance, StateInv, StateTypes, StateAssumption, PrepareRemove,
     Absent, Generation, LedgerRecord, At, Set, Pending, Loadable, MayRemove
<1> DEFINE r == ThenFlush(proc[p], "delete")
<1>a. r \in Instance
  <2>1. /\ proc[p] \in Instance /\ Closed \in Instance /\ Absent \in Generation
        /\ db \in Generation /\ db' \in Generation /\ files + 1 \in Nat /\ lock' \in Nat
    BY <1>1, ClosedIsInstance DEF Typed, Absent, Generation, StateInv, StateTypes
  <2> QED
    BY <2>1 DEF Instance, ThenFlush
<1>b. Set(p, r)
  BY DEF PrepareRemove
<1>2. Turn(p) /\ proc'[p] = r
  <2>1. r.pc = "flush"
    BY DEF Instance, ThenFlush, Closed, StateInv, StateTypes
  <2>2. holder \in {None, p} /\ holder' = p
    BY DEF PrepareRemove, At, StateInv, StateTypes
  <2> HIDE DEF r
  <2> QED
    BY <1>a, <1>b, <2>1, <2>2, SetIsTurn DEF StateAssumption
<1> HIDE DEF r
<1>3. Journalled(p)
  BY <1>1, JournalRenamed DEF PrepareRemove, At
<1>4. OwnOK(proc'[p])
  BY DEF OwnOK, HolderOK, Stage, Promised, Safe, Reopens, Instance, StateInv,
     StateTypes, PrepareRemove, Absent, Generation, LedgerRecord, At, Set, ThenFlush,
     Pending, Loadable, MayRemove
<1>5. SafeAfter(p)
  BY DEF SafeAfter, OwnOK, HolderOK, Stage, Safe, Cleaning, Promised, Reopens,
     Resolvable, PosixResolves, WindowsResolves, Instance, StateInv, StateTypes,
     PrepareRemove, Absent, Generation, LedgerRecord, At, Set, ThenFlush, Pending,
     Loadable, MayRemove
<1>6. holder' = p => HolderOK(proc[p])'
  BY DEF HolderOK, OwnOK, Stage, Safe, Cleaning, Promised, Reopens, Instance,
     StateInv, StateTypes, StateAssumption, PrepareRemove, Absent, Generation,
     LedgerRecord, At, Set, ThenFlush, Pending, Loadable, MayRemove
<1> QED
  BY <1>1, <1>2, <1>3, <1>4, <1>5, <1>6, TurnKeeps

(* Either side of a recorded removal can be reconciled.                    *)
LEMMA DeleteKeeps ==
    ASSUME StateAssumption, StateInv, NEW p \in Procs, Delete(p)
    PROVE  StateInv'
<1>1. Typed
  BY DEF Typed, Instance, StateInv, StateTypes, StateAssumption, Delete, Absent,
     Generation, LedgerRecord, At, Set
<1> DEFINE r == ThenFlush(proc[p], "settle")
<1>a. r \in Instance
  <2>1. /\ proc[p] \in Instance /\ Closed \in Instance /\ Absent \in Generation
        /\ db \in Generation /\ db' \in Generation /\ files + 1 \in Nat /\ lock' \in Nat
    BY <1>1, ClosedIsInstance DEF Typed, Absent, Generation, StateInv, StateTypes
  <2> QED
    BY <2>1 DEF Instance, ThenFlush
<1>b. Set(p, r)
  BY DEF Delete
<1>2. Turn(p) /\ proc'[p] = r
  <2>1. r.pc = "flush"
    BY DEF Instance, ThenFlush, Closed, StateInv, StateTypes
  <2>2. holder \in {None, p} /\ holder' = p
    BY DEF Delete, At, StateInv, StateTypes
  <2> HIDE DEF r
  <2> QED
    BY <1>a, <1>b, <2>1, <2>2, SetIsTurn DEF StateAssumption
<1> HIDE DEF r
<1>3. Journalled(p)
  BY <1>1, JournalRenamed DEF Delete, At
<1>4. OwnOK(proc'[p])
  BY DEF OwnOK, HolderOK, Stage, Promised, Safe, Reopens, Instance, StateInv,
     StateTypes, Delete, Absent, Generation, LedgerRecord, At, Set, ThenFlush
<1>5. SafeAfter(p)
  BY DEF Pending, SafeAfter, OwnOK, HolderOK, Stage, Safe, Cleaning, Promised, Reopens,
     Resolvable, PosixResolves, WindowsResolves, Instance, StateInv, StateTypes,
     Delete, Absent, Generation, LedgerRecord, At, Set, ThenFlush
<1>6. holder' = p => HolderOK(proc[p])'
  BY DEF Pending, HolderOK, OwnOK, Stage, Safe, Cleaning, Promised, Reopens, Instance,
     StateInv, StateTypes, StateAssumption, Delete, Absent, Generation, LedgerRecord,
     At, Set, ThenFlush
<1> QED
  BY <1>1, <1>2, <1>3, <1>4, <1>5, <1>6, TurnKeeps

(* The absence is committed.                                               *)
LEMMA SettleRemoveKeeps ==
    ASSUME StateAssumption, StateInv, NEW p \in Procs, SettleRemove(p)
    PROVE  StateInv'
<1>1. Typed
  BY DEF Typed, Instance, StateInv, StateTypes, StateAssumption, SettleRemove,
     Absent, Generation, LedgerRecord, At, Set, Settled
<1> DEFINE r == Closed
<1>a. r \in Instance
  <2>1. /\ proc[p] \in Instance /\ Closed \in Instance /\ Absent \in Generation
        /\ db \in Generation /\ db' \in Generation /\ files + 1 \in Nat /\ lock' \in Nat
    BY <1>1, ClosedIsInstance DEF Typed, Absent, Generation, StateInv, StateTypes
  <2> QED
    BY <2>1 DEF Instance, ThenFlush
<1>b. Set(p, r)
  BY DEF SettleRemove
<1>2. Turn(p) /\ proc'[p] = r
  <2>1. r.pc = "closed"
    BY DEF Instance, ThenFlush, Closed, StateInv, StateTypes
  <2>2. holder \in {None, p} /\ holder' = None
    BY DEF SettleRemove, At, StateInv, StateTypes
  <2> HIDE DEF r
  <2> QED
    BY <1>a, <1>b, <2>1, <2>2, SetIsTurn DEF StateAssumption
<1> HIDE DEF r
<1>3. Journalled(p)
  BY <1>1, JournalFlushed DEF SettleRemove, At
<1>4. OwnOK(proc'[p])
  BY DEF OwnOK, HolderOK, Stage, Promised, Safe, Reopens, Instance, StateInv,
     StateTypes, SettleRemove, Absent, Generation, LedgerRecord, At, Set, Closed,
     Settled
<1>5. SafeAfter(p)
  BY DEF SafeAfter, OwnOK, HolderOK, Stage, Safe, Cleaning, Promised, Reopens,
     Resolvable, PosixResolves, WindowsResolves, Instance, StateInv, StateTypes,
     SettleRemove, Absent, Generation, LedgerRecord, At, Set, Closed, Settled
<1>6. holder' = p => HolderOK(proc[p])'
  BY DEF HolderOK, OwnOK, Stage, Safe, Cleaning, Promised, Reopens, Instance,
     StateInv, StateTypes, StateAssumption, SettleRemove, Absent, Generation,
     LedgerRecord, At, Set, Closed, Settled
<1> QED
  BY <1>1, <1>2, <1>3, <1>4, <1>5, <1>6, TurnKeeps

(* A killed process leaves file and ledger; only a cleanup that is cut     *)
(* short leaves them apart.                                                *)
LEMMA CrashKeeps ==
    ASSUME StateAssumption, StateInv, NEW p \in Procs, Crash(p)
    PROVE  StateInv'
<1>1. Typed
  BY DEF Typed, Crash, StateInv, StateTypes
<1>2. Closed \in Instance /\ Closed.pc = "closed" /\ OwnOK(Closed)
  BY ClosedIsInstance DEF Closed
<1>3. CASE holder \in {None, p}
  <2>1. Turn(p) /\ proc'[p] = Closed
    BY <1>2, <1>3, SetIsTurn DEF Crash, StateAssumption
  <2>2. holder' # p
    BY <1>3 DEF Crash, StateAssumption
  <2>3. CASE proc[p].pc # "unlink"
    <3>1. ~Cleaning
      BY <1>3, <2>3 DEF Cleaning, StateInv, StateTypes, StateAssumption
    <3> QED
      BY <1>1, <1>2, <2>1, <2>2, <2>3, <3>1, JournalSame, SafeSame, TurnKeeps DEF
         Crash
  <2>4. CASE proc[p].pc = "unlink"
    (* Only a faulty cleanup is cut short, and only POSIX has one. *)
    <3>1. ~Promised
      BY <2>4 DEF Crash, Promised, StateInv, OwnOK, StateAssumption
    <3>2. proc' \in [Procs -> Instance] /\ \A q \in Procs : q # p => proc'[q] = proc[q] /\ holder # q
      BY <1>2, <1>3 DEF Crash, Set, StateInv, StateTypes, StateAssumption
    <3>3. StateTypes'
      BY <1>1, <1>2, <1>3, <2>1, <3>2 DEF StateTypes, Typed, Crash, StateInv,
         StateAssumption
    <3>4. \A d, l : acked \subseteq d.data => Safe(d, l)'
      BY <3>1 DEF Safe, Promised, Crash
    <3>5. Safe(db, ledger)' /\ \A i \in DOMAIN jnl' : Safe(jnl[i][1], jnl[i][2])'
      BY <3>4 DEF Safe, StateInv, Crash
    <3>6. \A q \in Procs : OwnOK(proc[q])'
      BY <1>2, <2>1, <3>2 DEF StateInv, OwnOK, Stage, Promised
    <3>7. \A q \in Procs : holder' # q
      BY <1>3, <3>2 DEF Crash, StateAssumption
    <3> QED
      BY <3>3, <3>5, <3>6, <3>7 DEF StateInv
  <2> QED
    BY <2>3, <2>4
<1>4. CASE holder \notin {None, p}
  <2>1. /\ proc' \in [Procs -> Instance] /\ proc'[p] = Closed
        /\ \A q \in Procs : q # p => proc'[q] = proc[q]
    BY <1>2 DEF Crash, Set, StateInv, StateTypes
  <2>2. proc[p].pc # "unlink" /\ holder' = holder
    BY <1>4 DEF Crash, StateInv, StateTypes
  <2>3. StateTypes'
    BY <1>1, <1>2, <1>4, <2>1, <2>2 DEF StateTypes, Typed, Crash, StateInv
  <2>4. Cleaning' <=> Cleaning
    BY <1>2, <2>1, <2>2 DEF Cleaning
  <2>5. Safe(db, ledger)' /\ \A i \in DOMAIN jnl' : Safe(jnl[i][1], jnl[i][2])'
    BY <2>4 DEF Crash, StateInv, Safe, Promised, Reopens, Resolvable, PosixResolves,
       WindowsResolves
  <2>6. \A q \in Procs : OwnOK(proc[q])'
    BY <1>2, <2>1 DEF StateInv, OwnOK, Stage, Promised
  <2>7. \A q \in Procs : holder' = q => HolderOK(proc[q])'
    BY <1>4, <2>1, <2>2 DEF StateInv, HolderOK, Stage, Crash, Promised, Pending
  <2> QED
    BY <2>3, <2>5, <2>6, <2>7 DEF StateInv
<1> QED
  BY <1>3, <1>4

(* A power failure brings back a state the invariant covers.               *)
LEMMA PowerLossKeeps ==
    ASSUME StateAssumption, StateInv, PowerLoss
    PROVE  StateInv'
<1>1. PICK i \in DOMAIN jnl :
         db' = jnl[i][1] /\ ledger' = jnl[i][2] /\ lock' = jnl[i][3] /\ jnl' = <<jnl[i]>>
  BY DEF PowerLoss
<1>2. jnl[i] \in Entry
  BY DEF StateInv, StateTypes
<1>3. /\ proc' = [p \in Procs |-> Closed] /\ holder' = None
      /\ UNCHANGED <<files, acked>>
  BY DEF PowerLoss
<1>4. Closed \in Instance /\ Closed.pc = "closed" /\ OwnOK(Closed)
  BY ClosedIsInstance DEF Closed
<1>5. jnl' \in Seq(Entry) /\ jnl' # <<>> /\ DOMAIN jnl' = {1} /\ jnl'[1] = jnl[i]
  BY <1>1, <1>2
<1>6. db' \in Generation /\ ledger' \in LedgerRecord /\ lock' \in Nat
  BY <1>1, <1>2 DEF Entry
<1>7. StateTypes'
  BY <1>3, <1>4, <1>5, <1>6 DEF StateTypes, StateInv, StateAssumption
<1>8. Promised => ~Cleaning
  BY DEF PowerLoss, Promised, Cleaning, StateInv, OwnOK, StateAssumption
<1>9. Safe(jnl[i][1], jnl[i][2])
  BY DEF StateInv
<1>10. Safe(db, ledger)'
  BY <1>1, <1>3, <1>8, <1>9 DEF Safe, Promised, Reopens, Resolvable, PosixResolves,
     WindowsResolves
<1>11. \A k \in DOMAIN jnl' : Safe(jnl[k][1], jnl[k][2])'
  BY <1>1, <1>5, <1>10
<1>12. \A p \in Procs : OwnOK(proc[p])' /\ holder' # p
  BY <1>3, <1>4 DEF OwnOK, Stage, Promised, StateAssumption
<1> QED
  BY <1>7, <1>10, <1>11, <1>12 DEF StateInv

(* Nothing exists at first.                                                *)
LEMMA StateInitHolds == StateAssumption /\ StateInit => StateInv
<1> SUFFICES ASSUME StateAssumption, StateInit PROVE StateInv
  OBVIOUS
<1>1. Absent \in Generation /\ NoLedger \in LedgerRecord
  BY DEF Absent, NoLedger, Generation, LedgerRecord
<1>2. Closed \in Instance /\ Closed.pc = "closed" /\ OwnOK(Closed)
  BY ClosedIsInstance DEF Closed
<1> DEFINE c == <<Absent, NoLedger, 0>>
<1>3. c \in Entry /\ jnl = <<c>>
  BY <1>1 DEF Entry, StateInit
<1>4. c[1] = Absent /\ c[2] = NoLedger
  OBVIOUS
<1> HIDE DEF c
<1>5. jnl \in Seq(Entry) /\ jnl # <<>> /\ DOMAIN jnl = {1} /\ jnl[1] = c
  BY <1>3
<1>6. StateTypes
  BY <1>1, <1>2, <1>5 DEF StateTypes, StateInit, StateAssumption
<1>7. Safe(Absent, NoLedger)
  BY DEF Safe, Reopens, Resolvable, PosixResolves, WindowsResolves, Absent,
     NoLedger, StateInit
<1>8. \A p \in Procs : OwnOK(proc[p]) /\ holder # p
  BY <1>2 DEF StateInit, StateAssumption
<1>9. Safe(db, ledger) /\ \A i \in DOMAIN jnl : Safe(jnl[i][1], jnl[i][2])
  BY <1>4, <1>5, <1>7 DEF StateInit
<1> QED
  BY <1>6, <1>8, <1>9 DEF StateInv

(* Every step of the processes, a kill or a power failure.                 *)
LEMMA StateStepKeeps ==
    ASSUME StateAssumption, StateInv, [StateNext]_stateVars
    PROVE  StateInv'
<1>1. CASE UNCHANGED stateVars
  BY <1>1 DEF StateInv, StateTypes, Safe, Cleaning, Promised, Reopens, Resolvable,
     PosixResolves, WindowsResolves, OwnOK, HolderOK, Stage, Pending, stateVars
<1>2. CASE PowerLoss
  BY <1>2, PowerLossKeeps
<1>3. ASSUME NEW p \in Procs,
             \/ OpenLock(p) \/ CreateDatabase(p) \/ UseDatabase(p) \/ OpenLedger(p)
             \/ OpenWindows(p) \/ CreateWindows(p) \/ Opened(p) \/ OpenFails(p) \/ UndoOpen(p)
      PROVE  StateInv'
  BY <1>3, OpenLockKeeps, CreateDatabaseKeeps, UseDatabaseKeeps, OpenLedgerKeeps,
     OpenWindowsKeeps, CreateWindowsKeeps, OpenedKeeps, OpenFailsKeeps, UndoOpenKeeps
<1>4. ASSUME NEW p \in Procs,
             \/ Begin(p) \/ BeginFails(p) \/ Prepare(p) \/ Replace(p) \/ Commit(p)
             \/ Flush(p) \/ Done(p) \/ Abort(p) \/ Poison(p)
      PROVE  StateInv'
  BY <1>4, BeginKeeps, BeginFailsKeeps, PrepareKeeps, ReplaceKeeps, CommitKeeps,
     FlushKeeps, DoneKeeps, AbortKeeps, PoisonKeeps
<1>5. ASSUME NEW p \in Procs,
             \/ RemoveRefused(p) \/ RemoveDatabase(p) \/ RemoveLedger(p)
             \/ PrepareRemove(p) \/ Delete(p) \/ SettleRemove(p) \/ Crash(p)
      PROVE  StateInv'
  BY <1>5, RemoveRefusedKeeps, RemoveDatabaseKeeps, RemoveLedgerKeeps,
     PrepareRemoveKeeps, DeleteKeeps, SettleRemoveKeeps, CrashKeeps
<1> QED
  BY <1>1, <1>2, <1>3, <1>4, <1>5 DEF StateNext

(* What is safe whenever a power failure may strike is safe now.           *)
LEMMA StateInvIsEnough == StateAssumption /\ StateInv => StateIsDurable
<1> SUFFICES ASSUME StateAssumption, StateInv PROVE StateIsDurable
  OBVIOUS
<1>1. StateTypeOK
  BY DEF StateTypeOK, StateInv, StateTypes, LedgerRecord
<1>2. AckedSurvives
  BY DEF AckedSurvives, Data, StateInv, Safe, Absent
<1>3. Promised => Openable
  BY FreeIsWhole DEF Openable, StateInv, Safe, Reopens
<1> QED
  BY <1>1, <1>2, <1>3 DEF StateIsDurable, Promised

(* For any number of processes, files and power failures, on POSIX and on  *)
(* Windows: a transaction whose connect returned is in the database for    *)
(* ever, and whenever the lock is free the file and its ledger can be      *)
(* reconciled, unless, on POSIX, a creator was killed between the removals *)
(* of its cleanup (_persist_generation, _reconcile_ledger, _recover,       *)
(* close).                                                                 *)
THEOREM StateStaysDurable ==
    ASSUME StateAssumption
    PROVE  StateSpec => []StateIsDurable
<1>1. StateInit => StateInv
  BY StateInitHolds
<1>2. StateInv /\ [StateNext]_stateVars => StateInv'
  BY StateStepKeeps
<1>3. StateInv => StateIsDurable
  BY StateInvIsEnough
<1> QED
  BY <1>1, <1>2, <1>3, PTL DEF StateSpec

-----------------------------------------------------------------------------
(* Pinned directories.                                                      *)
Uses == {"list", "inspect", "read"}
LastStep == [open |-> 5, child |-> 10, copy |-> 5, list |-> 6, inspect |-> 5, read |-> 8]
PinIds(p) == IF p = "top" THEN <<Approved[1]>> ELSE <<Approved[1], Approved[2]>>
Depth(p) == IF p = "top" THEN 1 ELSE 2

UserRecords ==
    [op : Uses \cup {"open", "child", "copy", Nothing}, on : Pins \cup {Nothing}, step : 1 .. 10,
     index : 0 .. 2, fds : Seq(1 .. MaxFd), ids : Seq(Dirs), file : 0 .. MaxFd,
     dir : LeafDirs \cup {Nothing}, half : Nat \cup {Nothing}, whole : BOOLEAN]
PinRecords == [fds : Seq(1 .. MaxFd), ids : Seq(Dirs), alive : BOOLEAN, open : BOOLEAN]

PinTypes ==
    /\ DOMAIN at = Parents /\ at["root"] \in TopDirs /\ at[Approved[1]] \in LeafDirs
    /\ stamps \in [LeafDirs -> Nat]
    /\ fds \in [1 .. MaxFd -> Dirs \cup {"file", Free}]
    /\ pin \in [Pins -> PinRecords]
    /\ locks \in [Pins -> {"user", Nothing}]
    /\ user \in UserRecords
    /\ closer \in Pins \cup {Nothing}
    /\ foreign \subseteq 1 .. MaxFd
    /\ held \subseteq {1, 2}

\* A pin is of the approved directories, alive until it is being closed.
PinsAreApproved ==
    /\ \A p \in Pins :
          /\ pin[p].alive => pin[p].open
          /\ \/ ~pin[p].open /\ pin[p].fds = <<>> /\ pin[p].ids = <<>>
             \/ pin[p].ids = PinIds(p) /\ Len(pin[p].fds) = Depth(p)
    /\ closer # Nothing => ~pin[closer].alive /\ pin[closer].open

\* What the using thread is about, and on which pin.
UserIsAt ==
    /\ user.op # Nothing => user.step <= LastStep[user.op]
    /\ user.op = "open" => user.on = "top" /\ ~pin["top"].open
    /\ user.op = "child" => user.on = "top" /\ ~pin["leaf"].open
    /\ user.op = "copy" => user.on = "leaf" /\ ~pin["copy"].open
    /\ user.op \in Uses => user.on \in {"leaf", "copy"}
    /\ user.op \in Uses \cup {"child", "copy"} =>
          pin[user.on].ids = PinIds(user.on) /\ Len(pin[user.on].fds) = Depth(user.on)

Validating ==
    \/ user.op \in {"child", "copy", "list"} /\ user.step = 2
    \/ user.op = "list" /\ user.step = 4
    \/ user.op = "inspect" /\ user.step \in {1, 2, 4}
    \/ user.op = "read" /\ user.step \in {1, 5, 7}
IndexIsAt ==
    /\ user.index > 0 => Validating \/ (user.op = "child" /\ user.step = 9)
    /\ Validating => user.index <= Depth(user.on)
    /\ user.op = "child" => user.index <= 1

\* Where a close of the pin in use cannot complete.
Guarded ==
    \/ Validating /\ user.index > 0
    \/ user.op \in {"child", "copy"} /\ user.step \in {3, 4}
    \/ user.op = "list" /\ user.step \in 3 .. 5
GuardIsHeld == Guarded => locks[user.on] = "user" /\ pin[user.on].open

\* The descriptors and identities the operation has collected.
AsApproved(k) == user.ids[k] = Approved[k]
Collected ==
    /\ Len(user.fds) = Len(user.ids)
    /\ \A k \in 1 .. Len(user.fds) : fds[user.fds[k]] = user.ids[k]
    /\ user.op \in Uses \cup {Nothing} => Len(user.fds) = 0
    /\ user.op = "open" =>
          /\ Len(user.fds) = IF user.step = 1 THEN 0 ELSE 1
          /\ user.step >= 4 => AsApproved(1)
    /\ user.op = "child" =>
          /\ Len(user.fds) = IF user.step <= 3 THEN 0 ELSE IF user.step <= 6 THEN 1 ELSE 2
          /\ user.step >= 4 => AsApproved(1)
          /\ user.step >= 9 => AsApproved(2)
    /\ user.op = "copy" =>
          /\ user.step <= 2 => Len(user.fds) = 0
          /\ user.step = 3 => Len(user.fds) <= 1
          /\ user.step >= 4 => Len(user.fds) = 2
          /\ \A k \in 1 .. Len(user.fds) : AsApproved(k)
    /\ user.file # 0 => user.op = "read" /\ user.step >= 3 /\ fds[user.file] = "file"

\* The edges that have been seen to hold.
FirstValid == IF user.op = "list" THEN 2 ELSE 1
EdgesAreSeen ==
    /\ user.op # Nothing => \A n \in 1 .. 2 : EdgeHolds(Approved, n) => n \in held
    /\ user.op \in Uses =>
          /\ user.step > FirstValid => held = {1, 2}
          /\ user.step = FirstValid /\ user.index = 2 => 1 \in held

\* What has been read, and of which directory.
DirIsPinned ==
    /\ user.op = "list" /\ user.step >= 4 => user.dir = Approved[2] /\ user.whole
    /\ user.op = "inspect" /\ user.step >= 4 =>
          /\ user.dir \in LeafDirs /\ user.whole
          /\ (pin[user.on].alive \/ user.step = 5 \/ user.index > 0) => user.dir = Approved[2]
    /\ user.op = "read" /\ user.step >= 3 =>
          /\ user.dir \in LeafDirs
          /\ (pin[user.on].alive \/ user.step = 8 \/ (user.step = 7 /\ user.index > 0)) =>
                 user.dir = Approved[2]
          /\ user.step >= 4 => user.half \in Nat /\ user.half <= stamps[user.dir]
          /\ user.step >= 5 => user.whole \/ user.half < stamps[user.dir]
          /\ user.step >= 7 => user.whole
ResultHolds ==
    result # Nothing => result.dir = Approved[2] /\ result.whole /\ result.held = {1, 2}

\* Every descriptor in use has one owner.
PinOwns(p) == IF pin[p].open THEN RangeOf(pin[p].fds) ELSE {}
OneOwner ==
    /\ \A p \in Pins : PinOwns(p) \cap (foreign \cup OwnedByOperation) = {}
    /\ \A p \in Pins : \A q \in Pins \ {p} : PinOwns(p) \cap PinOwns(q) = {}
    /\ foreign \cap OwnedByOperation = {}
    /\ \A n \in 1 .. MaxFd :
          fds[n] # Free <=> n \in foreign \cup OwnedByOperation \/ \E p \in Pins : n \in PinOwns(p)
    /\ \A p \in Pins : pin[p].open =>
          \A k \in 1 .. Depth(p) : fds[pin[p].fds[k]] = pin[p].ids[k]

PinInv ==
    /\ PinTypes /\ PinsAreApproved /\ UserIsAt /\ IndexIsAt /\ GuardIsHeld /\ Collected
    /\ EdgesAreSeen /\ DirIsPinned /\ ResultHolds /\ OneOwner

OpNames == Uses \cup {"open", "child", "copy"}

LEMMA InstructionIsAt ==
    ASSUME PinAssumption, PinTypes, UserIsAt
    PROVE  /\ user.op # Nothing => user.op \in OpNames
           /\ Instr = "lock" => user.op \in {"child", "copy", "list"} /\ user.step = 1
           /\ Instr = "unlock" =>
                 \/ user.op \in {"child", "copy"} /\ user.step = 4
                 \/ user.op = "list" /\ user.step = 5
           /\ Instr = "valid" => Validating
           /\ Instr = "dup" => user.op \in {"child", "copy"} /\ user.step = 3
           /\ Instr = "detach" => user.op = "child" /\ user.step = 5
           /\ Instr = "walk" =>
                 (user.op = "open" /\ user.step = 1) \/ (user.op = "child" /\ user.step = 6)
           /\ Instr = "edge" =>
                 (user.op = "open" /\ user.step = 2) \/ (user.op = "child" /\ user.step = 7)
           /\ Instr = "expect" =>
                 (user.op = "open" /\ user.step = 3) \/ (user.op = "child" /\ user.step = 8)
           /\ Instr = "final" =>
                 (user.op = "open" /\ user.step = 4) \/ (user.op = "child" /\ user.step = 9)
           /\ Instr = "adopt" =>
                 \/ user.op \in {"open", "copy"} /\ user.step = 5
                 \/ user.op = "child" /\ user.step = 10
           /\ Instr = "scan" => user.op = "list" /\ user.step = 3
           /\ Instr = "stat" => user.op = "inspect" /\ user.step = 3
           /\ Instr = "openat" => user.op = "read" /\ user.step = 2
           /\ Instr = "read" => user.op = "read" /\ user.step = 3
           /\ Instr = "rest" => user.op = "read" /\ user.step = 4
           /\ Instr = "public" => user.op = "read" /\ user.step = 6
           /\ Instr = "return" =>
                 \/ user.op = "list" /\ user.step = 6
                 \/ user.op = "inspect" /\ user.step = 5
                 \/ user.op = "read" /\ user.step = 8
<1>1. user.op # Nothing => user.op \in OpNames
  BY DEF PinTypes, UserRecords, Uses, OpNames
<1>2. user.op # Nothing => user.step \in 1 .. LastStep[user.op]
  BY DEF PinTypes, UserRecords, UserIsAt, LastStep
<1>3. CASE user.op = Nothing
  BY <1>3 DEF Instr, PinAssumption
<1>4. CASE user.op = "open"
  <2>1. user.step \in 1 .. 5
    BY <1>2, <1>4 DEF LastStep, PinAssumption
  <2>2. Instr = <<"walk", "edge", "expect", "final", "adopt">>[user.step]
    BY <1>4 DEF Instr, PinAssumption, Program
  <2> QED
    BY <1>1, <1>4, <2>1, <2>2
<1>5. CASE user.op = "child"
  <2>1. user.step \in 1 .. 10
    BY <1>2, <1>5 DEF LastStep, PinAssumption
  <2>2. Instr = <<"lock", "valid", "dup", "unlock", "detach", "walk", "edge", "expect", "final",
                  "adopt">>[user.step]
    BY <1>5 DEF Instr, PinAssumption, Program
  <2> QED
    BY <1>1, <1>5, <2>1, <2>2 DEF Validating
<1>6. CASE user.op = "copy"
  <2>1. user.step \in 1 .. 5
    BY <1>2, <1>6 DEF LastStep, PinAssumption
  <2>2. Instr = <<"lock", "valid", "dup", "unlock", "adopt">>[user.step]
    BY <1>6 DEF Instr, PinAssumption, Program
  <2> QED
    BY <1>1, <1>6, <2>1, <2>2 DEF Validating
<1>7. CASE user.op = "list"
  <2>1. user.step \in 1 .. 6
    BY <1>2, <1>7 DEF LastStep, PinAssumption
  <2>2. Instr = <<"lock", "valid", "scan", "valid", "unlock", "return">>[user.step]
    BY <1>7 DEF Instr, PinAssumption, Program
  <2> QED
    BY <1>1, <1>7, <2>1, <2>2 DEF Validating
<1>8. CASE user.op = "inspect"
  <2>1. user.step \in 1 .. 5
    BY <1>2, <1>8 DEF LastStep, PinAssumption
  <2>2. Instr = <<"valid", "valid", "stat", "valid", "return">>[user.step]
    BY <1>8 DEF Instr, PinAssumption, Program
  <2> QED
    BY <1>1, <1>8, <2>1, <2>2 DEF Validating
<1>9. CASE user.op = "read"
  <2>1. user.step \in 1 .. 8
    BY <1>2, <1>9 DEF LastStep, PinAssumption
  <2>2. Instr = <<"valid", "openat", "read", "rest", "valid", "public", "valid", "return">>[user.step]
    BY <1>9 DEF Instr, PinAssumption, Program
  <2> QED
    BY <1>1, <1>9, <2>1, <2>2 DEF Validating
<1> QED
  BY <1>1, <1>3, <1>4, <1>5, <1>6, <1>7, <1>8, <1>9 DEF OpNames, Uses

\* open and dup: the number returned was free.
LEMMA NextIsFree ==
    ASSUME PinAssumption, FreeFds # {}
    PROVE  NextFd \in 1 .. MaxFd /\ fds[NextFd] = Free
<1>1. FreeFds \subseteq Nat /\ FreeFds \subseteq 1 .. MaxFd
  BY DEF FreeFds, PinAssumption
<1>2. \E n \in FreeFds : \A m \in FreeFds : n <= m
  <2> DEFINE R == OpToRel(LAMBDA m, n : m < n, Nat)
  <2>1. \A m, n \in Nat : m < n => <<m, n>> \in R
    BY DEF OpToRel
  <2>2. IsWellFoundedOn(R, Nat)
    BY NatLessThanWellFounded
  <2> HIDE DEF R
  <2>3. PICK n \in FreeFds : \A m \in FreeFds : ~ (<<m, n>> \in R)
    BY <1>1, <2>2, WFMin
  <2>4. \A m \in FreeFds : m \in Nat /\ n \in Nat /\ ~ (m < n)
    BY <1>1, <2>1, <2>3
  <2>5. \A m \in FreeFds : n <= m
    BY <2>4
  <2> QED
    BY <2>5
<1>3. NextFd \in FreeFds
  BY <1>2 DEF NextFd, Min
<1> QED
  BY <1>1, <1>3 DEF FreeFds

LEMMA RangeAppended ==
    ASSUME NEW S, NEW s \in Seq(S), NEW e \in S
    PROVE  /\ RangeOf(Append(s, e)) = RangeOf(s) \cup {e}
           /\ Append(s, e) \in Seq(S) /\ Len(Append(s, e)) = Len(s) + 1
           /\ Append(s, e)[Len(s) + 1] = e
           /\ \A k \in 1 .. Len(s) : Append(s, e)[k] = s[k]
<1>1. /\ Append(s, e) \in Seq(S) /\ Len(Append(s, e)) = Len(s) + 1
      /\ Append(s, e)[Len(s) + 1] = e
      /\ \A k \in 1 .. Len(s) : Append(s, e)[k] = s[k]
  BY AppendProperties
<1>2. Len(s) \in Nat
  BY LenProperties
<1>3. \A k \in 1 .. Len(s) + 1 : k \in 1 .. Len(s) \/ k = Len(s) + 1
  BY <1>2
<1>4. RangeOf(Append(s, e)) = RangeOf(s) \cup {e}
  BY <1>1, <1>2, <1>3 DEF RangeOf
<1> QED
  BY <1>1, <1>4
-----------------------------------------------------------------------------
\* Lemmas on the owners of descriptors.
LEMMA OwnersAreSame ==
    ASSUME OneOwner, fds' = fds, foreign' = foreign,
           user'.fds = user.fds, user'.file = user.file,
           \A p \in Pins : /\ pin'[p].open = pin[p].open /\ pin'[p].fds = pin[p].fds
                           /\ pin'[p].ids = pin[p].ids
    PROVE  OneOwner'
<1>1. OwnedByOperation' = OwnedByOperation
  BY DEF OwnedByOperation
<1>2. \A p \in Pins : PinOwns(p)' = PinOwns(p)
  BY DEF PinOwns
<1>3. \A p \in Pins : pin'[p].open = pin[p].open /\ pin'[p].fds = pin[p].fds /\ pin'[p].ids = pin[p].ids
  OBVIOUS
<1> QED
  BY <1>1, <1>2, <1>3 DEF OneOwner

LEMMA PinOwnsIsTyped ==
    ASSUME PinTypes, NEW p \in Pins
    PROVE  PinOwns(p) \subseteq 1 .. MaxFd
<1>1. pin[p].fds \in Seq(1 .. MaxFd)
  BY DEF PinTypes, PinRecords
<1>2. \A k \in 1 .. Len(pin[p].fds) : pin[p].fds[k] \in 1 .. MaxFd
  BY <1>1, ElementOfSeq
<1> QED
  BY <1>2 DEF PinOwns, RangeOf

LEMMA OperationOwnsIsTyped ==
    ASSUME PinTypes
    PROVE  OwnedByOperation \subseteq 1 .. MaxFd
<1>1. user.fds \in Seq(1 .. MaxFd) /\ user.file \in 0 .. MaxFd
  BY DEF PinTypes, UserRecords
<1>2. \A k \in 1 .. Len(user.fds) : user.fds[k] \in 1 .. MaxFd
  BY <1>1, ElementOfSeq
<1> QED
  BY <1>1, <1>2 DEF OwnedByOperation, RangeOf

\* A descriptor that was free goes to the operation.
LEMMA OperationOpens ==
    ASSUME PinAssumption, PinTypes, PinsAreApproved, OneOwner, FreeFds # {},
           NEW d \in Dirs \cup {"file"},
           fds' = [fds EXCEPT ![NextFd] = d], foreign' = foreign, pin' = pin,
           OwnedByOperation' = OwnedByOperation \cup {NextFd}
    PROVE  OneOwner'
<1> DEFINE n == NextFd
<1>1. n \in 1 .. MaxFd /\ fds[n] = Free
  BY NextIsFree
<1>2. /\ n \notin foreign \cup OwnedByOperation
      /\ \A p \in Pins : n \notin PinOwns(p)
  BY <1>1 DEF OneOwner
<1>3. /\ fds' \in [1 .. MaxFd -> Dirs \cup {"file", Free}] /\ fds'[n] = d /\ d # Free
      /\ \A m \in 1 .. MaxFd : m # n => fds'[m] = fds[m]
  BY <1>1 DEF PinTypes, PinAssumption
<1>4. \A p \in Pins : PinOwns(p)' = PinOwns(p)
  BY DEF PinOwns
<1>5. OwnedByOperation' = OwnedByOperation \cup {n}
  OBVIOUS
<1> HIDE DEF n
<1>6. ASSUME NEW p \in Pins, pin'[p].open, NEW k \in 1 .. Depth(p)
      PROVE  fds'[pin'[p].fds[k]] = pin'[p].ids[k]
  <2>1. Len(pin[p].fds) = Depth(p)
    BY <1>6 DEF PinsAreApproved
  <2>2. pin[p].fds[k] \in PinOwns(p)
    BY <1>6, <2>1 DEF PinOwns, RangeOf
  <2>3. pin[p].fds[k] \in 1 .. MaxFd /\ pin[p].fds[k] # n
    BY <1>2, <2>2, PinOwnsIsTyped
  <2> QED
    BY <1>3, <1>6, <2>3 DEF OneOwner
<1>7. \A p \in Pins : PinOwns(p)' \cap (foreign' \cup OwnedByOperation') = {}
  BY <1>2, <1>4, <1>5 DEF OneOwner
<1>8. \A p \in Pins : \A q \in Pins \ {p} : PinOwns(p)' \cap PinOwns(q)' = {}
  BY <1>4 DEF OneOwner
<1>9. foreign' \cap OwnedByOperation' = {}
  BY <1>2, <1>5 DEF OneOwner
<1>10. \A m \in 1 .. MaxFd :
          fds'[m] # Free <=> m \in foreign' \cup OwnedByOperation' \/ \E p \in Pins : m \in PinOwns(p)'
  BY <1>2, <1>3, <1>4, <1>5 DEF OneOwner
<1> QED
  BY <1>6, <1>7, <1>8, <1>9, <1>10 DEF OneOwner

\* An operation that ends closes what it opened.
LEMMA OperationCloses ==
    ASSUME PinAssumption, PinTypes, PinsAreApproved, OneOwner,
           fds' = CloseAll(OwnedByOperation), foreign' = foreign, pin' = pin, user' = Idle
    PROVE  /\ OneOwner' /\ fds' \in [1 .. MaxFd -> Dirs \cup {"file", Free}]
           /\ \A m \in 1 .. MaxFd : fds'[m] = IF m \in OwnedByOperation THEN Free ELSE fds[m]
<1>1. OwnedByOperation' = {}
  BY DEF OwnedByOperation, Idle, RangeOf
<1>2. \A p \in Pins : PinOwns(p)' = PinOwns(p)
  BY DEF PinOwns
<1>3. /\ fds' \in [1 .. MaxFd -> Dirs \cup {"file", Free}]
      /\ \A m \in 1 .. MaxFd : fds'[m] = IF m \in OwnedByOperation THEN Free ELSE fds[m]
  BY DEF CloseAll, PinTypes
<1>4. ASSUME NEW p \in Pins, pin'[p].open, NEW k \in 1 .. Depth(p)
      PROVE  fds'[pin'[p].fds[k]] = pin'[p].ids[k]
  <2>1. Len(pin[p].fds) = Depth(p)
    BY <1>4 DEF PinsAreApproved
  <2>2. pin[p].fds[k] \in PinOwns(p)
    BY <1>4, <2>1 DEF PinOwns, RangeOf
  <2>3. pin[p].fds[k] \in 1 .. MaxFd /\ pin[p].fds[k] \notin OwnedByOperation
    BY <2>2, PinOwnsIsTyped DEF OneOwner
  <2> QED
    BY <1>3, <1>4, <2>3 DEF OneOwner
<1>5. \A m \in 1 .. MaxFd :
          fds'[m] # Free <=> m \in foreign' \cup OwnedByOperation' \/ \E p \in Pins : m \in PinOwns(p)'
  BY <1>1, <1>2, <1>3 DEF OneOwner
<1>6. \A p \in Pins : PinOwns(p)' \cap (foreign' \cup OwnedByOperation') = {}
  BY <1>1, <1>2 DEF OneOwner
<1>7. \A p \in Pins : \A q \in Pins \ {p} : PinOwns(p)' \cap PinOwns(q)' = {}
  BY <1>2 DEF OneOwner
<1> QED
  BY <1>1, <1>3, <1>4, <1>5, <1>6, <1>7 DEF OneOwner

-----------------------------------------------------------------------------
\* The operation is over: nothing is asked of an idle thread.
LEMMA IdleHolds ==
    ASSUME PinAssumption, user' = Idle, held' = held, held \subseteq {1, 2}
    PROVE  /\ user' \in UserRecords
           /\ UserIsAt' /\ IndexIsAt' /\ GuardIsHeld' /\ Collected' /\ EdgesAreSeen' /\ DirIsPinned'
<1>1. /\ user'.op = Nothing /\ user'.index = 0 /\ user'.fds = <<>> /\ user'.ids = <<>>
      /\ user'.file = 0
  BY DEF Idle
<1>2. Nothing \notin OpNames
  BY DEF PinAssumption, OpNames, Uses
<1>3. user' \in UserRecords
  BY DEF Idle, UserRecords, Uses, PinAssumption
<1>4. UserIsAt'
  BY <1>1, <1>2 DEF UserIsAt, OpNames
<1>5. ~Validating'
  BY <1>1, <1>2 DEF Validating, OpNames, Uses
<1>6. IndexIsAt' /\ GuardIsHeld'
  BY <1>1, <1>2, <1>5 DEF IndexIsAt, GuardIsHeld, Guarded, OpNames, Uses
<1>7. Collected'
  BY <1>1, <1>2 DEF Collected, OpNames, Uses
<1>8. EdgesAreSeen' /\ DirIsPinned'
  BY <1>1, <1>2 DEF EdgesAreSeen, DirIsPinned, OpNames, Uses
<1> QED
  BY <1>3, <1>4, <1>6, <1>7, <1>8

LEMMA GivingUpKeeps ==
    ASSUME PinAssumption, PinInv, GiveUp
    PROVE  PinInv'
<1> USE DEF PinInv
<1>1. fds' \in [1 .. MaxFd -> Dirs \cup {"file", Free}] /\ OneOwner'
  BY OperationCloses DEF GiveUp
<1>2. /\ user' \in UserRecords
      /\ UserIsAt' /\ IndexIsAt' /\ GuardIsHeld' /\ Collected' /\ EdgesAreSeen' /\ DirIsPinned'
  BY IdleHolds DEF GiveUp, PinTypes
<1>3. locks' \in [Pins -> {"user", Nothing}]
  BY DEF GiveUp, PinTypes
<1>4. PinTypes'
  BY <1>1, <1>2, <1>3 DEF GiveUp, PinTypes
<1>5. PinsAreApproved' /\ ResultHolds'
  BY DEF GiveUp, PinsAreApproved, ResultHolds
<1> QED
  BY <1>1, <1>2, <1>4, <1>5

LEMMA FailKeeps ==
    ASSUME PinAssumption, PinInv, Fail
    PROVE  PinInv'
BY GivingUpKeeps DEF Fail

LEMMA ReturnKeeps ==
    ASSUME PinAssumption, PinInv, Return
    PROVE  PinInv'
<1> USE DEF PinInv
<1>1. fds' \in [1 .. MaxFd -> Dirs \cup {"file", Free}] /\ OneOwner'
  BY OperationCloses DEF Return
<1>2. /\ user' \in UserRecords
      /\ UserIsAt' /\ IndexIsAt' /\ GuardIsHeld' /\ Collected' /\ EdgesAreSeen' /\ DirIsPinned'
  BY IdleHolds DEF Return, PinTypes
<1>3. PinTypes'
  BY <1>1, <1>2 DEF Return, PinTypes
<1>4. PinsAreApproved'
  BY DEF Return, PinsAreApproved
<1>5. \/ user.op = "list" /\ user.step = 6
      \/ user.op = "inspect" /\ user.step = 5
      \/ user.op = "read" /\ user.step = 8
  BY InstructionIsAt DEF Return
<1>6. user.dir = Approved[2] /\ user.whole
  BY <1>5 DEF DirIsPinned
<1>7. held = {1, 2}
  BY <1>5 DEF EdgesAreSeen, FirstValid, Uses
<1>8. ResultHolds'
  BY <1>6, <1>7 DEF Return, ResultHolds
<1> QED
  BY <1>1, <1>2, <1>3, <1>4, <1>8
-----------------------------------------------------------------------------
\* Steps of an operation that open and close nothing.
GoesOn ==
    /\ UNCHANGED <<at, stamps, fds, pin, closer, foreign, held, result>>
    /\ user' \in UserRecords /\ locks' \in [Pins -> {"user", Nothing}]
    /\ user'.op = user.op /\ user'.on = user.on /\ user'.fds = user.fds /\ user'.ids = user.ids
    /\ user'.file = user.file

LEMMA GoingOnKeeps ==
    ASSUME PinInv, GoesOn
    PROVE  PinTypes' /\ PinsAreApproved' /\ ResultHolds' /\ OneOwner'
<1> USE DEF PinInv
<1>1. PinTypes'
  BY DEF GoesOn, PinTypes
<1>2. PinsAreApproved' /\ ResultHolds'
  BY DEF GoesOn, PinsAreApproved, ResultHolds
<1>3. OneOwner'
  BY OwnersAreSame DEF GoesOn
<1> QED
  BY <1>1, <1>2, <1>3

\* The next instruction of the program.
LEMMA AdvancingIs ==
    ASSUME PinTypes, NEW u \in UserRecords, Advance(u)
    PROVE  /\ user'.op = u.op /\ user'.on = u.on /\ user'.fds = u.fds /\ user'.ids = u.ids
           /\ user'.file = u.file /\ user'.dir = u.dir /\ user'.half = u.half
           /\ user'.whole = u.whole /\ user'.step = u.step + 1 /\ user'.index = 0
           /\ u.step < 10 => user' \in UserRecords
<1>1. user' = [u EXCEPT !.step = u.step + 1, !.index = 0]
  BY DEF Advance
<1>2. u.step \in 1 .. 10 /\ (u.step < 10 => u.step + 1 \in 1 .. 10) /\ 0 \in 0 .. 2
  BY DEF UserRecords
<1>3. /\ user'.op = u.op /\ user'.on = u.on /\ user'.fds = u.fds /\ user'.ids = u.ids
      /\ user'.file = u.file /\ user'.dir = u.dir /\ user'.half = u.half
      /\ user'.whole = u.whole /\ user'.step = u.step + 1 /\ user'.index = 0
  BY <1>1 DEF UserRecords
<1>4. ASSUME u.step < 10 PROVE user' \in UserRecords
  <2>1. u.step + 1 \in 1 .. 10
    BY <1>2, <1>4
  <2> QED
    BY <1>1, <1>2, <2>1 DEF UserRecords
<1> QED
  BY <1>3, <1>4

\* What is left to show of an instruction that only goes on to the next.
LEMMA AdvanceKeeps ==
    ASSUME PinAssumption, PinInv, GoesOn, user'.step = user.step + 1, user'.index = 0,
           user.step < LastStep[user.op], user.op \in OpNames,
           user.op \in {"child", "copy"} => user.step \notin 2 .. 3,
           user.op = "list" => user.step \notin {2, 4},
           user.op = "open" /\ user.step = 3 => AsApproved(1),
           user.op = "child" /\ user.step = 8 => AsApproved(2),
           user.op = "open" => user.step # 1,
           user.op = "child" => user.step # 6,
           ~Validating, locks' = locks \/ ~Guarded',
           DirIsPinned'
    PROVE  PinInv'
<1> USE DEF PinInv
<1>1. PinTypes' /\ PinsAreApproved' /\ ResultHolds' /\ OneOwner'
  BY GoingOnKeeps
<1>2. /\ user'.op = user.op /\ user'.on = user.on /\ user'.fds = user.fds /\ user'.ids = user.ids
      /\ user'.file = user.file /\ fds' = fds /\ pin' = pin /\ held' = held /\ at' = at
      /\ user.step \in 1 .. 10
  BY DEF GoesOn, PinTypes, UserRecords
<1>3. UserIsAt'
  BY <1>2 DEF UserIsAt, LastStep, OpNames, Uses
<1>4. Depth(user'.on) \in {1, 2}
  BY DEF Depth
<1>5. IndexIsAt'
  BY <1>2, <1>4 DEF IndexIsAt
<1>6. Guarded' => Guarded
  BY <1>2 DEF Guarded, OpNames, Uses
<1>7. Collected'
  <2>1. \A k : AsApproved(k)' <=> AsApproved(k)
    BY <1>2 DEF AsApproved
  <2> QED
    BY SMTT(30), <1>2, <2>1 DEF Collected, LastStep, OpNames, Uses
<1>8. EdgesAreSeen'
  <2>1. \A n \in 1 .. 2 : EdgeHolds(Approved, n)' <=> EdgeHolds(Approved, n)
    BY <1>2 DEF EdgeHolds, ParentOf
  <2>2. user.op \in Uses => user.step # FirstValid
    BY DEF Validating, FirstValid, Uses
  <2>3. FirstValid' = FirstValid
    BY <1>2 DEF FirstValid
  <2> QED
    BY <1>2, <2>1, <2>2, <2>3 DEF EdgesAreSeen, FirstValid
<1> QED
  BY <1>1, <1>2, <1>3, <1>5, <1>6, <1>7, <1>8 DEF GuardIsHeld
LEMMA SimpleStepsKeep ==
    ASSUME PinAssumption, PinInv, Acquire \/ Release \/ Detach
    PROVE  PinInv'
<1> USE DEF PinInv
<1>1. /\ UNCHANGED <<at, stamps, fds, pin, closer, foreign, held, result>> /\ Advance(user)
      /\ \/ user.op \in {"child", "copy", "list"} /\ user.step = 1
         \/ user.op \in {"child", "copy"} /\ user.step = 4
         \/ user.op = "list" /\ user.step = 5
         \/ user.op = "child" /\ user.step = 5
  BY InstructionIsAt DEF Acquire, Release, Detach, TakeOverDuplicate
<1>2. locks' \in [Pins -> {"user", Nothing}]
  BY DEF Acquire, Release, Detach, TakeOverDuplicate, PinTypes
<1>3. user \in UserRecords /\ user.step < 10 /\ user.op \in OpNames /\ user.step < LastStep[user.op]
  BY <1>1 DEF PinTypes, OpNames, Uses, LastStep
<1>4. /\ user'.op = user.op /\ user'.on = user.on /\ user'.dir = user.dir /\ user'.half = user.half
      /\ user'.whole = user.whole /\ user'.step = user.step + 1 /\ user'.index = 0 /\ GoesOn
  BY <1>1, <1>2, <1>3, AdvancingIs DEF GoesOn
<1>5. DirIsPinned'
  BY <1>1, <1>4 DEF DirIsPinned
<1>6. ~Validating /\ ~Guarded'
  BY <1>1, <1>4 DEF Validating, Guarded
<1> QED
  BY <1>1, <1>3, <1>4, <1>5, <1>6, AdvanceKeeps

LEMMA ChecksKeep ==
    ASSUME PinAssumption, PinInv, CheckEdge \/ CheckExpected
    PROVE  PinInv'
<1> USE DEF PinInv
<1>1. CASE Fail
  BY <1>1, FailKeeps
<1>2. CASE ~Fail
  <2>1. /\ UNCHANGED <<at, stamps, fds, pin, closer, foreign, held, result>> /\ Advance(user)
        /\ locks' = locks
        /\ \/ user.op = "open" /\ user.step = 2
           \/ user.op = "child" /\ user.step = 7
           \/ user.op = "open" /\ user.step = 3 /\ ExpectedIdentity(user.ids)
           \/ user.op = "child" /\ user.step = 8 /\ ExpectedIdentity(user.ids)
    BY <1>2, InstructionIsAt DEF CheckEdge, CheckExpected
  <2>2. locks' \in [Pins -> {"user", Nothing}]
    BY <2>1 DEF PinTypes
  <2>3. user \in UserRecords /\ user.step < 10 /\ user.op \in OpNames /\ user.step < LastStep[user.op]
    BY <2>1 DEF PinTypes, OpNames, Uses, LastStep
  <2>4. /\ user'.op = user.op /\ user'.on = user.on /\ user'.dir = user.dir /\ user'.half = user.half
        /\ user'.whole = user.whole /\ user'.step = user.step + 1 /\ user'.index = 0 /\ GoesOn
    BY <2>1, <2>2, <2>3, AdvancingIs DEF GoesOn
  <2>5. DirIsPinned'
    BY <2>1, <2>4 DEF DirIsPinned
  <2>6. ~Validating
    BY <2>1, <2>4 DEF Validating
  <2>7. /\ user.op = "open" /\ user.step = 3 => AsApproved(1)
        /\ user.op = "child" /\ user.step = 8 => AsApproved(2)
    BY <2>1 DEF ExpectedIdentity, AsApproved, Collected
  <2> QED
    BY <2>1, <2>3, <2>4, <2>5, <2>6, <2>7, AdvanceKeeps
<1> QED
  BY <1>1, <1>2

LEMMA LookingKeeps ==
    ASSUME PinAssumption, PinInv, Scan \/ InspectChild
    PROVE  PinInv'
<1> USE DEF PinInv
<1>1. CASE Fail
  BY <1>1, FailKeeps
<1>2. CASE ~Fail
  <2> DEFINE d == fds[pin[user.on].fds[Len(pin[user.on].fds)]]
             u == [user EXCEPT !.dir = d, !.whole = TRUE]
  <2>1. /\ UNCHANGED <<at, stamps, fds, pin, closer, foreign, held, result>> /\ Advance(u)
        /\ locks' = locks /\ d \in LeafDirs
        /\ user.op \in {"list", "inspect"} /\ user.step = 3
    BY <1>2, InstructionIsAt DEF Scan, InspectChild
  <2>2. locks' \in [Pins -> {"user", Nothing}]
    BY <2>1 DEF PinTypes
  <2>3. /\ u \in UserRecords /\ user.step < 10 /\ user.op \in OpNames
        /\ user.step < LastStep[user.op]
    <3>1. user.step < 10 /\ user.op \in OpNames /\ user.step < LastStep[user.op]
      BY <2>1 DEF OpNames, Uses, LastStep
    <3>2. user \in UserRecords /\ d \in LeafDirs
      BY <2>1 DEF PinTypes
    <3> HIDE DEF d
    <3>3. u \in UserRecords
      BY <3>2 DEF UserRecords
    <3> QED
      BY <3>1, <3>3
  <2>4. /\ u.op = user.op /\ u.on = user.on /\ u.fds = user.fds /\ u.ids = user.ids
        /\ u.file = user.file /\ u.step = user.step /\ u.dir = d /\ u.whole = TRUE
    BY DEF PinTypes, UserRecords
  <2>5. user.on \in {"leaf", "copy"} /\ pin[user.on].ids = PinIds(user.on) /\ Len(pin[user.on].fds) = 2
    BY <2>1 DEF UserIsAt, Uses, Depth
  <2>6. pin[user.on].open => d = Approved[2]
    BY <2>5 DEF OneOwner, Depth, PinIds, Pins
  <2>7. user.op = "list" => pin[user.on].open
    BY <2>1 DEF GuardIsHeld, Guarded
  <2>8. pin[user.on].alive => pin[user.on].open
    BY <2>5 DEF PinsAreApproved, Pins
  <2> HIDE DEF d, u
  <2>9. /\ user'.op = user.op /\ user'.on = user.on /\ user'.dir = d
        /\ user'.whole = TRUE /\ user'.step = user.step + 1 /\ user'.index = 0 /\ GoesOn
    BY <2>1, <2>2, <2>3, <2>4, AdvancingIs DEF GoesOn
  <2>10. DirIsPinned'
    BY <2>1, <2>6, <2>7, <2>8, <2>9 DEF DirIsPinned
  <2>11. ~Validating
    BY <2>1 DEF Validating
  <2> QED
    BY <2>1, <2>3, <2>9, <2>10, <2>11, AdvanceKeeps
<1> QED
  BY <1>1, <1>2

LEMMA ReadingKeeps ==
    ASSUME PinAssumption, PinInv, ReadFirst \/ ReadRest \/ CheckFile
    PROVE  PinInv'
<1> USE DEF PinInv
<1>1. CASE Fail
  BY <1>1, FailKeeps
<1>2. CASE ~Fail
  <2>1. /\ UNCHANGED <<at, stamps, fds, pin, closer, foreign, held, result>> /\ locks' = locks
        /\ user.op = "read" /\ user.step \in {3, 4, 6} /\ user.dir \in LeafDirs
        /\ stamps[user.dir] \in Nat
    BY <1>2, InstructionIsAt DEF ReadFirst, ReadRest, CheckFile, DirIsPinned, PinTypes
  <2>2. locks' \in [Pins -> {"user", Nothing}] /\ user \in UserRecords
    BY <2>1 DEF PinTypes
  <2>3. user.step < 10 /\ user.op \in OpNames /\ user.step < LastStep[user.op]
    BY <2>1 DEF OpNames, Uses, LastStep
  <2>4. PICK u \in UserRecords :
           /\ Advance(u) /\ u.op = user.op /\ u.on = user.on /\ u.fds = user.fds /\ u.ids = user.ids
           /\ u.file = user.file /\ u.step = user.step /\ u.dir = user.dir
           /\ \/ user.step = 3 /\ u.half = stamps[user.dir]
              \/ user.step = 4 /\ u.half = user.half /\ u.whole = (stamps[user.dir] = user.half)
              \/ user.step = 6 /\ u.half = user.half /\ u.whole = user.whole
                 /\ stamps[user.dir] = user.half
    <3>1. CASE ReadFirst
      <4> DEFINE u == [user EXCEPT !.half = stamps[user.dir]]
      <4>1. u \in UserRecords /\ user.step = 3 /\ Advance(u)
        BY <2>1, <2>2, <3>1, InstructionIsAt DEF ReadFirst, UserRecords
      <4>2. /\ u.op = user.op /\ u.on = user.on /\ u.fds = user.fds /\ u.ids = user.ids
            /\ u.file = user.file /\ u.step = user.step /\ u.dir = user.dir
            /\ u.half = stamps[user.dir]
        BY <2>2 DEF UserRecords
      <4> HIDE DEF u
      <4> QED
        BY <4>1, <4>2
    <3>2. CASE ReadRest
      <4> DEFINE u == [user EXCEPT !.whole = stamps[user.dir] = user.half]
      <4>1. u \in UserRecords /\ user.step = 4 /\ Advance(u)
        BY <2>1, <2>2, <3>2, InstructionIsAt DEF ReadRest, UserRecords
      <4>2. /\ u.op = user.op /\ u.on = user.on /\ u.fds = user.fds /\ u.ids = user.ids
            /\ u.file = user.file /\ u.step = user.step /\ u.dir = user.dir
            /\ u.half = user.half /\ u.whole = (stamps[user.dir] = user.half)
        BY <2>2 DEF UserRecords
      <4> HIDE DEF u
      <4> QED
        BY <4>1, <4>2
    <3>3. CASE CheckFile
      <4>1. user.step = 6 /\ Advance(user) /\ SameFile
        BY <1>2, <3>3, InstructionIsAt DEF CheckFile
      <4> QED
        BY <2>2, <4>1 DEF SameFile
    <3> QED
      BY <3>1, <3>2, <3>3
  <2>5. /\ user'.op = user.op /\ user'.on = user.on /\ user'.dir = user.dir /\ user'.half = u.half
        /\ user'.whole = u.whole /\ user'.step = user.step + 1 /\ user'.index = 0 /\ GoesOn
    BY <2>1, <2>2, <2>3, <2>4, AdvancingIs DEF GoesOn
  <2>6. DirIsPinned'
    <3>1. CASE user.step = 3
      BY <2>1, <2>4, <2>5, <3>1 DEF DirIsPinned
    <3>2. CASE user.step = 4
      <4>1. user.half \in Nat /\ user.half <= stamps[user.dir]
        BY <2>1, <3>2 DEF DirIsPinned
      <4>2. u.whole \/ user.half < stamps[user.dir]
        <5>1. 4 # 3 /\ 4 # 6
          OBVIOUS
        <5>2. u.whole = (stamps[user.dir] = user.half)
          BY <2>4, <3>2, <5>1, Zenon
        <5>3. stamps[user.dir] = user.half => u.whole
          BY <5>2, Zenon
        <5>4. stamps[user.dir] # user.half => user.half < stamps[user.dir]
          BY <2>1, <4>1
        <5> QED
          BY <5>3, <5>4, Zenon
      <4> QED
        BY <2>1, <2>4, <2>5, <3>2, <4>1, <4>2 DEF DirIsPinned
    <3>3. CASE user.step = 6
      BY <2>1, <2>4, <2>5, <3>3 DEF DirIsPinned
    <3> QED
      BY <2>1, <3>1, <3>2, <3>3
  <2>7. ~Validating
    BY <2>1 DEF Validating
  <2> QED
    BY <2>1, <2>3, <2>5, <2>6, <2>7, AdvanceKeeps
<1> QED
  BY <1>1, <1>2
LEMMA ValidatingIsOn ==
    ASSUME PinAssumption, PinInv, Validating
    PROVE  /\ user.on \in Pins /\ user.op \in Uses \cup {"child", "copy"}
           /\ pin[user.on].ids = PinIds(user.on) /\ Len(pin[user.on].fds) = Depth(user.on)
           /\ user.op = "child" => Depth(user.on) = 1
           /\ user.op # "child" => Depth(user.on) = 2
           /\ user.step < LastStep[user.op] /\ user.step < 10 /\ user.op \in OpNames
           /\ user \in UserRecords /\ user.index \in 0 .. 2 /\ user.step \in 1 .. 10
<1>1. user.op \in Uses \cup {"child", "copy"}
  BY DEF Validating, Uses
<1>2. user.step < LastStep[user.op] /\ user.step < 10 /\ user.op \in OpNames
  BY DEF Validating, LastStep, OpNames, Uses
<1>3. user \in UserRecords /\ user.index \in 0 .. 2 /\ user.step \in 1 .. 10
  BY DEF PinInv, PinTypes, UserRecords
<1> QED
  BY <1>1, <1>2, <1>3 DEF PinInv, UserIsAt, Pins, Depth, Uses

LEMMA ValidateBeginKeeps ==
    ASSUME PinAssumption, PinInv, ValidateBegin
    PROVE  PinInv'
<1> USE DEF PinInv
<1>1. CASE Fail
  BY <1>1, FailKeeps
<1>2. CASE ~Fail
  <2>1. /\ UNCHANGED <<at, stamps, fds, pin, closer, foreign, held, result>>
        /\ user' = [user EXCEPT !.index = 1] /\ locks' = [locks EXCEPT ![user.on] = "user"]
        /\ pin[user.on].alive /\ Validating
    BY <1>2, InstructionIsAt DEF ValidateBegin, FinalizerAlive
  <2>2. /\ user.on \in Pins /\ user.op \in Uses \cup {"child", "copy"}
        /\ user \in UserRecords /\ Depth(user.on) \in {1, 2}
    BY <2>1, ValidatingIsOn
  <2>3. /\ user'.op = user.op /\ user'.on = user.on /\ user'.fds = user.fds /\ user'.ids = user.ids
        /\ user'.file = user.file /\ user'.dir = user.dir /\ user'.half = user.half
        /\ user'.whole = user.whole /\ user'.step = user.step /\ user'.index = 1
    BY <2>1, <2>2 DEF UserRecords
  <2>4. user' \in UserRecords
    <3>1. user \in UserRecords /\ user' = [user EXCEPT !.index = 1] /\ 1 \in 0 .. 2
      BY <2>1, <2>2
    <3> QED
      BY <3>1 DEF UserRecords
  <2>5. locks' \in [Pins -> {"user", Nothing}] /\ locks'[user.on] = "user"
    BY <2>1, <2>2 DEF PinTypes
  <2>6. GoesOn
    BY <2>1, <2>3, <2>4, <2>5 DEF GoesOn
  <2>7. PinTypes' /\ PinsAreApproved' /\ ResultHolds' /\ OneOwner'
    BY <2>6, GoingOnKeeps
  <2>8. UserIsAt'
    BY <2>1, <2>3 DEF UserIsAt
  <2>9. Validating' /\ Depth(user'.on) = Depth(user.on)
    BY <2>1, <2>3 DEF Validating
  <2>10. IndexIsAt'
    BY <2>2, <2>3, <2>9 DEF IndexIsAt
  <2>11. GuardIsHeld'
    BY <2>1, <2>2, <2>3, <2>5 DEF GuardIsHeld, PinsAreApproved
  <2>12. Collected'
    <3>1. \A k : AsApproved(k)' <=> AsApproved(k)
      BY <2>3 DEF AsApproved
    <3> QED
      BY <2>1, <2>3, <3>1 DEF Collected
  <2>13. EdgesAreSeen'
    <3>1. \A n \in 1 .. 2 : EdgeHolds(Approved, n)' <=> EdgeHolds(Approved, n)
      BY <2>1 DEF EdgeHolds, ParentOf
    <3>2. FirstValid' = FirstValid
      BY <2>3 DEF FirstValid
    <3> QED
      BY <2>1, <2>3, <3>1, <3>2 DEF EdgesAreSeen
  <2>14. DirIsPinned'
    BY <2>1, <2>3 DEF DirIsPinned
  <2> QED
    BY <2>7, <2>8, <2>10, <2>11, <2>12, <2>13, <2>14
<1> QED
  BY <1>1, <1>2

LEMMA ValidateStepKeeps ==
    ASSUME PinAssumption, PinInv, ValidateStep
    PROVE  PinInv'
<1> USE DEF PinInv
<1>1. CASE Fail
  BY <1>1, FailKeeps
<1>2. CASE ~Fail
  <2>1. /\ UNCHANGED <<at, stamps, fds, pin, closer, foreign, held, result>>
        /\ Validating /\ user.index > 0 /\ ComponentStands(user.index)
        /\ \/ /\ user.index < Len(pin[user.on].fds) /\ locks' = locks
              /\ user' = [user EXCEPT !.index = user.index + 1]
           \/ /\ ~(user.index < Len(pin[user.on].fds)) /\ Advance(user)
              /\ locks' = IF user.op \in {"read", "inspect"}
                          THEN [locks EXCEPT ![user.on] = Nothing] ELSE locks
    BY <1>2, InstructionIsAt DEF ValidateStep
  <2>2. /\ user.on \in Pins /\ user.op \in Uses \cup {"child", "copy"}
        /\ pin[user.on].ids = PinIds(user.on) /\ Len(pin[user.on].fds) = Depth(user.on)
        /\ user.op = "child" => Depth(user.on) = 1
        /\ user.op # "child" => Depth(user.on) = 2
        /\ user.step < LastStep[user.op] /\ user.step < 10 /\ user.op \in OpNames
        /\ user \in UserRecords /\ user.index \in 0 .. 2 /\ user.step \in 1 .. 10
    BY <2>1, ValidatingIsOn
  <2>3. locks[user.on] = "user" /\ pin[user.on].open
    BY <2>1 DEF GuardIsHeld, Guarded
  <2>4. user.index \in 1 .. Depth(user.on)
    BY <2>1, <2>2 DEF IndexIsAt
  <2>5. user.index \in held
    <3>1. EdgeHolds(PinIds(user.on), user.index)
      BY <2>1, <2>2 DEF ComponentStands
    <3>2. EdgeHolds(Approved, user.index)
      BY <2>4, <3>1 DEF EdgeHolds, ParentOf, PinIds, Depth
    <3>3. Nothing # user.op /\ user.index \in 1 .. 2
      BY <2>1, <2>2 DEF PinAssumption, OpNames, Uses
    <3> QED
      BY <3>2, <3>3 DEF EdgesAreSeen
  <2>6. held \subseteq {1, 2}
    BY DEF PinTypes
  <2>7. CASE user.index < Len(pin[user.on].fds)
    <3>1. /\ user.index = 1 /\ user' = [user EXCEPT !.index = 2] /\ locks' = locks
          /\ Depth(user.on) = 2 /\ user.op # "child"
      BY <2>1, <2>2, <2>7
    <3>2. /\ user'.op = user.op /\ user'.on = user.on /\ user'.fds = user.fds /\ user'.ids = user.ids
          /\ user'.file = user.file /\ user'.dir = user.dir /\ user'.half = user.half
          /\ user'.whole = user.whole /\ user'.step = user.step /\ user'.index = 2
      BY <2>2, <3>1 DEF UserRecords
    <3>3. user' \in UserRecords
      BY <2>2, <3>1 DEF UserRecords
    <3>4. GoesOn
      BY <2>1, <3>1, <3>2, <3>3 DEF GoesOn, PinTypes
    <3>5. PinTypes' /\ PinsAreApproved' /\ ResultHolds' /\ OneOwner'
      BY <3>4, GoingOnKeeps
    <3>6. UserIsAt'
      BY <2>1, <3>2 DEF UserIsAt
    <3>7. Validating' /\ Depth(user'.on) = 2
      BY <2>1, <3>1, <3>2 DEF Validating
    <3>8. IndexIsAt'
      BY <3>1, <3>2, <3>7 DEF IndexIsAt
    <3>9. GuardIsHeld'
      BY <2>1, <2>3, <3>1, <3>2 DEF GuardIsHeld
    <3>10. Collected'
      <4>1. \A k : AsApproved(k)' <=> AsApproved(k)
        BY <3>2 DEF AsApproved
      <4> QED
        BY <2>1, <3>2, <4>1 DEF Collected
    <3>11. EdgesAreSeen'
      <4>1. \A n \in 1 .. 2 : EdgeHolds(Approved, n)' <=> EdgeHolds(Approved, n)
        BY <2>1 DEF EdgeHolds, ParentOf
      <4>2. FirstValid' = FirstValid
        BY <3>2 DEF FirstValid
      <4> QED
        BY <2>1, <2>5, <3>1, <3>2, <4>1, <4>2 DEF EdgesAreSeen
    <3>12. DirIsPinned'
      BY <2>1, <3>2 DEF DirIsPinned
    <3> QED
      BY <3>5, <3>6, <3>8, <3>9, <3>10, <3>11, <3>12
  <2>8. CASE ~(user.index < Len(pin[user.on].fds))
    <3>1. /\ Advance(user) /\ user.index = Depth(user.on)
          /\ locks' = IF user.op \in {"read", "inspect"}
                      THEN [locks EXCEPT ![user.on] = Nothing] ELSE locks
      BY <2>1, <2>2, <2>4, <2>8
    <3>2. /\ user'.op = user.op /\ user'.on = user.on /\ user'.fds = user.fds /\ user'.ids = user.ids
          /\ user'.file = user.file /\ user'.dir = user.dir /\ user'.half = user.half
          /\ user'.whole = user.whole /\ user'.step = user.step + 1 /\ user'.index = 0
          /\ user' \in UserRecords
      BY <2>2, <3>1, AdvancingIs
    <3>3. locks' \in [Pins -> {"user", Nothing}]
      BY <3>1 DEF PinTypes
    <3>4. GoesOn
      BY <2>1, <3>2, <3>3 DEF GoesOn
    <3>5. PinTypes' /\ PinsAreApproved' /\ ResultHolds' /\ OneOwner'
      BY <3>4, GoingOnKeeps
    <3>6. UserIsAt'
      BY <2>1, <2>2, <3>2 DEF UserIsAt, OpNames, Uses, LastStep
    <3>7. IndexIsAt'
      BY <2>2, <3>2 DEF IndexIsAt, Depth
    <3>8. GuardIsHeld'
      BY <2>1, <2>3, <3>1, <3>2 DEF GuardIsHeld, Guarded
    <3>9. Collected'
      <4>1. \A k : AsApproved(k)' <=> AsApproved(k)
        BY <3>2 DEF AsApproved
      <4> QED
        BY <2>1, <3>2, <4>1 DEF Collected, Validating, Uses
    <3>10. EdgesAreSeen'
      <4>1. \A n \in 1 .. 2 : EdgeHolds(Approved, n)' <=> EdgeHolds(Approved, n)
        BY <2>1 DEF EdgeHolds, ParentOf
      <4>2. FirstValid' = FirstValid /\ FirstValid \in {1, 2}
        BY <3>2 DEF FirstValid
      <4>3. user.op \in Uses => user.step >= FirstValid /\ user.index = 2
        BY <2>1, <2>2, <3>1 DEF Validating, FirstValid, Uses
      <4>4. user.op \in Uses => held = {1, 2}
        <5>1. CASE user.op \in Uses /\ user.step > FirstValid
          BY <5>1 DEF EdgesAreSeen
        <5>2. CASE user.op \in Uses /\ user.step = FirstValid
          <6>1. 1 \in held /\ 2 \in held
            BY <2>5, <4>3, <5>2 DEF EdgesAreSeen
          <6> QED
            BY <2>6, <6>1
        <5>3. user.op \in Uses => user.step > FirstValid \/ user.step = FirstValid
          BY <2>2, <4>2, <4>3
        <5> QED
          BY <5>1, <5>2, <5>3
      <4> QED
        BY <2>1, <2>2, <3>2, <4>1, <4>2, <4>3, <4>4 DEF EdgesAreSeen
    <3>11. DirIsPinned'
      BY <2>1, <3>2 DEF DirIsPinned, Validating
    <3> QED
      BY <3>5, <3>6, <3>7, <3>8, <3>9, <3>10, <3>11
  <2> QED
    BY <2>7, <2>8
<1> QED
  BY <1>1, <1>2

LEMMA ValidateNewKeeps ==
    ASSUME PinAssumption, PinInv, ValidateNew
    PROVE  PinInv'
<1> USE DEF PinInv
<1>1. CASE FailBuilt
  BY <1>1, GivingUpKeeps DEF FailBuilt
<1>2. CASE ~FailBuilt
  <2>1. /\ UNCHANGED <<at, stamps, fds, pin, closer, foreign, held, result>> /\ locks' = locks
        /\ \/ user.op = "open" /\ user.step = 4
           \/ user.op = "child" /\ user.step = 9
        /\ \/ user.index + 1 = Len(user.ids) /\ Advance(user)
           \/ user.index + 1 # Len(user.ids) /\ user' = [user EXCEPT !.index = user.index + 1]
    BY <1>2, InstructionIsAt DEF ValidateNew
  <2>2. /\ user \in UserRecords /\ locks' \in [Pins -> {"user", Nothing}]
        /\ user.step < 10 /\ user.op \in OpNames /\ user.step < LastStep[user.op] /\ ~Validating
    BY <2>1 DEF PinTypes, OpNames, Uses, LastStep, Validating
  <2>3. /\ user.op = "open" => user.index = 0 /\ Len(user.ids) = 1
        /\ user.op = "child" => user.index \in {0, 1} /\ Len(user.ids) = 2
    BY <2>1, <2>2 DEF IndexIsAt, Collected, UserRecords
  <2>4. CASE Advance(user)
    <3>1. /\ user'.op = user.op /\ user'.on = user.on /\ user'.dir = user.dir
          /\ user'.half = user.half /\ user'.whole = user.whole /\ user'.step = user.step + 1
          /\ user'.index = 0 /\ GoesOn
      BY <2>1, <2>2, <2>4, AdvancingIs DEF GoesOn
    <3>2. DirIsPinned'
      BY <2>1, <3>1 DEF DirIsPinned
    <3> QED
      BY <2>1, <2>2, <3>1, <3>2, AdvanceKeeps
  <2>5. CASE ~Advance(user)
    <3>1. user' = [user EXCEPT !.index = 1] /\ user.op = "child" /\ user.index = 0
      <4>1. user.index + 1 # Len(user.ids) /\ user' = [user EXCEPT !.index = user.index + 1]
        BY <2>1, <2>5
      <4>2. user.op = "child" /\ user.index = 0
        <5>1. user.index = 0 => user.index + 1 = 1
          OBVIOUS
        <5>2. user.index = 1 => user.index + 1 = 2
          OBVIOUS
        <5> QED
          BY <2>1, <2>3, <4>1, <5>1, <5>2, Zenon
      <4>3. user.index + 1 = 1
        BY <4>2
      <4> QED
        BY <4>1, <4>2, <4>3
    <3>2. /\ user'.op = user.op /\ user'.on = user.on /\ user'.fds = user.fds /\ user'.ids = user.ids
          /\ user'.file = user.file /\ user'.dir = user.dir /\ user'.half = user.half
          /\ user'.whole = user.whole /\ user'.step = user.step /\ user'.index = 1
      BY <2>2, <3>1 DEF UserRecords
    <3>3. user' \in UserRecords
      BY SMTT(30), <2>2, <3>1 DEF UserRecords
    <3>4. GoesOn
      BY <2>1, <2>2, <3>2, <3>3 DEF GoesOn
    <3>5. PinTypes' /\ PinsAreApproved' /\ ResultHolds' /\ OneOwner'
      BY <3>4, GoingOnKeeps
    <3>6. UserIsAt'
      BY <2>1, <3>2 DEF UserIsAt
    <3>7. ~Validating'
      BY <2>1, <3>1, <3>2 DEF Validating
    <3>8. IndexIsAt' /\ GuardIsHeld'
      BY <2>1, <3>1, <3>2, <3>7 DEF IndexIsAt, GuardIsHeld, Guarded
    <3>9. Collected'
      <4>1. \A k : AsApproved(k)' <=> AsApproved(k)
        BY <3>2 DEF AsApproved
      <4> QED
        BY <2>1, <3>2, <4>1 DEF Collected
    <3>10. EdgesAreSeen'
      <4>1. \A n \in 1 .. 2 : EdgeHolds(Approved, n)' <=> EdgeHolds(Approved, n)
        BY <2>1 DEF EdgeHolds, ParentOf
      <4> QED
        BY <2>1, <3>1, <3>2, <4>1 DEF EdgesAreSeen, Uses
    <3>11. DirIsPinned'
      BY <2>1, <3>1, <3>2 DEF DirIsPinned
    <3> QED
      BY <3>5, <3>6, <3>8, <3>9, <3>10, <3>11
  <2> QED
    BY <2>4, <2>5
<1> QED
  BY <1>1, <1>2
-----------------------------------------------------------------------------
\* Steps of an operation that open a descriptor.
LEMMA OwnedStays ==
    ASSUME PinAssumption, PinInv, FreeFds # {}, NEW d, fds' = [fds EXCEPT ![NextFd] = d]
    PROVE  /\ NextFd \in 1 .. MaxFd /\ fds'[NextFd] = d
           /\ \A k \in 1 .. Len(user.fds) :
                 user.fds[k] \in 1 .. MaxFd /\ fds'[user.fds[k]] = fds[user.fds[k]]
           /\ user.file # 0 => fds'[user.file] = fds[user.file]
<1>1. NextFd \in 1 .. MaxFd /\ fds[NextFd] = Free
  BY NextIsFree
<1>2. NextFd \notin OwnedByOperation /\ OwnedByOperation \subseteq 1 .. MaxFd
  BY <1>1, OperationOwnsIsTyped DEF PinInv, OneOwner
<1>3. /\ \A k \in 1 .. Len(user.fds) : user.fds[k] \in OwnedByOperation
      /\ user.file # 0 => user.file \in OwnedByOperation
  BY DEF OwnedByOperation, RangeOf
<1> QED
  BY <1>1, <1>2, <1>3 DEF PinInv, PinTypes

LEMMA CollectingKeeps ==
    ASSUME PinAssumption, PinInv, FreeFds # {}, NEW d \in Dirs,
           fds' = [fds EXCEPT ![NextFd] = d], foreign' = foreign, pin' = pin,
           user'.fds = Append(user.fds, NextFd), user'.ids = Append(user.ids, d),
           user'.file = user.file
    PROVE  /\ OneOwner' /\ fds' \in [1 .. MaxFd -> Dirs \cup {"file", Free}]
           /\ Len(user'.fds) = Len(user.fds) + 1 /\ Len(user'.ids) = Len(user.fds) + 1
           /\ \A k \in 1 .. Len(user'.fds) : fds'[user'.fds[k]] = user'.ids[k]
           /\ \A k \in 1 .. Len(user.fds) : user'.ids[k] = user.ids[k]
           /\ user'.ids[Len(user.fds) + 1] = d
<1> USE DEF PinInv
<1>1. /\ user.fds \in Seq(1 .. MaxFd) /\ user.ids \in Seq(Dirs) /\ Len(user.fds) = Len(user.ids)
      /\ Len(user.fds) \in Nat /\ NextFd \in 1 .. MaxFd
  BY NextIsFree, LenProperties DEF PinTypes, UserRecords, Collected
<1>2. /\ RangeOf(user'.fds) = RangeOf(user.fds) \cup {NextFd}
      /\ Len(user'.fds) = Len(user.fds) + 1
      /\ user'.fds[Len(user.fds) + 1] = NextFd
      /\ \A k \in 1 .. Len(user.fds) : user'.fds[k] = user.fds[k]
  <2>1. user.fds \in Seq(1 .. MaxFd) /\ NextFd \in 1 .. MaxFd /\ user'.fds = Append(user.fds, NextFd)
    BY <1>1
  <2> DEFINE s == Append(user.fds, NextFd)
  <2>2. /\ RangeOf(s) = RangeOf(user.fds) \cup {NextFd} /\ Len(s) = Len(user.fds) + 1
        /\ s[Len(user.fds) + 1] = NextFd
        /\ \A k \in 1 .. Len(user.fds) : s[k] = user.fds[k]
    <3> DEFINE S == 1 .. MaxFd
               t == user.fds
               e == NextFd
    <3>1. t \in Seq(S) /\ e \in S
      BY <2>1
    <3> HIDE DEF S, t, e, PinInv
    <3>2. /\ RangeOf(Append(t, e)) = RangeOf(t) \cup {e}
          /\ Len(Append(t, e)) = Len(t) + 1 /\ Append(t, e)[Len(t) + 1] = e
          /\ \A k \in 1 .. Len(t) : Append(t, e)[k] = t[k]
      BY <3>1, RangeAppended
    <3> QED
      BY <3>2 DEF t, e
  <2>3. user'.fds = s
    BY <2>1
  <2> HIDE DEF s, PinInv
  <2> QED
    BY <2>2, <2>3
<1>3. /\ Len(user'.ids) = Len(user.fds) + 1
      /\ user'.ids[Len(user.fds) + 1] = d
      /\ \A k \in 1 .. Len(user.fds) : user'.ids[k] = user.ids[k]
  BY <1>1, RangeAppended
<1>4. OwnedByOperation' = OwnedByOperation \cup {NextFd}
  BY <1>2 DEF OwnedByOperation
<1>5. OneOwner'
  BY <1>4, OperationOpens
<1>6. /\ fds'[NextFd] = d
      /\ \A k \in 1 .. Len(user.fds) : fds'[user.fds[k]] = fds[user.fds[k]]
  BY OwnedStays
<1>7. ASSUME NEW k \in 1 .. Len(user'.fds)
      PROVE  fds'[user'.fds[k]] = user'.ids[k]
  <2>1. k \in 1 .. Len(user.fds) \/ k = Len(user.fds) + 1
    BY <1>1, <1>2
  <2>2. CASE k \in 1 .. Len(user.fds)
    BY <1>2, <1>3, <1>6, <2>2 DEF Collected
  <2>3. CASE k = Len(user.fds) + 1
    BY <1>2, <1>3, <1>6, <2>3
  <2> QED
    BY <2>1, <2>2, <2>3
<1>8. fds' \in [1 .. MaxFd -> Dirs \cup {"file", Free}]
  BY <1>1 DEF PinTypes
<1> QED
  BY <1>2, <1>3, <1>5, <1>7, <1>8

\* One more descriptor of an operation that makes a pin.
LEMMA WalkingKeeps ==
    ASSUME PinAssumption, PinInv, Walk \/ Duplicate
    PROVE  PinInv'
<1> USE DEF PinInv
<1>1. CASE Fail
  BY <1>1, FailKeeps
<1>2. CASE ~Fail
  <2> DEFINE k == Len(user.fds) + 1
             u(d) == [user EXCEPT !.fds = Append(user.fds, NextFd), !.ids = Append(user.ids, d)]
  <2>0. /\ user \in UserRecords /\ user.fds \in Seq(1 .. MaxFd) /\ user.ids \in Seq(Dirs)
        /\ Len(user.fds) \in Nat /\ Len(user.fds) = Len(user.ids)
    BY LenProperties DEF PinTypes, UserRecords, Collected
  <2>1. PICK d \in Dirs :
           /\ FreeFds # {} /\ fds' = [fds EXCEPT ![NextFd] = d]
           /\ UNCHANGED <<at, stamps, pin, locks, closer, foreign, held, result>>
           /\ \/ user.op = "open" /\ user.step = 1 /\ Advance(u(d))
              \/ user.op = "child" /\ user.step = 6 /\ Advance(u(d))
              \/ user.op = "child" /\ user.step = 3 /\ Advance(u(d)) /\ d = Approved[k]
              \/ user.op = "copy" /\ user.step = 3 /\ Advance(u(d)) /\ d = Approved[k] /\ k = 2
              \/ user.op = "copy" /\ user.step = 3 /\ user' = u(d) /\ d = Approved[k] /\ k = 1
    <3>1. CASE Walk
      <4> DEFINE d == at[ParentOf(user.ids, Len(user.ids) + 1)]
      <4>1. \/ user.op = "open" /\ user.step = 1
            \/ user.op = "child" /\ user.step = 6
        BY <3>1, InstructionIsAt DEF Walk
      <4>2. d \in Dirs
        BY <4>1 DEF Collected, ParentOf, AsApproved, PinTypes, Dirs, PinAssumption
      <4> QED
        BY <3>1, <4>1, <4>2 DEF Walk
    <3>2. CASE Duplicate
      <4> DEFINE d == fds[pin[user.on].fds[k]]
      <4>1. user.op \in {"child", "copy"} /\ user.step = 3
        BY <3>2, InstructionIsAt DEF Duplicate
      <4>2. /\ pin[user.on].ids = PinIds(user.on) /\ Len(pin[user.on].fds) = Depth(user.on)
            /\ user.op = "child" => Depth(user.on) = 1 /\ user.on = "top"
            /\ user.op = "copy" => Depth(user.on) = 2 /\ user.on = "leaf"
        BY <4>1 DEF UserIsAt, Depth
      <4>3. /\ FreeFds # {} /\ fds' = [fds EXCEPT ![NextFd] = d] /\ d = pin[user.on].ids[k]
            /\ UNCHANGED <<at, stamps, pin, locks, closer, foreign, held, result>>
            /\ \/ k = Len(pin[user.on].fds) /\ Advance(u(d))
               \/ k # Len(pin[user.on].fds) /\ user' = u(d)
        BY <1>2, <3>2 DEF Duplicate
      <4>4. user.op = "child" => k = 1
        BY <4>1, <2>0 DEF Collected
      <4>5. user.op = "copy" => k \in {1, 2}
        BY <4>1, <2>0 DEF Collected
      <4>6. d = Approved[k]
        BY <4>1, <4>2, <4>3, <4>4, <4>5 DEF PinIds
      <4>7. d \in Dirs
        BY <4>1, <4>4, <4>5, <4>6 DEF Dirs, PinAssumption
      <4> HIDE DEF d, u, k
      <4> QED
        BY <4>1, <4>2, <4>3, <4>4, <4>5, <4>6, <4>7
    <3> QED
      BY <3>1, <3>2
  <2>2. /\ u(d) \in UserRecords /\ u(d).op = user.op /\ u(d).on = user.on
        /\ u(d).fds = Append(user.fds, NextFd) /\ u(d).ids = Append(user.ids, d)
        /\ u(d).file = user.file /\ u(d).dir = user.dir /\ u(d).half = user.half
        /\ u(d).whole = user.whole /\ u(d).step = user.step /\ u(d).index = user.index
    <3>1. NextFd \in 1 .. MaxFd
      BY <2>1, NextIsFree
    <3>2. Append(user.fds, NextFd) \in Seq(1 .. MaxFd) /\ Append(user.ids, d) \in Seq(Dirs)
      BY <2>0, <3>1, RangeAppended
    <3> QED
      BY <2>0, <3>2 DEF UserRecords
  <2> HIDE DEF u
  <2>3. /\ user' \in UserRecords /\ user'.op = user.op /\ user'.on = user.on
        /\ user'.fds = Append(user.fds, NextFd) /\ user'.ids = Append(user.ids, d)
        /\ user'.file = user.file /\ user'.index = 0
        /\ user'.step = user.step + 1 \/ (user.op = "copy" /\ user'.step = user.step /\ k = 1)
        /\ user'.step \in 1 .. 10
    <3>1. CASE Advance(u(d))
      BY SMTT(30), <2>1, <2>2, <3>1, AdvancingIs DEF UserRecords
    <3>2. CASE ~Advance(u(d))
      <4>1. user.op = "copy" /\ user.step = 3 /\ user' = u(d) /\ k = 1
        BY <2>1, <3>2
      <4>2. user.index = 0
        BY <2>0, <4>1 DEF IndexIsAt, Validating, UserRecords
      <4> QED
        BY <2>2, <4>1, <4>2
    <3> QED
      BY <3>1, <3>2
  <2>4. /\ OneOwner' /\ fds' \in [1 .. MaxFd -> Dirs \cup {"file", Free}]
        /\ Len(user'.fds) = k /\ Len(user'.ids) = k
        /\ \A m \in 1 .. Len(user'.fds) : fds'[user'.fds[m]] = user'.ids[m]
        /\ \A m \in 1 .. Len(user.fds) : user'.ids[m] = user.ids[m]
        /\ user'.ids[k] = d
    BY <2>1, <2>3, CollectingKeeps
  <2>5. PinTypes' /\ PinsAreApproved' /\ ResultHolds'
    BY <2>1, <2>3, <2>4 DEF PinTypes, PinsAreApproved, ResultHolds
  <2>6. UserIsAt'
    BY <2>1, <2>3 DEF UserIsAt, LastStep, Uses
  <2>7. IndexIsAt'
    BY <2>3 DEF IndexIsAt, Depth
  <2>8. GuardIsHeld'
    <3>1. Guarded' => Guarded
      BY <2>1, <2>3 DEF Guarded
    <3> QED
      BY <2>1, <2>3, <3>1 DEF GuardIsHeld
  <2>9. user.file = 0 /\ user.op \in {"open", "child", "copy"} /\ user.op # Nothing
    BY <2>1 DEF Collected, PinAssumption
  <2>10. Collected'
    <3>1. CASE user.op = "open"
      <4>1. k = 1 /\ user.step = 1 /\ user'.step = 2
        BY <2>0, <2>1, <2>3, <3>1 DEF Collected
      <4> QED
        BY <2>3, <2>4, <2>9, <3>1, <4>1 DEF Collected, Uses
    <3>2. CASE user.op = "child" /\ user.step = 6
      <4>1. k = 2 /\ user'.step = 7 /\ user'.ids[1] = Approved[1]
        BY <2>0, <2>3, <2>4, <3>2 DEF Collected, AsApproved
      <4> QED
        BY <2>3, <2>4, <2>9, <3>2, <4>1 DEF Collected, Uses, AsApproved
    <3>3. CASE user.op = "child" /\ user.step = 3
      <4>1. k = 1 /\ user'.step = 4 /\ user'.ids[1] = Approved[1]
        BY <2>0, <2>1, <2>3, <2>4, <3>3 DEF Collected
      <4> QED
        BY <2>3, <2>4, <2>9, <3>3, <4>1 DEF Collected, Uses, AsApproved
    <3>4. CASE user.op = "copy" /\ k = 1
      <4>1. user.step = 3 /\ user'.step = 3 /\ user'.ids[1] = Approved[1]
        <5>1. user.step = 3 /\ user' = u(d) /\ d = Approved[1]
          BY <2>1, <3>4
        <5> QED
          BY <2>2, <2>4, <3>4, <5>1
      <4> QED
        BY <2>3, <2>4, <2>9, <3>4, <4>1 DEF Collected, Uses, AsApproved
    <3>5. CASE user.op = "copy" /\ k = 2
      <4>1. user.step = 3 /\ user'.step = 4 /\ d = Approved[2]
        BY <2>1, <2>3, <3>5
      <4>2. user'.ids[1] = Approved[1] /\ user'.ids[2] = Approved[2]
        BY <2>0, <2>4, <3>5, <4>1 DEF Collected, AsApproved
      <4> QED
        BY <2>3, <2>4, <2>9, <3>5, <4>1, <4>2 DEF Collected, Uses, AsApproved
    <3> QED
      BY <2>1, <3>1, <3>2, <3>3, <3>4, <3>5
  <2>11. EdgesAreSeen'
    <3>1. \A n \in 1 .. 2 : EdgeHolds(Approved, n)' <=> EdgeHolds(Approved, n)
      BY <2>1 DEF EdgeHolds, ParentOf
    <3> QED
      BY <2>1, <2>3, <2>9, <3>1 DEF EdgesAreSeen, Uses
  <2>12. DirIsPinned'
    BY <2>3, <2>9 DEF DirIsPinned
  <2> QED
    BY <2>4, <2>5, <2>6, <2>7, <2>8, <2>10, <2>11, <2>12
<1> QED
  BY <1>1, <1>2

LEMMA OpenFileKeeps ==
    ASSUME PinAssumption, PinInv, OpenFile
    PROVE  PinInv'
<1> USE DEF PinInv
<1>1. CASE Fail
  BY <1>1, FailKeeps
<1>2. CASE ~Fail
  <2> DEFINE d == fds[pin[user.on].fds[Len(pin[user.on].fds)]]
             u == [user EXCEPT !.dir = d, !.file = NextFd]
  <2>1. /\ FreeFds # {} /\ fds' = [fds EXCEPT ![NextFd] = "file"] /\ Advance(u)
        /\ UNCHANGED <<at, stamps, pin, locks, closer, foreign, held, result>>
        /\ d \in LeafDirs /\ user.op = "read" /\ user.step = 2
    BY <1>2, InstructionIsAt DEF OpenFile
  <2>2. user \in UserRecords /\ NextFd \in 1 .. MaxFd /\ NextFd # 0
    BY <2>1, NextIsFree DEF PinTypes, PinAssumption
  <2>3. /\ user.on \in {"leaf", "copy"} /\ pin[user.on].ids = PinIds(user.on)
        /\ Len(pin[user.on].fds) = 2
    BY <2>1 DEF UserIsAt, Uses, Depth
  <2>4. pin[user.on].open => d = Approved[2]
    BY <2>3 DEF OneOwner, Depth, PinIds, Pins
  <2>5. pin[user.on].alive => pin[user.on].open
    BY <2>3 DEF PinsAreApproved, Pins
  <2>6. u \in UserRecords
    <3>1. d \in LeafDirs /\ NextFd \in 0 .. MaxFd
      BY <2>1, <2>2
    <3> HIDE DEF d
    <3> QED
      BY <2>2, <3>1 DEF UserRecords
  <2>7. /\ u.op = user.op /\ u.on = user.on /\ u.fds = user.fds /\ u.ids = user.ids
        /\ u.file = NextFd /\ u.step = user.step /\ u.dir = d
    BY <2>2 DEF UserRecords
  <2> HIDE DEF d, u
  <2>8. /\ user'.op = "read" /\ user'.on = user.on /\ user'.fds = user.fds /\ user'.ids = user.ids
        /\ user'.file = NextFd /\ user'.step = 3 /\ user'.dir = d /\ user'.index = 0
        /\ user' \in UserRecords
    BY <2>1, <2>6, <2>7, AdvancingIs
  <2>9. Len(user.fds) = 0 /\ Len(user.ids) = 0 /\ user.file = 0
    BY <2>1 DEF Collected, Uses
  <2>10. OwnedByOperation' = OwnedByOperation \cup {NextFd}
    BY <2>2, <2>8, <2>9 DEF OwnedByOperation, RangeOf
  <2>11. OneOwner'
    BY <2>1, <2>10, OperationOpens
  <2>12. PinTypes' /\ PinsAreApproved' /\ ResultHolds'
    BY <2>1, <2>2, <2>8 DEF PinTypes, PinsAreApproved, ResultHolds
  <2>13. UserIsAt'
    BY <2>1, <2>8 DEF UserIsAt, LastStep, Uses
  <2>14. IndexIsAt' /\ GuardIsHeld'
    BY <2>8 DEF IndexIsAt, GuardIsHeld, Guarded, Validating, Depth
  <2>15. Collected'
    <3>1. fds'[NextFd] = "file"
      BY <2>1, OwnedStays
    <3> QED
      BY <2>8, <2>9, <3>1 DEF Collected, Uses
  <2>16. EdgesAreSeen'
    <3>1. \A n \in 1 .. 2 : EdgeHolds(Approved, n)' <=> EdgeHolds(Approved, n)
      BY <2>1 DEF EdgeHolds, ParentOf
    <3> QED
      BY <2>1, <2>8, <3>1 DEF EdgesAreSeen, Uses, FirstValid
  <2>17. DirIsPinned'
    BY <2>1, <2>4, <2>5, <2>8 DEF DirIsPinned
  <2> QED
    BY <2>11, <2>12, <2>13, <2>14, <2>15, <2>16, <2>17
<1> QED
  BY <1>1, <1>2
LEMMA IdentitiesAre ==
    ASSUME NEW s \in Seq(Dirs)
    PROVE  /\ Len(s) = 1 /\ s[1] = Approved[1] => s = <<Approved[1]>>
           /\ Len(s) = 2 /\ s[1] = Approved[1] /\ s[2] = Approved[2] =>
                 s = <<Approved[1], Approved[2]>>
<1>1. s = [n \in 1 .. Len(s) |-> s[n]]
  BY SeqDef
<1>2. ASSUME Len(s) = 1, s[1] = Approved[1]
      PROVE  s = <<Approved[1]>>
  BY <1>1, <1>2
<1>3. ASSUME Len(s) = 2, s[1] = Approved[1], s[2] = Approved[2]
      PROVE  s = <<Approved[1], Approved[2]>>
  BY <1>1, <1>3
<1> QED
  BY <1>2, <1>3

\* The new pin takes the descriptors of the operation over.
LEMMA AdoptKeeps ==
    ASSUME PinAssumption, PinInv, Adopt
    PROVE  PinInv'
<1> USE DEF PinInv
<1>1. \/ user.op \in {"open", "copy"} /\ user.step = 5
      \/ user.op = "child" /\ user.step = 10
  BY InstructionIsAt DEF Adopt
<1>2. PICK p \in Pins :
         /\ pin' = [pin EXCEPT ![p] = NewPin] /\ ~pin[p].open
         /\ Len(user.fds) = Depth(p) /\ user.ids = PinIds(p)
  <2>1. user.ids \in Seq(Dirs)
    BY DEF PinTypes, UserRecords
  <2>2. CASE user.op = "open"
    BY <1>1, <2>1, <2>2, IdentitiesAre DEF Adopt, UserIsAt, Collected, AsApproved, Depth, PinIds, Pins
  <2>3. CASE user.op = "child"
    BY SMTT(30), <1>1, <2>1, <2>3, IdentitiesAre DEF Adopt, UserIsAt, Collected, AsApproved, Depth, PinIds, Pins
  <2>4. CASE user.op = "copy"
    BY SMTT(30), <1>1, <2>1, <2>4, IdentitiesAre DEF Adopt, UserIsAt, Collected, AsApproved, Depth, PinIds, Pins
  <2> QED
    BY <1>1, <2>2, <2>3, <2>4
<1>3. /\ UNCHANGED <<at, stamps, fds, locks, closer, foreign, held, result>> /\ user' = Idle
      /\ user \in UserRecords /\ user.file = 0
  BY <1>1 DEF Adopt, PinTypes, Collected
<1>4. /\ pin' \in [Pins -> PinRecords] /\ pin'[p] = NewPin
      /\ \A q \in Pins : q # p => pin'[q] = pin[q]
  BY <1>2, <1>3 DEF NewPin, PinRecords, PinTypes, UserRecords
<1>5. pin'[p].open /\ pin'[p].alive /\ pin'[p].fds = user.fds /\ pin'[p].ids = user.ids
  BY <1>4 DEF NewPin
<1>6. /\ user' \in UserRecords
      /\ UserIsAt' /\ IndexIsAt' /\ GuardIsHeld' /\ Collected' /\ EdgesAreSeen' /\ DirIsPinned'
  BY <1>3, IdleHolds DEF PinTypes
<1>7. PinTypes'
  BY <1>3, <1>4, <1>6 DEF PinTypes
<1>8. PinsAreApproved' /\ ResultHolds'
  BY <1>2, <1>3, <1>4, <1>5 DEF PinsAreApproved, ResultHolds
<1>9. /\ OwnedByOperation = RangeOf(user.fds) /\ OwnedByOperation' = {}
      /\ PinOwns(p)' = RangeOf(user.fds) /\ PinOwns(p) = {}
      /\ \A q \in Pins : q # p => PinOwns(q)' = PinOwns(q)
  BY <1>2, <1>3, <1>4, <1>5 DEF OwnedByOperation, PinOwns, Idle, RangeOf
<1>10. OneOwner'
  <2>1. \A q \in Pins : PinOwns(q)' \cap (foreign' \cup OwnedByOperation') = {}
    BY <1>3, <1>9 DEF OneOwner
  <2>2. \A q \in Pins : \A r \in Pins \ {q} : PinOwns(q)' \cap PinOwns(r)' = {}
    BY <1>9 DEF OneOwner
  <2>3. foreign' \cap OwnedByOperation' = {}
    BY <1>9
  <2>4. \A n \in 1 .. MaxFd :
           fds'[n] # Free <=> n \in foreign' \cup OwnedByOperation' \/ \E q \in Pins : n \in PinOwns(q)'
    BY <1>3, <1>9 DEF OneOwner
  <2>5. \A q \in Pins : pin'[q].open =>
           \A k \in 1 .. Depth(q) : fds'[pin'[q].fds[k]] = pin'[q].ids[k]
    BY <1>2, <1>3, <1>4, <1>5 DEF OneOwner, Collected
  <2> QED
    BY <2>1, <2>2, <2>3, <2>4, <2>5 DEF OneOwner
<1> QED
  BY <1>6, <1>7, <1>8, <1>10

-----------------------------------------------------------------------------
\* What others do while the using thread stands still.
Bystander ==
    /\ user' = user
    /\ \A p \in Pins : /\ pin'[p].fds = pin[p].fds /\ pin'[p].ids = pin[p].ids
                       /\ pin'[p].alive => pin[p].alive
                       /\ pin'[p].open => pin[p].open
    /\ Guarded => locks'[user.on] = locks[user.on] /\ pin'[user.on].open = pin[user.on].open
    /\ \A n \in OwnedByOperation : fds'[n] = fds[n]
    /\ \A d \in LeafDirs : stamps[d] \in Nat /\ stamps'[d] \in Nat /\ stamps[d] <= stamps'[d]
    /\ held \subseteq held' /\ held' \subseteq {1, 2}
    /\ user.op # Nothing => \A n \in 1 .. 2 : EdgeHolds(Approved, n)' => n \in held'

LEMMA BystanderKeeps ==
    ASSUME PinAssumption, PinInv, Bystander
    PROVE  UserIsAt' /\ IndexIsAt' /\ GuardIsHeld' /\ Collected' /\ EdgesAreSeen' /\ DirIsPinned'
<1> USE DEF PinInv
<1>1. /\ user' = user /\ held \subseteq held' /\ held' \subseteq {1, 2}
      /\ user.op # Nothing => \A n \in 1 .. 2 : EdgeHolds(Approved, n)' => n \in held'
  BY DEF Bystander
<1>2. \A p \in Pins : /\ pin'[p].fds = pin[p].fds /\ pin'[p].ids = pin[p].ids
                      /\ pin'[p].alive => pin[p].alive
                      /\ pin'[p].open => pin[p].open
  BY DEF Bystander
<1>3. user.op \in Uses \cup {"child", "copy"} => user.on \in Pins
  BY DEF UserIsAt, Pins, Uses
<1>4. UserIsAt'
  BY <1>1, <1>2, <1>3 DEF UserIsAt, Pins, Uses
<1>5. IndexIsAt'
  BY <1>1 DEF IndexIsAt, Validating
<1>6. Guarded' <=> Guarded
  BY <1>1 DEF Guarded, Validating
<1>7. GuardIsHeld'
  BY <1>1, <1>6 DEF GuardIsHeld, Bystander
<1>8. Collected'
  <2>1. /\ \A k \in 1 .. Len(user.fds) : fds'[user.fds[k]] = fds[user.fds[k]]
        /\ user.file # 0 => fds'[user.file] = fds[user.file]
    BY DEF Bystander, OwnedByOperation, RangeOf
  <2>2. \A k : AsApproved(k)' <=> AsApproved(k)
    BY <1>1 DEF AsApproved
  <2> QED
    BY <1>1, <2>1, <2>2 DEF Collected
<1>9. EdgesAreSeen'
  <2>1. FirstValid' = FirstValid
    BY <1>1 DEF FirstValid
  <2>2. held = {1, 2} => held' = {1, 2}
    BY <1>1
  <2>3. 1 \in held => 1 \in held'
    BY <1>1
  <2> QED
    BY <1>1, <2>1, <2>2, <2>3 DEF EdgesAreSeen
<1>10. DirIsPinned'
  <2>1. user.op \in Uses /\ pin'[user.on].alive => pin[user.on].alive
    BY <1>2, <1>3
  <2>2. \A d \in LeafDirs : stamps[d] \in Nat /\ stamps'[d] \in Nat /\ stamps[d] <= stamps'[d]
    BY DEF Bystander
  <2>3. CASE user.op = "read" /\ user.step >= 3
    <3>1. /\ user.dir \in LeafDirs /\ user.op \in Uses
          /\ stamps[user.dir] \in Nat /\ stamps'[user.dir] \in Nat
          /\ stamps[user.dir] <= stamps'[user.dir]
      BY <2>2, <2>3 DEF DirIsPinned, Uses
    <3>2. /\ (pin'[user.on].alive \/ user.step = 8 \/ (user.step = 7 /\ user.index > 0)) =>
                 user.dir = Approved[2]
          /\ user.step >= 7 => user.whole
      BY <2>1, <2>3, <3>1 DEF DirIsPinned
    <3>3. /\ user.step >= 4 => user.half \in Nat /\ user.half <= stamps'[user.dir]
          /\ user.step >= 5 => user.whole \/ user.half < stamps'[user.dir]
      <4>1. user.step >= 5 => user.step >= 4
        BY DEF PinTypes, UserRecords
      <4>2. /\ user.step >= 4 => user.half \in Nat /\ user.half <= stamps[user.dir]
            /\ user.step >= 5 => user.whole \/ user.half < stamps[user.dir]
        BY <2>3 DEF DirIsPinned
      <4> QED
        BY <3>1, <4>1, <4>2
    <3> QED
      BY <1>1, <2>3, <3>1, <3>2, <3>3 DEF DirIsPinned
  <2>4. CASE ~(user.op = "read" /\ user.step >= 3)
    BY <1>1, <2>1, <2>4 DEF DirIsPinned, Uses
  <2> QED
    BY <2>3, <2>4
<1> QED
  BY <1>4, <1>5, <1>7, <1>8, <1>9, <1>10

LEMMA MovesKeep ==
    ASSUME PinAssumption, PinInv,
           (\E p \in Parents : MoveDirectory(p)) \/ (\E d \in LeafDirs : EditFile(d))
    PROVE  PinInv'
<1> USE DEF PinInv
<1>1. UNCHANGED <<fds, pin, locks, user, closer, foreign, result>>
  BY DEF MoveDirectory, EditFile
<1>2. /\ stamps \in [LeafDirs -> Nat] /\ stamps' \in [LeafDirs -> Nat]
      /\ \A d \in LeafDirs : stamps[d] <= stamps'[d]
  <2>1. CASE \E p \in Parents : MoveDirectory(p)
    BY <2>1 DEF MoveDirectory, PinTypes
  <2>2. ASSUME NEW d \in LeafDirs, EditFile(d)
        PROVE  /\ stamps' \in [LeafDirs -> Nat]
               /\ \A c \in LeafDirs : stamps[c] <= stamps'[c]
    <3>1. stamps \in [LeafDirs -> Nat] /\ stamps' = [stamps EXCEPT ![d] = stamps[d] + 1]
      BY <2>2 DEF EditFile, PinTypes
    <3> QED
      BY <3>1
  <2> QED
    BY <2>1, <2>2 DEF PinTypes
<1> DEFINE Followed ==
              /\ held \subseteq held' /\ held' \subseteq {1, 2}
              /\ user.op # Nothing => \A n \in 1 .. 2 : EdgeHolds(Approved, n)' => n \in held'
              /\ DOMAIN at' = Parents /\ at'["root"] \in TopDirs /\ at'[Approved[1]] \in LeafDirs
<1>3. Followed
  <2>1. CASE \E d \in LeafDirs : EditFile(d)
    <3>1. at' = at /\ held' = held
      BY <2>1 DEF EditFile
    <3>2. \A n \in 1 .. 2 : EdgeHolds(Approved, n)' <=> EdgeHolds(Approved, n)
      BY <3>1 DEF EdgeHolds, ParentOf
    <3> QED
      BY <3>1, <3>2 DEF EdgesAreSeen, PinTypes
  <2>2. ASSUME NEW p \in Parents, MoveDirectory(p)
        PROVE  Followed
    <3>1. PICK d \in (IF p = "root" THEN TopDirs ELSE LeafDirs) : at' = [at EXCEPT ![p] = d]
      BY <2>2 DEF MoveDirectory
    <3>2. DOMAIN at' = Parents /\ at'["root"] \in TopDirs /\ at'[Approved[1]] \in LeafDirs
      BY <2>2, <3>1 DEF PinTypes, PinAssumption
    <3>3. held' = IF user.op = Nothing THEN held
                  ELSE held \cup {n \in 1 .. 2 : at'[ParentOf(Approved, n)] = Approved[n]}
      BY <2>2 DEF MoveDirectory
    <3>4. held \subseteq held' /\ held' \subseteq {1, 2}
      <4>1. 1 .. 2 = {1, 2}
        OBVIOUS
      <4> QED
        BY <3>3, <4>1 DEF PinTypes
    <3>5. user.op # Nothing => \A n \in 1 .. 2 : EdgeHolds(Approved, n)' => n \in held'
      BY <3>3 DEF EdgeHolds
    <3> QED
      BY <3>2, <3>4, <3>5
  <2> QED
    BY <2>1, <2>2
<1>4. Bystander
  BY <1>1, <1>2, <1>3 DEF Bystander
<1>5. UserIsAt' /\ IndexIsAt' /\ GuardIsHeld' /\ Collected' /\ EdgesAreSeen' /\ DirIsPinned'
  BY <1>4, BystanderKeeps
<1>6. PinTypes'
  BY <1>1, <1>2, <1>3 DEF PinTypes
<1>7. PinsAreApproved' /\ ResultHolds' /\ OneOwner'
  BY <1>1, OwnersAreSame DEF PinsAreApproved, ResultHolds
<1> QED
  BY <1>5, <1>6, <1>7
LEMMA ForeignOpenKeeps ==
    ASSUME PinAssumption, PinInv, ForeignOpen
    PROVE  PinInv'
<1> USE DEF PinInv
<1> DEFINE n == NextFd
<1>1. UNCHANGED <<at, stamps, pin, locks, user, closer, held, result>> /\ foreign' = foreign \cup {n}
  BY DEF ForeignOpen
<1>2. PICK d \in LeafDirs : fds' = [fds EXCEPT ![n] = d]
  BY DEF ForeignOpen
<1>3. n \in 1 .. MaxFd /\ fds[n] = Free
  BY NextIsFree DEF ForeignOpen
<1>4. /\ n \notin foreign \cup OwnedByOperation
      /\ \A p \in Pins : n \notin PinOwns(p)
  BY <1>3 DEF OneOwner
<1> HIDE DEF n
<1>5. /\ fds' \in [1 .. MaxFd -> Dirs \cup {"file", Free}] /\ fds'[n] = d /\ d # Free
      /\ \A m \in 1 .. MaxFd : m # n => fds'[m] = fds[m]
  BY <1>2, <1>3 DEF PinTypes, PinAssumption, Dirs
<1>6. \A p \in Pins : PinOwns(p)' = PinOwns(p)
  BY <1>1 DEF PinOwns
<1>7. OwnedByOperation' = OwnedByOperation /\ OwnedByOperation \subseteq 1 .. MaxFd
  BY <1>1, OperationOwnsIsTyped DEF OwnedByOperation
<1>8. ASSUME NEW p \in Pins, pin[p].open, NEW k \in 1 .. Depth(p)
      PROVE  fds'[pin[p].fds[k]] = pin[p].ids[k]
  <2>1. Len(pin[p].fds) = Depth(p)
    BY <1>8 DEF PinsAreApproved
  <2>2. pin[p].fds[k] \in PinOwns(p)
    BY <1>8, <2>1 DEF PinOwns, RangeOf
  <2>3. pin[p].fds[k] \in 1 .. MaxFd /\ pin[p].fds[k] # n
    BY <1>4, <2>2, PinOwnsIsTyped
  <2> QED
    BY <1>5, <1>8, <2>3 DEF OneOwner
<1>9. OneOwner'
  <2>1. \A p \in Pins : PinOwns(p)' \cap (foreign' \cup OwnedByOperation') = {}
    BY <1>1, <1>4, <1>6, <1>7 DEF OneOwner
  <2>2. \A p \in Pins : \A q \in Pins \ {p} : PinOwns(p)' \cap PinOwns(q)' = {}
    BY <1>6 DEF OneOwner
  <2>3. foreign' \cap OwnedByOperation' = {}
    BY <1>1, <1>4, <1>7 DEF OneOwner
  <2>4. \A m \in 1 .. MaxFd :
           fds'[m] # Free <=> m \in foreign' \cup OwnedByOperation' \/ \E p \in Pins : m \in PinOwns(p)'
    BY <1>1, <1>4, <1>5, <1>6, <1>7 DEF OneOwner
  <2>5. \A p \in Pins : pin'[p].open =>
           \A k \in 1 .. Depth(p) : fds'[pin'[p].fds[k]] = pin'[p].ids[k]
    BY <1>1, <1>8
  <2> QED
    BY <2>1, <2>2, <2>3, <2>4, <2>5 DEF OneOwner
<1>10. Bystander
  <2>1. \A m \in OwnedByOperation : fds'[m] = fds[m]
    BY <1>4, <1>5, <1>7
  <2>2. \A m \in 1 .. 2 : EdgeHolds(Approved, m)' <=> EdgeHolds(Approved, m)
    BY <1>1 DEF EdgeHolds, ParentOf
  <2>3. \A c \in LeafDirs : stamps[c] \in Nat /\ stamps[c] <= stamps[c]
    BY DEF PinTypes
  <2> QED
    BY <1>1, <2>1, <2>2, <2>3 DEF Bystander, EdgesAreSeen, PinTypes
<1>11. UserIsAt' /\ IndexIsAt' /\ GuardIsHeld' /\ Collected' /\ EdgesAreSeen' /\ DirIsPinned'
  BY <1>10, BystanderKeeps
<1>12. PinTypes' /\ PinsAreApproved' /\ ResultHolds'
  BY <1>1, <1>3, <1>5 DEF PinTypes, PinsAreApproved, ResultHolds
<1> QED
  BY <1>9, <1>11, <1>12

LEMMA CloseBeginKeeps ==
    ASSUME PinAssumption, PinInv, NEW c \in Pins, CloseBegin(c)
    PROVE  PinInv'
<1> USE DEF PinInv
<1>1. /\ UNCHANGED <<at, stamps, fds, locks, user, foreign, held, result>>
      /\ closer' = c /\ closer = Nothing /\ pin[c].alive
      /\ pin' = [pin EXCEPT ![c].alive = FALSE]
  BY DEF CloseBegin
<1>2. pin \in [Pins -> PinRecords]
  BY DEF PinTypes
<1>3. /\ pin' \in [Pins -> PinRecords]
      /\ \A p \in Pins : /\ pin'[p].fds = pin[p].fds /\ pin'[p].ids = pin[p].ids
                         /\ pin'[p].open = pin[p].open
                         /\ pin'[p].alive = IF p = c THEN FALSE ELSE pin[p].alive
  BY <1>1, <1>2 DEF PinRecords
<1>4. OneOwner'
  BY <1>1, <1>3, OwnersAreSame
<1>5. Bystander
  <2>1. \A m \in 1 .. 2 : EdgeHolds(Approved, m)' <=> EdgeHolds(Approved, m)
    BY <1>1 DEF EdgeHolds, ParentOf
  <2>2. \A d \in LeafDirs : stamps[d] \in Nat /\ stamps[d] <= stamps[d]
    BY DEF PinTypes
  <2>3. Guarded => user.on \in Pins
    BY DEF Guarded, Validating, UserIsAt, Uses, Pins
  <2> QED
    BY <1>1, <1>3, <2>1, <2>2, <2>3 DEF Bystander, EdgesAreSeen, PinTypes
<1>6. UserIsAt' /\ IndexIsAt' /\ GuardIsHeld' /\ Collected' /\ EdgesAreSeen' /\ DirIsPinned'
  BY <1>5, BystanderKeeps
<1>7. PinTypes'
  BY <1>1, <1>3 DEF PinTypes
<1>8. PinsAreApproved' /\ ResultHolds'
  BY <1>1, <1>3 DEF PinsAreApproved, ResultHolds
<1> QED
  BY <1>4, <1>6, <1>7, <1>8

\* The closing thread frees the numbers of its pin and of no one else.
LEMMA CloseEndKeeps ==
    ASSUME PinAssumption, PinInv, CloseEnd
    PROVE  PinInv'
<1> USE DEF PinInv
<1>0. PICK c \in Pins : c = closer
  BY DEF CloseEnd, PinTypes
<1>1. /\ UNCHANGED <<at, stamps, locks, user, foreign, held, result>>
      /\ closer' = Nothing /\ c \in Pins /\ locks[c] = Nothing
      /\ fds' = CloseAll(RangeOf(pin[c].fds)) /\ pin' = [pin EXCEPT ![c].open = FALSE]
  BY <1>0 DEF CloseEnd
<1>2. ~pin[c].alive /\ pin[c].open
  BY <1>0 DEF CloseEnd, PinsAreApproved
<1>3. pin \in [Pins -> PinRecords]
  BY DEF PinTypes
<1>4. /\ pin' \in [Pins -> PinRecords]
      /\ \A p \in Pins : /\ pin'[p].fds = pin[p].fds /\ pin'[p].ids = pin[p].ids
                         /\ pin'[p].open = IF p = c THEN FALSE ELSE pin[p].open
                         /\ pin'[p].alive = pin[p].alive
  BY <1>1, <1>3 DEF PinRecords
<1>5. RangeOf(pin[c].fds) = PinOwns(c) /\ PinOwns(c)' = {}
  BY <1>1, <1>2, <1>4 DEF PinOwns
<1>6. \A p \in Pins : p # c => PinOwns(p)' = PinOwns(p)
  BY <1>4 DEF PinOwns
<1>7. OwnedByOperation' = OwnedByOperation /\ OwnedByOperation \subseteq 1 .. MaxFd
  BY <1>1, OperationOwnsIsTyped DEF OwnedByOperation
<1>8. /\ fds' \in [1 .. MaxFd -> Dirs \cup {"file", Free}]
      /\ \A m \in 1 .. MaxFd : fds'[m] = IF m \in PinOwns(c) THEN Free ELSE fds[m]
  BY <1>1, <1>5 DEF CloseAll, PinTypes
<1>9. ASSUME NEW p \in Pins, p # c, pin[p].open, NEW k \in 1 .. Depth(p)
      PROVE  fds'[pin[p].fds[k]] = pin[p].ids[k]
  <2>1. Len(pin[p].fds) = Depth(p)
    BY <1>9 DEF PinsAreApproved
  <2>2. pin[p].fds[k] \in PinOwns(p)
    BY <1>9, <2>1 DEF PinOwns, RangeOf
  <2>3. pin[p].fds[k] \in 1 .. MaxFd /\ pin[p].fds[k] \notin PinOwns(c)
    BY <1>1, <1>9, <2>2, PinOwnsIsTyped DEF OneOwner
  <2> QED
    BY <1>8, <1>9, <2>3 DEF OneOwner
<1>10. OneOwner'
  <2>1. \A p \in Pins : PinOwns(p)' \cap (foreign' \cup OwnedByOperation') = {}
    BY <1>1, <1>5, <1>6, <1>7 DEF OneOwner
  <2>2. \A p \in Pins : \A q \in Pins \ {p} : PinOwns(p)' \cap PinOwns(q)' = {}
    BY <1>5, <1>6 DEF OneOwner
  <2>3. foreign' \cap OwnedByOperation' = {}
    BY <1>1, <1>7 DEF OneOwner
  <2>4. ASSUME NEW m \in 1 .. MaxFd
        PROVE  fds'[m] # Free <=>
                  m \in foreign' \cup OwnedByOperation' \/ \E p \in Pins : m \in PinOwns(p)'
    <3>1. CASE m \in PinOwns(c)
      <4>1. m \notin foreign \cup OwnedByOperation /\ \A p \in Pins \ {c} : m \notin PinOwns(p)
        BY <1>1, <3>1 DEF OneOwner
      <4> QED
        BY <1>1, <1>5, <1>6, <1>7, <1>8, <3>1, <4>1
    <3>2. CASE m \notin PinOwns(c)
      BY <1>1, <1>5, <1>6, <1>7, <1>8, <3>2 DEF OneOwner
    <3> QED
      BY <3>1, <3>2
  <2>5. ASSUME NEW p \in Pins, pin'[p].open, NEW k \in 1 .. Depth(p)
        PROVE  fds'[pin'[p].fds[k]] = pin'[p].ids[k]
    <3>1. p # c /\ pin[p].open /\ pin'[p].fds = pin[p].fds /\ pin'[p].ids = pin[p].ids
      BY <1>4, <2>5
    <3> QED
      BY <1>9, <2>5, <3>1
  <2> QED
    BY <2>1, <2>2, <2>3, <2>4, <2>5 DEF OneOwner
<1>11. Bystander
  <2>1. \A m \in OwnedByOperation : fds'[m] = fds[m]
    BY <1>1, <1>7, <1>8 DEF OneOwner
  <2>2. \A m \in 1 .. 2 : EdgeHolds(Approved, m)' <=> EdgeHolds(Approved, m)
    BY <1>1 DEF EdgeHolds, ParentOf
  <2>3. \A d \in LeafDirs : stamps[d] \in Nat /\ stamps[d] <= stamps[d]
    BY DEF PinTypes
  <2>4. Guarded => user.on \in Pins /\ user.on # c
    BY <1>1 DEF Guarded, GuardIsHeld, Validating, UserIsAt, Uses, Pins, PinAssumption
  <2> QED
    BY <1>1, <1>4, <2>1, <2>2, <2>3, <2>4 DEF Bystander, EdgesAreSeen, PinTypes
<1>12. UserIsAt' /\ IndexIsAt' /\ GuardIsHeld' /\ Collected' /\ EdgesAreSeen' /\ DirIsPinned'
  BY <1>11, BystanderKeeps
<1>13. PinTypes'
  BY <1>1, <1>4, <1>8 DEF PinTypes
<1>14. PinsAreApproved' /\ ResultHolds'
  BY <1>1, <1>2, <1>4 DEF PinsAreApproved, ResultHolds
<1> QED
  BY <1>10, <1>12, <1>13, <1>14

LEMMA BeginAnyKeeps ==
    ASSUME PinAssumption, PinInv, BeginAny
    PROVE  PinInv'
<1> USE DEF PinInv
<1>1. PICK op \in OpNames, p \in Pins :
         /\ BeginOperation(op, p)
         /\ op = "open" => p = "top" /\ ~pin["top"].open
         /\ op = "child" => p = "top" /\ pin[p].open /\ ~pin["leaf"].open
         /\ op = "copy" => p = "leaf" /\ pin[p].open /\ ~pin["copy"].open
         /\ op \in Uses => p \in {"leaf", "copy"} /\ pin[p].open
  BY DEF BeginAny, OpNames, Uses, Pins
<1>2. /\ user' = [Idle EXCEPT !.op = op, !.on = p] /\ user.op = Nothing
      /\ held' = {i \in 1 .. 2 : EdgeHolds(Approved, i)} /\ result' = Nothing
      /\ UNCHANGED <<at, stamps, fds, pin, locks, closer, foreign>>
  BY <1>1 DEF BeginOperation
<1>3. /\ user'.op = op /\ user'.on = p /\ user'.step = 1 /\ user'.index = 0 /\ user'.fds = <<>>
      /\ user'.ids = <<>> /\ user'.file = 0
  BY <1>2 DEF Idle
<1>4. op # Nothing
  BY DEF OpNames, Uses, PinAssumption
<1>5. user' \in UserRecords
  <2>1. user' = [op |-> op, on |-> p, step |-> 1, index |-> 0, fds |-> <<>>, ids |-> <<>>,
                 file |-> 0, dir |-> Nothing, half |-> Nothing, whole |-> FALSE]
    BY <1>2 DEF Idle
  <2>2. /\ op \in Uses \cup {"open", "child", "copy", Nothing} /\ p \in Pins \cup {Nothing}
        /\ 1 \in 1 .. 10 /\ 0 \in 0 .. 2 /\ 0 \in 0 .. MaxFd
        /\ <<>> \in Seq(1 .. MaxFd) /\ <<>> \in Seq(Dirs)
    BY DEF OpNames, PinAssumption
  <2> QED
    BY <2>1, <2>2 DEF UserRecords
<1>6. held' \subseteq {1, 2}
  BY <1>2
<1>7. PinTypes' /\ PinsAreApproved' /\ ResultHolds'
  BY <1>2, <1>5, <1>6 DEF PinTypes, PinsAreApproved, ResultHolds
<1>8. pin[p].open => pin[p].ids = PinIds(p) /\ Len(pin[p].fds) = Depth(p)
  BY DEF PinsAreApproved
<1>9. UserIsAt'
  BY <1>1, <1>2, <1>3, <1>4, <1>8 DEF UserIsAt, LastStep, OpNames, Uses
<1>10. IndexIsAt' /\ GuardIsHeld'
  BY <1>3 DEF IndexIsAt, GuardIsHeld, Guarded, Validating, Depth, Uses
<1>11. Collected'
  BY <1>3 DEF Collected, Uses
<1>12. EdgesAreSeen'
  <2>1. \A n \in 1 .. 2 : EdgeHolds(Approved, n)' <=> EdgeHolds(Approved, n)
    BY <1>2 DEF EdgeHolds, ParentOf
  <2> QED
    BY <1>2, <1>3, <2>1 DEF EdgesAreSeen, FirstValid
<1>13. DirIsPinned'
  BY <1>3 DEF DirIsPinned
<1>14. OneOwner'
  <2>1. OwnedByOperation' = {}
    BY <1>3 DEF OwnedByOperation, RangeOf
  <2>2. Len(user.fds) = 0 /\ user.file = 0
    BY <1>2 DEF Collected, PinAssumption
  <2>3. OwnedByOperation = {}
    BY <2>2 DEF OwnedByOperation, RangeOf
  <2>4. \A q \in Pins : PinOwns(q)' = PinOwns(q)
    BY <1>2 DEF PinOwns
  <2> QED
    BY <1>2, <2>1, <2>3, <2>4 DEF OneOwner
<1> QED
  BY <1>7, <1>9, <1>10, <1>11, <1>12, <1>13, <1>14

-----------------------------------------------------------------------------
LEMMA PinInvStarts ==
    ASSUME PinAssumption, PinInit
    PROVE  PinInv
<1>1. /\ user.op = Nothing /\ user.step = 1 /\ user.index = 0 /\ user.fds = <<>>
      /\ user.ids = <<>> /\ user.file = 0
  BY DEF PinInit, Idle
<1>2. Nothing \notin OpNames
  BY DEF PinAssumption, OpNames, Uses
<1>3. user \in UserRecords
  <2>1. user = [op |-> Nothing, on |-> Nothing, step |-> 1, index |-> 0, fds |-> <<>>, ids |-> <<>>,
                file |-> 0, dir |-> Nothing, half |-> Nothing, whole |-> FALSE]
    BY DEF PinInit, Idle
  <2>2. /\ 1 \in 1 .. 10 /\ 0 \in 0 .. 2 /\ 0 \in 0 .. MaxFd
        /\ <<>> \in Seq(1 .. MaxFd) /\ <<>> \in Seq(Dirs)
    BY DEF PinAssumption
  <2> QED
    BY <2>1, <2>2 DEF UserRecords
<1>4. PinTypes
  <2>1. DOMAIN at = Parents /\ at["root"] \in TopDirs /\ at[Approved[1]] \in LeafDirs
    BY DEF PinInit, Parents, PinAssumption
  <2>2. NoPin \in PinRecords
    BY DEF NoPin, PinRecords
  <2> QED
    BY <1>3, <2>1, <2>2 DEF PinInit, PinTypes
<1>5. PinsAreApproved /\ ResultHolds
  BY DEF PinInit, PinsAreApproved, ResultHolds, NoPin
<1>6. UserIsAt /\ ~Validating /\ ~Guarded
  BY <1>1, <1>2 DEF UserIsAt, Validating, Guarded, OpNames, Uses
<1>7. IndexIsAt /\ GuardIsHeld
  BY <1>1, <1>2, <1>6 DEF IndexIsAt, GuardIsHeld, OpNames
<1>8. Collected /\ EdgesAreSeen /\ DirIsPinned
  BY <1>1, <1>2 DEF Collected, EdgesAreSeen, DirIsPinned, OpNames, Uses
<1>9. OneOwner
  <2>1. OwnedByOperation = {}
    BY <1>1 DEF OwnedByOperation, RangeOf
  <2>2. \A p \in Pins : ~pin[p].open /\ PinOwns(p) = {}
    BY DEF PinInit, PinOwns, NoPin
  <2> QED
    BY <2>1, <2>2 DEF OneOwner, PinInit
<1> QED
  BY <1>4, <1>5, <1>6, <1>7, <1>8, <1>9 DEF PinInv

LEMMA UnchangedKeeps ==
    ASSUME PinAssumption, PinInv,
           UNCHANGED <<at, stamps, fds, pin, locks, user, closer, foreign, held, result>>
    PROVE  PinInv'
<1> USE DEF PinInv
<1>1. PinTypes' /\ PinsAreApproved' /\ ResultHolds' /\ OneOwner'
  BY OwnersAreSame DEF PinTypes, PinsAreApproved, ResultHolds
<1>2. \A m \in 1 .. 2 : EdgeHolds(Approved, m)' <=> EdgeHolds(Approved, m)
  BY DEF EdgeHolds, ParentOf
<1>3. \A d \in LeafDirs : stamps[d] \in Nat /\ stamps[d] <= stamps[d]
  BY DEF PinTypes
<1>4. Bystander
  BY <1>2, <1>3 DEF Bystander, EdgesAreSeen, PinTypes
<1> QED
  BY <1>1, <1>4, BystanderKeeps

\* The second close of a pin that was given up hits nobody's number: then it
\* changes no descriptor.
LEMMA FinalizeLostKeeps ==
    ASSUME PinAssumption, PinInv, FinalizeLost, ~lost.hit'
    PROVE  PinInv'
<1> USE DEF PinInv
<1>1. \A n \in lost.fds : fds[n] = Free
  BY DEF FinalizeLost
<1>2. fds' = fds
  <2>1. fds = [n \in 1 .. MaxFd |-> fds[n]]
    BY DEF PinTypes
  <2>2. \A n \in 1 .. MaxFd : (IF n \in lost.fds THEN Free ELSE fds[n]) = fds[n]
    BY <1>1
  <2> QED
    BY <2>1, <2>2 DEF FinalizeLost, CloseAll
<1>3. UNCHANGED <<at, stamps, fds, pin, locks, user, closer, foreign, held, result>>
  BY <1>2 DEF FinalizeLost
<1> QED
  BY <1>3, UnchangedKeeps

\* The pins hold until such a close hits another owner's number; a hit is
\* remembered.
HeldUntilHit ==
    /\ DOMAIN lost = {"fds", "hit"} /\ lost.hit \in BOOLEAN
    /\ lost.hit \/ PinInv

LEMMA HitStays ==
    ASSUME HeldUntilHit, [PinNext]_pinVars
    PROVE  /\ DOMAIN lost' = {"fds", "hit"} /\ lost'.hit \in BOOLEAN
           /\ lost.hit => lost'.hit
<1>1. CASE FinalizeLost
  <2>1. lost' = [fds |-> {}, hit |-> lost.hit \/ \E n \in lost.fds : fds[n] # Free]
    BY <1>1 DEF FinalizeLost
  <2> QED
    BY <2>1
<1>2. CASE FailBuilt
  BY <1>2 DEF FailBuilt, HeldUntilHit
<1>3. CASE UNCHANGED lost
  BY <1>3 DEF HeldUntilHit
<1>4. FinalizeLost \/ FailBuilt \/ UNCHANGED lost
  <2>1. CASE UserStep
    BY <2>1 DEF UserStep, Acquire, Release, ValidateBegin, ValidateStep, Walk, CheckEdge,
       CheckExpected, ValidateNew, Duplicate, Detach, TakeOverDuplicate, Adopt, Scan, InspectChild,
       OpenFile, ReadFirst, ReadRest, CheckFile, Return, Fail
  <2>2. CASE ~UserStep
    BY <2>2 DEF PinNext, pinVars, MoveDirectory, EditFile, ForeignOpen, CloseBegin, CloseEnd,
       BeginAny, BeginOperation
  <2> QED
    BY <2>1, <2>2
<1> QED
  BY <1>1, <1>2, <1>3, <1>4

LEMMA PinInvKept ==
    ASSUME PinAssumption, PinInv, [PinNext]_pinVars, ~lost.hit'
    PROVE  PinInv'
<1>1. CASE UserStep
  BY <1>1, SimpleStepsKeep, ChecksKeep, LookingKeeps, ReadingKeeps, ValidateBeginKeeps,
     ValidateStepKeeps, ValidateNewKeeps, WalkingKeeps, OpenFileKeeps, AdoptKeeps, ReturnKeeps
     DEF UserStep
<1>2. CASE (\E p \in Parents : MoveDirectory(p)) \/ (\E d \in LeafDirs : EditFile(d))
  BY <1>2, MovesKeep
<1>3. CASE ForeignOpen \/ CloseEnd \/ BeginAny \/ \E p \in Pins : CloseBegin(p)
  BY <1>3, ForeignOpenKeeps, CloseEndKeeps, BeginAnyKeeps, CloseBeginKeeps
<1>4. CASE UNCHANGED pinVars
  BY <1>4, UnchangedKeeps DEF pinVars
<1>5. CASE FinalizeLost
  BY <1>5, FinalizeLostKeeps
<1> QED
  BY <1>1, <1>2, <1>3, <1>4, <1>5 DEF PinNext

LEMMA PinInvEnough ==
    ASSUME PinAssumption, PinInv
    PROVE  PinsHold
<1> USE DEF PinInv
<1>1. ASSUME NEW p \in Pins
      PROVE  /\ Len(pin[p].fds) = Len(pin[p].ids) /\ RangeOf(pin[p].ids) \subseteq Dirs
             /\ pin[p].alive => pin[p].open
             /\ pin[p].open => Len(pin[p].fds) = Depth(p)
  <2>1. pin[p].ids \in Seq(Dirs)
    BY DEF PinTypes, PinRecords
  <2>2. \A k \in 1 .. Len(pin[p].ids) : pin[p].ids[k] \in Dirs
    BY <2>1, ElementOfSeq
  <2>3. Len(pin[p].fds) = Len(pin[p].ids)
    <3>1. Len(PinIds(p)) = Depth(p)
      <4>1. CASE p = "top"
        BY <4>1 DEF PinIds, Depth
      <4>2. CASE p # "top"
        BY <4>2 DEF PinIds, Depth
      <4> QED
        BY <4>1, <4>2
    <3> QED
      BY <3>1 DEF PinsAreApproved
  <2> QED
    BY <2>2, <2>3 DEF PinsAreApproved, RangeOf
<1>2. PinTypeOK
  BY <1>1 DEF PinTypeOK, PinTypes
<1>3. ResultIsPinned /\ ReplacedIsNoticed
  BY DEF ResultIsPinned, ReplacedIsNoticed, ResultHolds
<1>4. \A p \in Pins : pin[p].open => PinOwns(p) = RangeOf(pin[p].fds)
  BY DEF PinOwns
<1>5. DescriptorsAreOwned
  BY <1>1, <1>4 DEF DescriptorsAreOwned, OneOwner
<1>6. NothingLeaks
  <2>1. SUFFICES ASSUME user.op = Nothing
                 PROVE  (1 .. MaxFd) \ FreeFds =
                          foreign \cup UNION {RangeOf(pin[p].fds) : p \in {q \in Pins : pin[q].open}}
    BY DEF NothingLeaks
  <2>2. Len(user.fds) = 0 /\ user.file = 0
    BY <2>1 DEF Collected, PinAssumption
  <2>3. OwnedByOperation = {}
    BY <2>2 DEF OwnedByOperation, RangeOf
  <2>4. \A n : (\E p \in Pins : n \in PinOwns(p)) <=>
               n \in UNION {RangeOf(pin[p].fds) : p \in {q \in Pins : pin[q].open}}
    BY DEF PinOwns
  <2>5. foreign \subseteq 1 .. MaxFd /\ \A p \in Pins : PinOwns(p) \subseteq 1 .. MaxFd
    BY PinOwnsIsTyped DEF PinTypes
  <2> QED
    BY <2>3, <2>4, <2>5 DEF OneOwner, FreeFds
<1> QED
  BY <1>2, <1>3, <1>5, <1>6 DEF PinsHold

(* Whatever directories other programs put into the path, whenever the     *)
(* other thread closes a pin and whichever number it then gets: a read, a  *)
(* listing or an inspection returns the approved directory's, each edge of *)
(* the path was seen to hold during it, every descriptor has one owner and *)
(* none is left open, unless the second close of a pin that failed its     *)
(* first validation has hit a number in use (directory_safety.py           *)
(* PinnedDirectory).                                                       *)
THEOREM PinsStayHeld ==
    ASSUME PinAssumption
    PROVE  PinSpec => []PinsHold
<1>1. PinInit => HeldUntilHit
  BY PinInvStarts DEF PinInit, HeldUntilHit
<1>2. HeldUntilHit /\ [PinNext]_pinVars => HeldUntilHit'
  BY PinInvKept, HitStays DEF HeldUntilHit
<1>3. HeldUntilHit => PinsHold
  BY PinInvEnough DEF HeldUntilHit, PinsHold
<1> QED
  BY <1>1, <1>2, <1>3, PTL DEF PinSpec
=============================================================================
