----------------------------- MODULE HostProofs -----------------------------
(***************************************************************************)
(* What runs on the operator's host.  Advisory delegation for any number   *)
(* of runners, any limits, edits of the repository and losses of the key:  *)
(* the budget holds, and a tool serves only what the route was authorised  *)
(* for.  Supervised processes for any budget, pipe size, input and number  *)
(* of failing calls: nothing runs outside the job or outlives the call,    *)
(* and a result is whole or says that it was cut.                          *)
(***************************************************************************)
EXTENDS AdvisoryDelegation, SupervisedProcess, FiniteSetTheorems, TLAPS

Contents == [Items -> 0..2]
Whys == {"none", "bind", "rebind", "before", "after", "session"}
RunRecords ==
    [pc : Steps, role : Roles, why : Whys, n : 0..(2 * Len(Order)),
     one : Contents, bound : Contents, file : [ver : 0..2, stamp : Nat], key : Nat]

DelegationTypes ==
    /\ repo \in [Items -> [ver : 1..2, stamp : Nat]]
    /\ key \in {Torn, Absent} \cup 1..(losses + 1)
    /\ row \in [used : [Roles -> Nat], tag : Nat]
    /\ run \in [Runs -> RunRecords]
    /\ calls \in [Roles -> Nat]
    /\ served \in [Runs -> SUBSET (0..2)]
    /\ edits \in Nat /\ losses \in Nat

(* The lock is held while the key is written, and then only. *)
LockIsWriting == \A r \in Runs : At(r, "write") <=> lock = r

-----------------------------------------------------------------------------
(* What a run with locals q that has served sv knows of the repository *)

(* The reasons a scan, a check and a session are entered for. *)
InOrder(q) ==
    /\ q.pc = "scan" => q.why \in {"bind", "rebind", "before", "after"} /\ q.n < 2 * Len(Order)
    /\ q.pc = "check" => q.why \in {"before", "after"}
    /\ q.pc = "sdk" => q.why \in {"before", "session"}
    /\ q.pc = "reserve" => q.key # 0

Scoped(q) ==
    \/ q.pc \in {"open", "write", "reserve", "check", "sdk", "cite"}
    \/ q.pc = "scan" /\ q.why \in {"before", "after"}
Unedited(q) == repo["in"].stamp = q.file.stamp

(* No stamp comes back, so an unchanged stamp means unchanged content. *)
StampIsContent(q) ==
    Scoped(q) => q.file.stamp <= edits + 1 /\ (Unedited(q) => repo["in"].ver = q.file.ver)

(* The scan before the session has passed the file. *)
Passed(q) == \E k \in 1..Len(Order) : Order[k] = "in" /\ k <= q.n
ScanSawFile(q) ==
    q.pc = "scan" /\ q.why = "before" /\ Passed(q) /\ Unedited(q) => q.one["in"] = q.file.ver

(* Hence the file that may be served in the session is the authorised one. *)
FileIsAuthorised(q) == q.pc = "sdk" /\ Unedited(q) => q.bound["in"] = q.file.ver

Served(q, sv) ==
    /\ sv \subseteq {q.bound["in"]}
    /\ q.pc = "start" \/ (q.pc = "scan" /\ q.why = "bind") => sv = {}

RunOK(q, sv) ==
    /\ InOrder(q) /\ StampIsContent(q) /\ ScanSawFile(q) /\ FileIsAuthorised(q)
    /\ Served(q, sv)

StampsArePast == \A i \in Items : repo[i].stamp <= edits + 1

-----------------------------------------------------------------------------
(* Every attempt is consumed before the call: calls made and calls waiting *)
(* are within what the row says was used.                                  *)
Waits(q) == q.pc \in {"check", "scan", "sdk"} /\ q.why = "before"
Pending(o) == {r \in Runs : run[r].role = o /\ Waits(run[r])}

UsesAreReserved ==
    \A o \in Roles :
        /\ IsFiniteSet(Pending(o))
        /\ calls[o] + Cardinality(Pending(o)) <= row.used[o]
        /\ row.used[o] <= Limit[o]

(* Only a row that was never written has no tag. *)
UntaggedIsEmpty == row.tag = 0 => row.used = NoRow.used

DelegationInv ==
    /\ DelegationTypes /\ LockIsWriting /\ StampsArePast
    /\ \A r \in Runs : RunOK(run[r], served[r])
    /\ UsesAreReserved /\ UntaggedIsEmpty

-----------------------------------------------------------------------------
(* Constants and initial state *)

LEMMA Constants ==
    ASSUME DelegationAssumption
    PROVE  /\ Len(Order) \in Nat \ {0} /\ \A k \in 1..Len(Order) : Order[k] \in Items
           /\ \E k \in 1..Len(Order) : Order[k] = "in"
           /\ \A o \in Roles : Limit[o] \in Nat
           /\ None \notin Runs
<1>1. Order \in Seq(Items) /\ Order # <<>>
  BY DEF DelegationAssumption
<1>2. None \notin Runs
  BY DEF DelegationAssumption, None
<1>3. \A o \in Roles : Limit[o] \in Nat
  BY DEF DelegationAssumption
<1>4. \E k \in 1..Len(Order) : Order[k] = "in"
  BY DEF DelegationAssumption
<1> QED
  BY <1>1, <1>2, <1>3, <1>4

LEMMA InitHolds ==
    ASSUME DelegationAssumption, DelegationInit
    PROVE  DelegationInv
<1> DEFINE first(o) == [pc |-> "start", role |-> o, why |-> None, n |-> 0,
                        one |-> Unread, bound |-> Unread,
                        file |-> [ver |-> 0, stamp |-> 0], key |-> 0]
<1>1. /\ Unread \in Contents /\ 0 \in 0..(2 * Len(Order))
      /\ \A o \in Roles : first(o) \in RunRecords
  BY Constants DEF Unread, Contents, RunRecords, Steps, Whys, None
<1>2. /\ run \in [Runs -> {first(o) : o \in Roles}] /\ served = [r \in Runs |-> {}]
      /\ repo = [i \in Items |-> [ver |-> 1, stamp |-> 1]] /\ edits = 0 /\ losses = 0
      /\ key = Absent /\ lock = None /\ row = NoRow /\ calls = [o \in Roles |-> 0]
  BY DEF DelegationInit
<1>3. NoRow \in [used : [Roles -> Nat], tag : Nat] /\ NoRow.used = [o \in Roles |-> 0]
  BY DEF NoRow
<1>4. \A r \in Runs : run[r] \in RunRecords /\ run[r].pc = "start"
  BY <1>1, <1>2
<1>5. DelegationTypes
  BY <1>2, <1>3, <1>4 DEF DelegationTypes
<1>6. LockIsWriting
  BY <1>2, <1>4, Constants DEF LockIsWriting, At
<1>7. StampsArePast
  BY <1>2 DEF StampsArePast
<1>8. \A r \in Runs : RunOK(run[r], served[r])
  BY <1>2, <1>4 DEF RunOK, InOrder, StampIsContent, Scoped, ScanSawFile, FileIsAuthorised,
     Served
<1>9. \A o \in Roles : Pending(o) = {}
  BY <1>4 DEF Pending, Waits
<1>10. UsesAreReserved
  <2>1. ASSUME NEW o \in Roles
        PROVE  /\ IsFiniteSet(Pending(o)) /\ Cardinality(Pending(o)) = 0
               /\ calls[o] = 0 /\ row.used[o] = 0 /\ Limit[o] \in Nat
    BY <1>2, <1>3, <1>9, FS_EmptySet, Constants
  <2>2. ASSUME NEW o \in Roles
        PROVE  /\ IsFiniteSet(Pending(o))
               /\ calls[o] + Cardinality(Pending(o)) <= row.used[o] /\ row.used[o] <= Limit[o]
    BY <2>1
  <2> QED
    BY <2>2 DEF UsesAreReserved
<1>11. UntaggedIsEmpty
  BY <1>2 DEF UntaggedIsEmpty
<1> QED
  BY <1>5, <1>6, <1>7, <1>8, <1>10, <1>11 DEF DelegationInv

-----------------------------------------------------------------------------
(* Steps of one run *)

(* What is known of the others. *)
LEMMA OneRun ==
    ASSUME DelegationInv, NEW r \in Runs, NEW q \in RunRecords, NEW sv \in SUBSET (0..2),
           run' = [run EXCEPT ![r] = q], served' = [served EXCEPT ![r] = sv],
           UNCHANGED <<repo, edits>>, RunOK(q, sv)
    PROVE  /\ run' \in [Runs -> RunRecords] /\ served' \in [Runs -> SUBSET (0..2)]
           /\ \A s \in Runs : RunOK(run[s], served[s])'
           /\ StampsArePast'
           /\ run'[r] = q /\ \A s \in Runs \ {r} : run'[s] = run[s]
<1>1. run \in [Runs -> RunRecords] /\ served \in [Runs -> SUBSET (0..2)]
  BY DEF DelegationInv, DelegationTypes
<1>2. /\ run' \in [Runs -> RunRecords] /\ served' \in [Runs -> SUBSET (0..2)]
      /\ run'[r] = q /\ served'[r] = sv
      /\ \A s \in Runs \ {r} : run'[s] = run[s] /\ served'[s] = served[s]
  BY <1>1
<1>3. ASSUME NEW s \in Runs PROVE RunOK(run[s], served[s])'
  <2>1. RunOK(run'[s], served'[s])
    BY <1>2 DEF DelegationInv
  <2> QED
    BY <2>1 DEF RunOK, InOrder, StampIsContent, Scoped, ScanSawFile, Passed, Unedited,
       FileIsAuthorised, Served
<1>4. StampsArePast'
  BY DEF DelegationInv, StampsArePast
<1> QED
  BY <1>2, <1>3, <1>4

(* No run starts to wait for its session. *)
LEMMA NoneReserves ==
    ASSUME DelegationAssumption, DelegationInv, UNCHANGED <<calls, row>>,
           \A s \in Runs : run'[s].role = run[s].role /\ (Waits(run'[s]) => Waits(run[s]))
    PROVE  UsesAreReserved' /\ UntaggedIsEmpty'
<1>1. ASSUME NEW o \in Roles
      PROVE  /\ IsFiniteSet(Pending(o)') /\ Cardinality(Pending(o)') <= Cardinality(Pending(o))
             /\ Cardinality(Pending(o)) \in Nat /\ Cardinality(Pending(o)') \in Nat
  <2>1. Pending(o)' \subseteq Pending(o)
    BY DEF Pending, Waits
  <2>2. IsFiniteSet(Pending(o))
    BY DEF DelegationInv, UsesAreReserved
  <2> QED
    BY <2>1, <2>2, FS_Subset, FS_CardinalityType
<1>2. ASSUME NEW o \in Roles
      PROVE  /\ IsFiniteSet(Pending(o)')
             /\ calls'[o] + Cardinality(Pending(o)') <= row'.used[o]
             /\ row'.used[o] <= Limit[o]
  <2>1. calls[o] \in Nat /\ row.used[o] \in Nat
    BY DEF DelegationInv, DelegationTypes
  <2>2. calls[o] + Cardinality(Pending(o)) <= row.used[o] /\ row.used[o] <= Limit[o]
    BY DEF DelegationInv, UsesAreReserved
  <2> QED
    BY <1>1, <2>1, <2>2
<1>3. UsesAreReserved'
  BY <1>2 DEF UsesAreReserved
<1> QED
  BY <1>3 DEF DelegationInv, UntaggedIsEmpty

(* A step of run r that has to do with neither the lock nor the row. *)
LEMMA RunMoves ==
    ASSUME DelegationAssumption, DelegationInv, NEW r \in Runs, NEW q \in RunRecords,
           NEW sv \in SUBSET (0..2),
           run' = [run EXCEPT ![r] = q], served' = [served EXCEPT ![r] = sv],
           UNCHANGED <<repo, key, lock, row, calls, edits, losses>>,
           RunOK(q, sv), q.role = run[r].role, Waits(q) => Waits(run[r]),
           q.pc # "write", run[r].pc # "write"
    PROVE  DelegationInv'
<1>1. /\ run' \in [Runs -> RunRecords] /\ served' \in [Runs -> SUBSET (0..2)]
      /\ \A s \in Runs : RunOK(run[s], served[s])'
      /\ StampsArePast'
      /\ run'[r] = q /\ \A s \in Runs \ {r} : run'[s] = run[s]
  BY OneRun
<1>2. DelegationTypes'
  BY <1>1 DEF DelegationInv, DelegationTypes
<1>3. LockIsWriting'
  BY <1>1 DEF DelegationInv, LockIsWriting, At
<1>4. UsesAreReserved' /\ UntaggedIsEmpty'
  BY <1>1, NoneReserves
<1> QED
  BY <1>1, <1>2, <1>3, <1>4 DEF DelegationInv

(* What a run that gives up or dies knows is nothing. *)
LEMMA Ends ==
    ASSUME DelegationInv, NEW r \in Runs, NEW end \in {"fallback", "dead", "done"}
    PROVE  LET q == [run[r] EXCEPT !.pc = end] IN
           /\ q \in RunRecords /\ RunOK(q, served[r]) /\ q.role = run[r].role
           /\ ~Waits(q) /\ q.pc = end
           /\ served[r] \in SUBSET (0..2) /\ served = [served EXCEPT ![r] = served[r]]
           /\ [run EXCEPT ![r].pc = end] = [run EXCEPT ![r] = q]
<1> DEFINE q == [run[r] EXCEPT !.pc = end]
<1>1. /\ run[r] \in RunRecords /\ run \in [Runs -> RunRecords]
      /\ served \in [Runs -> SUBSET (0..2)] /\ RunOK(run[r], served[r])
  BY DEF DelegationInv, DelegationTypes
<1>2. /\ q \in RunRecords /\ q.pc = end /\ q.role = run[r].role /\ q.why = run[r].why
      /\ q.bound = run[r].bound
  BY <1>1 DEF RunRecords, Steps
<1>3. [run EXCEPT ![r].pc = end] = [run EXCEPT ![r] = q]
  BY <1>1
<1> HIDE DEF q
<1>4. RunOK(q, served[r]) /\ ~Waits(q)
  BY <1>1, <1>2 DEF RunOK, InOrder, StampIsContent, Scoped, ScanSawFile, FileIsAuthorised,
     Served, Waits
<1>5. served[r] \in SUBSET (0..2) /\ served = [served EXCEPT ![r] = served[r]]
  BY <1>1
<1> QED
  BY <1>2, <1>3, <1>4, <1>5 DEF q

LEMMA GivesUp ==
    ASSUME DelegationAssumption, DelegationInv, NEW r \in Runs,
           NEW end \in {"fallback", "done", "dead"}, Goto(r, end), run[r].pc # "write",
           UNCHANGED <<repo, key, lock, row, calls, served, edits, losses>>
    PROVE  DelegationInv'
<1> DEFINE q == [run[r] EXCEPT !.pc = end]
<1>1. /\ q \in RunRecords /\ RunOK(q, served[r]) /\ q.role = run[r].role /\ ~Waits(q)
      /\ q.pc = end /\ served[r] \in SUBSET (0..2)
      /\ served = [served EXCEPT ![r] = served[r]]
      /\ [run EXCEPT ![r].pc = end] = [run EXCEPT ![r] = q]
  BY Ends
<1>2. run' = [run EXCEPT ![r] = q] /\ served' = [served EXCEPT ![r] = served[r]]
  BY <1>1 DEF Goto
<1> HIDE DEF q
<1> QED
  BY <1>1, <1>2, RunMoves

-----------------------------------------------------------------------------
(* One lemma per action *)

(* What the invariant says of one run. *)
LEMMA RunFacts ==
    ASSUME DelegationInv, NEW r \in Runs
    PROVE  /\ run[r] \in RunRecords /\ run \in [Runs -> RunRecords]
           /\ RunOK(run[r], served[r]) /\ served[r] \in SUBSET (0..2)
           /\ served = [served EXCEPT ![r] = served[r]]
           /\ repo["in"].ver \in 1..2 /\ repo["in"].stamp \in Nat
           /\ repo["in"].stamp <= edits + 1 /\ edits \in Nat /\ losses \in Nat
           /\ repo["in"] \in [ver : 0..2, stamp : Nat]
<1>1. /\ run \in [Runs -> RunRecords] /\ served \in [Runs -> SUBSET (0..2)]
      /\ repo["in"] \in [ver : 1..2, stamp : Nat] /\ edits \in Nat /\ losses \in Nat
      /\ RunOK(run[r], served[r]) /\ repo["in"].stamp <= edits + 1
  BY DEF DelegationInv, DelegationTypes, Items, StampsArePast
<1>2. repo["in"] \in [ver : 0..2, stamp : Nat]
  BY <1>1
<1> QED
  BY <1>1, <1>2

(* A scan begins; nothing has been read. *)
LEMMA ScanStarts ==
    ASSUME DelegationAssumption, DelegationInv, NEW r \in Runs,
           NEW why \in {"bind", "rebind", "before", "after"}, StartScan(r, why),
           UNCHANGED <<repo, key, lock, row, calls, served, edits, losses>>,
           run[r].pc \in {"start", "route", "check"},
           run[r].pc = "check" <=> why \in {"before", "after"},
           why = "before" => run[r].why = "before",
           why = "bind" => run[r].pc = "start"
    PROVE  DelegationInv'
<1> DEFINE q == [run[r] EXCEPT !.pc = "scan", !.why = why, !.n = 0, !.one = Unread]
<1>1. Unread \in Contents /\ 0 \in 0..(2 * Len(Order)) /\ 0 < 2 * Len(Order)
  BY Constants DEF Unread, Contents
<1>2. run[r] \in RunRecords /\ RunOK(run[r], served[r])
  BY RunFacts
<1>3. /\ q \in RunRecords /\ q.pc = "scan" /\ q.why = why /\ q.n = 0
      /\ q.file = run[r].file /\ q.bound = run[r].bound /\ q.role = run[r].role
  BY <1>1, <1>2 DEF RunRecords, Steps, Whys
<1>4. run' = [run EXCEPT ![r] = q]
  BY RunFacts DEF StartScan
<1> HIDE DEF q
<1>5. ~Passed(q)
  BY <1>3 DEF Passed
<1>6. InOrder(q) /\ ScanSawFile(q) /\ FileIsAuthorised(q)
  BY <1>1, <1>3, <1>5 DEF InOrder, ScanSawFile, FileIsAuthorised
<1>7. StampIsContent(q)
  BY <1>2, <1>3 DEF RunOK, StampIsContent, Scoped, Unedited
<1>8. Served(q, served[r])
  BY <1>2, <1>3 DEF RunOK, Served
<1>9. Waits(q) => Waits(run[r])
  BY <1>3 DEF Waits
<1>10. served' = [served EXCEPT ![r] = served[r]] /\ served[r] \in SUBSET (0..2)
  BY RunFacts
<1> QED
  BY <1>3, <1>4, <1>6, <1>7, <1>8, <1>9, <1>10, RunMoves DEF RunOK

LEMMA StartKeeps ==
    ASSUME DelegationAssumption, DelegationInv, NEW r \in Runs, Start(r)
    PROVE  DelegationInv'
  BY ScanStarts DEF Start, At

LEMMA LoadRouteKeeps ==
    ASSUME DelegationAssumption, DelegationInv, NEW r \in Runs, LoadRoute(r)
    PROVE  DelegationInv'
<1>1. CASE StartScan(r, "rebind")
  BY <1>1, ScanStarts DEF LoadRoute, At
<1>2. CASE Goto(r, "fallback")
  BY <1>2, GivesUp DEF LoadRoute, At
<1> QED
  BY <1>1, <1>2 DEF LoadRoute

LEMMA ValidateKeeps ==
    ASSUME DelegationAssumption, DelegationInv, NEW r \in Runs, Validate(r)
    PROVE  DelegationInv'
<1>1. run[r].pc = "check" /\ run[r].why \in {"before", "after"}
  BY RunFacts DEF Validate, At, RunOK, InOrder
<1>2. CASE StartScan(r, run[r].why)
  BY <1>1, <1>2, ScanStarts DEF Validate
<1>3. CASE Goto(r, "fallback")
  BY <1>1, <1>3, GivesUp DEF Validate
<1> QED
  BY <1>2, <1>3 DEF Validate

LEMMA RecheckKeeps ==
    ASSUME DelegationAssumption, DelegationInv, NEW r \in Runs, Recheck(r)
    PROVE  DelegationInv'
<1>1. PICK end \in {"done", "fallback"} : Goto(r, end)
  BY DEF Recheck
<1> QED
  BY <1>1, GivesUp DEF Recheck, At

LEMMA FailKeeps ==
    ASSUME DelegationAssumption, DelegationInv, NEW r \in Runs, Fail(r)
    PROVE  DelegationInv'
  BY GivesUp DEF Fail

(* The scope is bound to what the file is now. *)
LEMMA BindScopeKeeps ==
    ASSUME DelegationAssumption, DelegationInv, NEW r \in Runs, BindScope(r)
    PROVE  DelegationInv'
<1> DEFINE q == [run[r] EXCEPT !.pc = "open", !.file = repo["in"]]
<1>1. /\ run[r] \in RunRecords /\ RunOK(run[r], served[r]) /\ run[r].pc = "scope"
      /\ repo["in"] \in [ver : 0..2, stamp : Nat] /\ repo["in"].stamp <= edits + 1
  BY RunFacts DEF BindScope, At
<1>2. /\ q \in RunRecords /\ q.pc = "open" /\ q.file = repo["in"]
      /\ q.bound = run[r].bound /\ q.role = run[r].role
  BY <1>1 DEF RunRecords, Steps
<1>3. run' = [run EXCEPT ![r] = q]
  BY RunFacts DEF BindScope
<1> HIDE DEF q
<1>4. RunOK(q, served[r])
  BY <1>1, <1>2 DEF RunOK, InOrder, StampIsContent, ScanSawFile, FileIsAuthorised, Served
<1>5. served' = [served EXCEPT ![r] = served[r]] /\ served[r] \in SUBSET (0..2)
  BY RunFacts DEF BindScope
<1> QED
  BY <1>1, <1>2, <1>3, <1>4, <1>5, RunMoves DEF Waits, BindScope

(* A tool serves the file only while it is the one the scope was bound to, *)
(* and that one the scan has found authorised.                             *)
LEMMA ToolReadKeeps ==
    ASSUME DelegationAssumption, DelegationInv, NEW r \in Runs, ToolRead(r)
    PROVE  DelegationInv'
<1>1. /\ run[r] \in RunRecords /\ RunOK(run[r], served[r]) /\ run[r].pc = "sdk"
      /\ served[r] \in SUBSET (0..2) /\ repo["in"].ver \in 1..2
  BY RunFacts DEF ToolRead, At
<1>2. UNCHANGED <<repo, key, lock, row, calls, edits, losses>>
  BY DEF ToolRead
<1>3. CASE Goto(r, "fallback") /\ UNCHANGED served
  BY <1>1, <1>2, <1>3, GivesUp
<1>4. CASE /\ Matches(r) /\ run' = run
           /\ served' = [served EXCEPT ![r] = @ \cup {repo["in"].ver}]
  <2> DEFINE sv == served[r] \cup {repo["in"].ver}
  <2>1. repo["in"].ver = run[r].bound["in"]
    BY <1>1, <1>4 DEF Matches, SameFile, RunOK, FileIsAuthorised, Unedited
  <2>2. RunOK(run[r], sv)
    BY <1>1, <2>1 DEF RunOK, Served
  <2>3. sv \in SUBSET (0..2)
    BY <1>1
  <2>4. run' = [run EXCEPT ![r] = run[r]] /\ served' = [served EXCEPT ![r] = sv]
    BY <1>4, RunFacts DEF DelegationInv, DelegationTypes
  <2> HIDE DEF sv
  <2> QED
    BY <1>1, <1>2, <2>2, <2>3, <2>4, RunMoves
<1> QED
  BY <1>3, <1>4 DEF ToolRead

LEMMA ReportKeeps ==
    ASSUME DelegationAssumption, DelegationInv, NEW r \in Runs, Report(r)
    PROVE  DelegationInv'
<1> DEFINE q == [run[r] EXCEPT !.pc = "check", !.why = "after"]
<1>1. run[r] \in RunRecords /\ RunOK(run[r], served[r]) /\ run[r].pc = "sdk"
  BY RunFacts DEF Report, At
<1>2. /\ q \in RunRecords /\ q.pc = "check" /\ q.why = "after" /\ q.file = run[r].file
      /\ q.bound = run[r].bound /\ q.role = run[r].role
  BY <1>1 DEF RunRecords, Steps, Whys
<1>3. run' = [run EXCEPT ![r] = q]
  BY RunFacts DEF Report
<1> HIDE DEF q
<1>4. RunOK(q, served[r])
  BY <1>1, <1>2 DEF RunOK, InOrder, StampIsContent, Scoped, Unedited, ScanSawFile,
     FileIsAuthorised, Served
<1>5. served' = [served EXCEPT ![r] = served[r]] /\ served[r] \in SUBSET (0..2)
  BY RunFacts DEF Report
<1> QED
  BY <1>1, <1>2, <1>3, <1>4, <1>5, RunMoves DEF Waits, Report

(* One item is read.  In the first pass the file's content is noted; at the *)
(* end of the second the whole is compared with what was authorised.       *)
LEMMA ScanKeeps ==
    ASSUME DelegationAssumption, DelegationInv, NEW r \in Runs, Scan(r)
    PROVE  DelegationInv'
<1> DEFINE s == run[r]
           first == s.n < Len(Order)
           i == Order[IF first THEN s.n + 1 ELSE s.n + 1 - Len(Order)]
           reads == [s EXCEPT !.n = @ + 1, !.one[i] = State(i)]
           moves == [s EXCEPT !.n = @ + 1]
<1>1. /\ s \in RunRecords /\ RunOK(s, served[r]) /\ s.pc = "scan"
      /\ s.n \in Nat /\ s.n < 2 * Len(Order) /\ Len(Order) \in Nat \ {0}
      /\ s.why \in {"bind", "rebind", "before", "after"}
  BY RunFacts, Constants DEF Scan, At, RunOK, InOrder, RunRecords
<1>2. /\ UNCHANGED <<repo, key, lock, row, calls, served, edits, losses>>
      /\ served' = [served EXCEPT ![r] = served[r]] /\ served[r] \in SUBSET (0..2)
      /\ run \in [Runs -> RunRecords]
  BY RunFacts DEF Scan
<1>3. \/ first /\ run' = [run EXCEPT ![r] = reads]
      \/ run' = [run EXCEPT ![r] = [s EXCEPT !.pc = "fallback"]]
      \/ ~first /\ s.n = 2 * Len(Order) - 1 /\ run' = [run EXCEPT ![r] = ScanDone(r, s.one)]
      \/ ~first /\ s.n # 2 * Len(Order) - 1 /\ run' = [run EXCEPT ![r] = moves]
  BY DEF Scan
<1>4. ~first => Passed(s)
  BY <1>1, Constants DEF Passed
<1>5. CASE first /\ run' = [run EXCEPT ![r] = reads]
  <2>1. i \in Items /\ i = Order[s.n + 1] /\ s.n + 1 \in 1..Len(Order)
    BY <1>1, <1>5, Constants
  <2>2. State(i) \in 0..2 /\ State("in") = repo["in"].ver
    BY <2>1 DEF DelegationInv, DelegationTypes, State, TrackedState, UntrackedState, Items
  <2>3. s.one \in Contents /\ [s.one EXCEPT ![i] = State(i)] \in Contents
    BY <1>1, <2>1, <2>2 DEF Contents, RunRecords
  <2>4. s.n + 1 \in 0..(2 * Len(Order)) /\ s.n + 1 < 2 * Len(Order)
    BY <1>1, <1>5
  <2>5. /\ reads \in RunRecords /\ reads.pc = "scan" /\ reads.why = s.why /\ reads.n = s.n + 1
        /\ reads.one = [s.one EXCEPT ![i] = State(i)] /\ reads.file = s.file
        /\ reads.bound = s.bound /\ reads.role = s.role
    BY <1>1, <2>3, <2>4 DEF RunRecords
  <2> HIDE DEF reads, i
  <2>6. ScanSawFile(reads)
    <3>1. CASE i = "in"
      BY <1>1, <2>2, <2>3, <2>5, <3>1
         DEF RunOK, StampIsContent, Scoped, Unedited, ScanSawFile, Contents, Items
    <3>2. CASE i # "in"
      <4>1. reads.one["in"] = s.one["in"]
        BY <2>3, <2>5, <3>2 DEF Contents, Items
      <4>2. Passed(reads) => Passed(s)
        BY <1>1, <2>1, <2>5, <3>2 DEF Passed
      <4> QED
        BY <1>1, <2>5, <4>1, <4>2 DEF RunOK, ScanSawFile, Unedited
    <3> QED
      BY <3>1, <3>2
  <2>7. RunOK(reads, served[r])
    BY <1>1, <2>4, <2>5, <2>6 DEF RunOK, InOrder, StampIsContent, Scoped, Unedited,
       FileIsAuthorised, Served
  <2>8. Waits(reads) => Waits(s)
    BY <1>1, <2>5 DEF Waits
  <2> QED
    BY <1>1, <1>2, <1>5, <2>5, <2>7, <2>8, RunMoves
<1>6. CASE run' = [run EXCEPT ![r] = [s EXCEPT !.pc = "fallback"]]
  <2>1. Goto(r, "fallback")
    BY <1>2, <1>6 DEF Goto
  <2> QED
    BY <1>1, <1>2, <2>1, GivesUp
<1>7. CASE ~first /\ s.n = 2 * Len(Order) - 1 /\ run' = [run EXCEPT ![r] = ScanDone(r, s.one)]
  <2>1. CASE s.why = "bind"
    <3> DEFINE q == [s EXCEPT !.pc = "route", !.bound = s.one]
    <3>1. ScanDone(r, s.one) = q
      BY <2>1 DEF ScanDone
    <3>2. /\ q \in RunRecords /\ q.pc = "route" /\ q.role = s.role
      BY <1>1 DEF RunRecords, Steps
    <3> HIDE DEF q
    <3>3. RunOK(q, served[r])
      BY <1>1, <2>1, <3>2 DEF RunOK, InOrder, StampIsContent, Scoped, ScanSawFile,
         FileIsAuthorised, Served
    <3> QED
      BY <1>1, <1>2, <1>7, <3>1, <3>2, <3>3, RunMoves DEF Waits
  <2>2. CASE s.why # "bind" /\ ~Authorised(r, s.one)
    <3>1. ScanDone(r, s.one) = [s EXCEPT !.pc = "fallback"]
      BY <1>1, <2>2 DEF ScanDone
    <3> QED
      BY <1>6, <1>7, <3>1
  <2>3. CASE s.why # "bind" /\ Authorised(r, s.one)
    <3>1. PICK step \in {"scope", "sdk", "cite"} :
            /\ ScanDone(r, s.one) = [s EXCEPT !.pc = step]
            /\ step = "scope" <=> s.why = "rebind"
            /\ step = "sdk" <=> s.why = "before"
      BY <1>1, <2>3 DEF ScanDone
    <3> DEFINE q == [s EXCEPT !.pc = step]
    <3>2. /\ q \in RunRecords /\ q.pc = step /\ q.why = s.why /\ q.role = s.role
          /\ q.file = s.file /\ q.bound = s.bound
      BY <1>1 DEF RunRecords, Steps
    <3>3. s.bound = s.one
      BY <2>3 DEF Authorised
    <3> HIDE DEF q
    <3>4. FileIsAuthorised(q)
      BY <1>1, <1>4, <1>7, <3>1, <3>2, <3>3 DEF RunOK, ScanSawFile, FileIsAuthorised, Unedited
    <3>5. InOrder(q) /\ StampIsContent(q) /\ ScanSawFile(q) /\ Served(q, served[r])
      BY <1>1, <2>3, <3>1, <3>2 DEF RunOK, InOrder, StampIsContent, Scoped, Unedited,
         ScanSawFile, Served
    <3>6. Waits(q) => Waits(s)
      BY <1>1, <3>2 DEF Waits
    <3> QED
      BY <1>1, <1>2, <1>7, <3>1, <3>2, <3>4, <3>5, <3>6, RunMoves DEF RunOK, q
  <2> QED
    BY <2>1, <2>2, <2>3
<1>8. CASE ~first /\ s.n # 2 * Len(Order) - 1 /\ run' = [run EXCEPT ![r] = moves]
  <2>1. s.n + 1 \in 0..(2 * Len(Order)) /\ s.n + 1 < 2 * Len(Order)
    BY <1>1, <1>8
  <2>2. /\ moves \in RunRecords /\ moves.pc = "scan" /\ moves.why = s.why /\ moves.n = s.n + 1
        /\ moves.one = s.one /\ moves.file = s.file
        /\ moves.bound = s.bound /\ moves.role = s.role
    BY <1>1, <2>1 DEF RunRecords
  <2> HIDE DEF moves
  <2>3. RunOK(moves, served[r])
    BY <1>1, <1>4, <1>8, <2>1, <2>2 DEF RunOK, InOrder, StampIsContent, Scoped, Unedited,
       ScanSawFile, FileIsAuthorised, Served
  <2>4. Waits(moves) => Waits(s)
    BY <1>1, <2>2 DEF Waits
  <2> QED
    BY <1>1, <1>2, <1>8, <2>2, <2>3, <2>4, RunMoves
<1> QED
  BY <1>3, <1>5, <1>6, <1>7, <1>8

(* A step of run r at the key file: it comes to the reservation, or ends, or *)
(* takes the lock.                                                         *)
LEMMA KeyMoves ==
    ASSUME DelegationAssumption, DelegationInv, NEW r \in Runs, NEW q \in RunRecords,
           run' = [run EXCEPT ![r] = q], UNCHANGED <<repo, row, calls, served, edits, losses>>,
           key' \in {Torn, Absent} \cup 1..(losses + 1),
           RunOK(q, served[r]), q.role = run[r].role, ~Waits(q), LockIsWriting'
    PROVE  DelegationInv'
<1>1. served' = [served EXCEPT ![r] = served[r]] /\ served[r] \in SUBSET (0..2)
  BY RunFacts
<1>2. /\ run' \in [Runs -> RunRecords] /\ served' \in [Runs -> SUBSET (0..2)]
      /\ \A s \in Runs : RunOK(run[s], served[s])'
      /\ StampsArePast'
      /\ run'[r] = q /\ \A s \in Runs \ {r} : run'[s] = run[s]
  BY <1>1, OneRun
<1>3. DelegationTypes'
  BY <1>2 DEF DelegationInv, DelegationTypes
<1>4. UsesAreReserved' /\ UntaggedIsEmpty'
  BY <1>2, NoneReserves
<1> QED
  BY <1>2, <1>3, <1>4 DEF DelegationInv

(* A run that holds its key is ready to reserve. *)
LEMMA HasKey ==
    ASSUME DelegationInv, NEW r \in Runs, NEW k \in Nat \ {0}, run[r].pc \in {"open", "write"}
    PROVE  LET q == [run[r] EXCEPT !.pc = "reserve", !.key = k] IN
           /\ q \in RunRecords /\ RunOK(q, served[r]) /\ q.role = run[r].role
           /\ q.pc = "reserve" /\ ~Waits(q)
           /\ [run EXCEPT ![r].pc = "reserve", ![r].key = k] = [run EXCEPT ![r] = q]
<1> DEFINE q == [run[r] EXCEPT !.pc = "reserve", !.key = k]
<1>1. run[r] \in RunRecords /\ RunOK(run[r], served[r])
  BY RunFacts
<1>2. /\ q \in RunRecords /\ q.pc = "reserve" /\ q.key = k /\ q.file = run[r].file
      /\ q.bound = run[r].bound /\ q.role = run[r].role
  BY <1>1 DEF RunRecords, Steps
<1>3. [run EXCEPT ![r].pc = "reserve", ![r].key = k] = [run EXCEPT ![r] = q]
  BY RunFacts
<1> HIDE DEF q
<1>4. RunOK(q, served[r]) /\ ~Waits(q)
  BY <1>1, <1>2 DEF RunOK, InOrder, StampIsContent, Scoped, Unedited, ScanSawFile,
     FileIsAuthorised, Served, Waits
<1> QED
  BY <1>2, <1>3, <1>4 DEF q

LEMMA OpenBudgetKeeps ==
    ASSUME DelegationAssumption, DelegationInv, NEW r \in Runs, OpenBudget(r)
    PROVE  DelegationInv'
<1>1. /\ run[r].pc = "open" /\ lock = None /\ run[r] \in RunRecords
      /\ RunOK(run[r], served[r]) /\ run \in [Runs -> RunRecords]
      /\ UNCHANGED <<repo, row, calls, served, edits, losses>>
      /\ served' = [served EXCEPT ![r] = served[r]] /\ served[r] \in SUBSET (0..2)
  BY RunFacts DEF OpenBudget, At
<1>2. CASE key' = Torn /\ lock' = r /\ Goto(r, "write")
  <2> DEFINE q == [run[r] EXCEPT !.pc = "write"]
  <2>1. /\ q \in RunRecords /\ q.pc = "write" /\ q.file = run[r].file
        /\ q.bound = run[r].bound /\ q.role = run[r].role
    BY <1>1 DEF RunRecords, Steps
  <2>2. run' = [run EXCEPT ![r] = q]
    BY <1>1, <1>2 DEF Goto
  <2> HIDE DEF q
  <2>3. RunOK(q, served[r]) /\ ~Waits(q)
    BY <1>1, <2>1 DEF RunOK, InOrder, StampIsContent, Scoped, Unedited, ScanSawFile,
       FileIsAuthorised, Served, Waits
  <2>4. LockIsWriting'
    BY <1>1, <1>2, <2>1, <2>2, Constants DEF DelegationInv, LockIsWriting, At
  <2> QED
    BY <1>1, <1>2, <2>1, <2>2, <2>3, <2>4, KeyMoves
<1>3. CASE Goto(r, "fallback") /\ UNCHANGED <<key, lock>>
  BY <1>1, <1>3, GivesUp
<1>4. CASE /\ key > 0 /\ run' = [run EXCEPT ![r].pc = "reserve", ![r].key = key]
           /\ UNCHANGED <<key, lock>>
  <2> DEFINE q == [run[r] EXCEPT !.pc = "reserve", !.key = key]
  <2>1. key \in Nat \ {0}
    BY <1>4 DEF DelegationInv, DelegationTypes, Torn, Absent
  <2>2. /\ q \in RunRecords /\ RunOK(q, served[r]) /\ q.role = run[r].role
        /\ q.pc = "reserve" /\ ~Waits(q) /\ run' = [run EXCEPT ![r] = q]
    BY <1>1, <1>4, <2>1, HasKey
  <2> HIDE DEF q
  <2> QED
    BY <1>1, <1>4, <2>2, RunMoves
<1> QED
  BY <1>2, <1>3, <1>4 DEF OpenBudget

(* The writer lets go of the lock. *)
LEMMA Unlocks ==
    ASSUME DelegationAssumption, DelegationInv, NEW r \in Runs, run[r].pc = "write",
           NEW q \in RunRecords, run' = [run EXCEPT ![r] = q], q.pc # "write", lock' = None
    PROVE  LockIsWriting'
<1>1. lock = r /\ \A s \in Runs \ {r} : run[s].pc # "write"
  BY DEF DelegationInv, LockIsWriting, At
<1>2. run'[r] = q /\ \A s \in Runs \ {r} : run'[s] = run[s]
  BY RunFacts
<1> QED
  BY <1>1, <1>2, Constants DEF LockIsWriting, At

LEMMA WriteKeyKeeps ==
    ASSUME DelegationAssumption, DelegationInv, NEW r \in Runs,
           WriteKey(r) \/ WriteKeyFails(r)
    PROVE  DelegationInv'
<1>1. /\ run[r].pc = "write" /\ lock' = None
      /\ UNCHANGED <<repo, row, calls, served, edits, losses>>
  BY DEF WriteKey, WriteKeyFails, At
<1>2. CASE WriteKey(r)
  <2> DEFINE q == [run[r] EXCEPT !.pc = "reserve", !.key = losses + 1]
  <2>1. losses \in Nat /\ losses + 1 \in Nat \ {0} /\ losses + 1 \in 1..(losses + 1)
    BY RunFacts
  <2>2. /\ q \in RunRecords /\ RunOK(q, served[r]) /\ q.role = run[r].role
        /\ q.pc = "reserve" /\ ~Waits(q) /\ run' = [run EXCEPT ![r] = q]
    BY <1>1, <1>2, <2>1, HasKey DEF WriteKey
  <2>3. key' = losses + 1
    BY <1>2 DEF WriteKey
  <2> HIDE DEF q
  <2>4. LockIsWriting'
    BY <1>1, <2>2, Unlocks
  <2> QED
    BY <1>1, <2>1, <2>2, <2>3, <2>4, KeyMoves
<1>3. CASE WriteKeyFails(r)
  <2> DEFINE q == [run[r] EXCEPT !.pc = "fallback"]
  <2>1. /\ q \in RunRecords /\ RunOK(q, served[r]) /\ q.role = run[r].role
        /\ q.pc = "fallback" /\ ~Waits(q) /\ run' = [run EXCEPT ![r] = q]
    BY <1>3, Ends DEF WriteKeyFails, Goto
  <2>2. key' = Absent
    BY <1>3 DEF WriteKeyFails
  <2> HIDE DEF q
  <2>3. LockIsWriting'
    BY <1>1, <2>1, Unlocks
  <2> QED
    BY <1>1, <2>1, <2>2, <2>3, KeyMoves
<1> QED
  BY <1>2, <1>3

LEMMA CrashKeeps ==
    ASSUME DelegationAssumption, DelegationInv, NEW r \in Runs, Crash(r)
    PROVE  DelegationInv'
<1> DEFINE q == [run[r] EXCEPT !.pc = "dead"]
<1>1. /\ q \in RunRecords /\ RunOK(q, served[r]) /\ q.role = run[r].role
      /\ q.pc = "dead" /\ ~Waits(q) /\ run' = [run EXCEPT ![r] = q]
  BY Ends DEF Crash, Goto
<1>2. UNCHANGED <<repo, key, row, calls, served, edits, losses>>
  BY DEF Crash
<1>3. key \in {Torn, Absent} \cup 1..(losses + 1)
  BY DEF DelegationInv, DelegationTypes
<1> HIDE DEF q
<1>4. LockIsWriting'
  <2>1. CASE run[r].pc = "write"
    <3>1. lock' = None
      BY <2>1 DEF Crash, DelegationInv, LockIsWriting, At
    <3> QED
      BY <1>1, <2>1, <3>1, Unlocks
  <2>2. CASE run[r].pc # "write"
    <3>1. lock # r /\ lock' = lock
      BY <2>2 DEF Crash, DelegationInv, LockIsWriting, At
    <3>2. run'[r] = q /\ \A s \in Runs \ {r} : run'[s] = run[s]
      BY <1>1, RunFacts
    <3> QED
      BY <1>1, <2>2, <3>1, <3>2 DEF DelegationInv, LockIsWriting, At
  <2> QED
    BY <2>1, <2>2
<1> QED
  BY <1>1, <1>2, <1>3, <1>4, KeyMoves

(* The attempt is consumed: one more use, one more run that may call. *)
LEMMA ReserveKeeps ==
    ASSUME DelegationAssumption, DelegationInv, NEW r \in Runs, Reserve(r)
    PROVE  DelegationInv'
<1>1. /\ run[r].pc = "reserve" /\ run[r] \in RunRecords /\ RunOK(run[r], served[r])
      /\ run[r].key \in Nat \ {0} /\ run[r].role \in Roles /\ run \in [Runs -> RunRecords]
      /\ UNCHANGED <<repo, key, lock, calls, served, edits, losses>>
      /\ served' = [served EXCEPT ![r] = served[r]] /\ served[r] \in SUBSET (0..2)
  BY RunFacts DEF Reserve, At, RunOK, InOrder, RunRecords
<1>2. CASE Goto(r, "fallback") /\ row' = row
  BY <1>1, <1>2, GivesUp
<1>3. CASE /\ Readable(r) /\ Allowed(r)
           /\ row' = [used |-> [Counts(r) EXCEPT ![run[r].role] = @ + 1], tag |-> run[r].key]
           /\ run' = [run EXCEPT ![r].pc = "check", ![r].why = "before"]
  <2> DEFINE q == [run[r] EXCEPT !.pc = "check", !.why = "before"]
             role == run[r].role
  <2>1. /\ q \in RunRecords /\ q.pc = "check" /\ q.why = "before" /\ q.file = run[r].file
        /\ q.bound = run[r].bound /\ q.role = role
    BY <1>1 DEF RunRecords, Steps, Whys
  <2>2. run' = [run EXCEPT ![r] = q]
    BY <1>1, <1>3
  <2> HIDE DEF q
  <2>3. RunOK(q, served[r]) /\ Waits(q)
    BY <1>1, <2>1 DEF RunOK, InOrder, StampIsContent, Scoped, Unedited, ScanSawFile,
       FileIsAuthorised, Served, Waits
  <2>4. /\ run' \in [Runs -> RunRecords] /\ served' \in [Runs -> SUBSET (0..2)]
        /\ \A s \in Runs : RunOK(run[s], served[s])'
        /\ StampsArePast'
        /\ run'[r] = q /\ \A s \in Runs \ {r} : run'[s] = run[s]
    BY <1>1, <2>1, <2>2, <2>3, OneRun
  <2>5. Counts(r) = row.used /\ row.used \in [Roles -> Nat]
    BY <1>3 DEF Readable, Counts, DelegationInv, DelegationTypes, UntaggedIsEmpty
  <2>6. /\ row'.used = [row.used EXCEPT ![role] = @ + 1] /\ row'.tag = run[r].key
        /\ row' \in [used : [Roles -> Nat], tag : Nat] /\ row.used[role] < Limit[role]
    BY <1>1, <1>3, <2>5 DEF Allowed
  <2>7. DelegationTypes' /\ UntaggedIsEmpty'
    BY <1>1, <2>4, <2>6 DEF DelegationInv, DelegationTypes, UntaggedIsEmpty
  <2>8. LockIsWriting'
    BY <1>1, <2>1, <2>4 DEF DelegationInv, LockIsWriting, At
  <2>9. ASSUME NEW o \in Roles
        PROVE  /\ IsFiniteSet(Pending(o)')
               /\ calls'[o] + Cardinality(Pending(o)') <= row'.used[o]
               /\ row'.used[o] <= Limit[o]
    <3>1. /\ IsFiniteSet(Pending(o)) /\ calls[o] + Cardinality(Pending(o)) <= row.used[o]
          /\ row.used[o] <= Limit[o]
      BY DEF DelegationInv, UsesAreReserved
    <3>2. /\ calls[o] \in Nat /\ row.used[o] \in Nat /\ Limit[o] \in Nat
          /\ Cardinality(Pending(o)) \in Nat
      BY <2>5, <3>1, FS_CardinalityType, Constants DEF DelegationInv, DelegationTypes
    <3>3. CASE o = role
      <4>1. Pending(o)' = Pending(o) \cup {r}
        BY <2>1, <2>3, <2>4, <3>3 DEF Pending
      <4>2. r \notin Pending(o)
        BY <1>1 DEF Pending, Waits
      <4>3. IsFiniteSet(Pending(o)') /\ Cardinality(Pending(o)') = Cardinality(Pending(o)) + 1
        BY <3>1, <4>1, <4>2, FS_AddElement
      <4>4. row'.used[o] = row.used[o] + 1 /\ row.used[o] < Limit[o] /\ calls'[o] = calls[o]
        BY <1>1, <2>5, <2>6, <3>3
      <4> QED
        BY <3>1, <3>2, <4>3, <4>4
    <3>4. CASE o # role
      <4>1. Pending(o)' = Pending(o)
        BY <1>1, <2>1, <2>4, <3>4 DEF Pending, Waits
      <4>2. row'.used[o] = row.used[o] /\ calls'[o] = calls[o]
        BY <1>1, <2>5, <2>6, <3>4
      <4> QED
        BY <3>1, <4>1, <4>2
    <3> QED
      BY <3>3, <3>4
  <2>10. UsesAreReserved'
    BY <2>9 DEF UsesAreReserved
  <2> QED
    BY <2>4, <2>7, <2>8, <2>10 DEF DelegationInv
<1> QED
  BY <1>2, <1>3 DEF Reserve

(* The call is made: one call more, one run less that may. *)
LEMMA OpenSessionKeeps ==
    ASSUME DelegationAssumption, DelegationInv, NEW r \in Runs, OpenSession(r)
    PROVE  DelegationInv'
<1> DEFINE q == [run[r] EXCEPT !.why = "session"]
           role == run[r].role
<1>1. /\ run[r].pc = "sdk" /\ run[r].why = "before" /\ run[r] \in RunRecords
      /\ RunOK(run[r], served[r]) /\ run[r].role \in Roles /\ run \in [Runs -> RunRecords]
      /\ UNCHANGED <<repo, key, lock, row, served, edits, losses>>
      /\ calls' = [calls EXCEPT ![role] = @ + 1] /\ calls \in [Roles -> Nat]
      /\ served' = [served EXCEPT ![r] = served[r]] /\ served[r] \in SUBSET (0..2)
  BY RunFacts DEF OpenSession, At, RunRecords, DelegationInv, DelegationTypes
<1>2. /\ q \in RunRecords /\ q.pc = "sdk" /\ q.why = "session" /\ q.file = run[r].file
      /\ q.bound = run[r].bound /\ q.role = role
  BY <1>1 DEF RunRecords, Whys
<1>3. run' = [run EXCEPT ![r] = q]
  BY <1>1 DEF OpenSession
<1> HIDE DEF q
<1>4. RunOK(q, served[r]) /\ ~Waits(q)
  BY <1>1, <1>2 DEF RunOK, InOrder, StampIsContent, Scoped, Unedited, ScanSawFile,
     FileIsAuthorised, Served, Waits
<1>5. /\ run' \in [Runs -> RunRecords] /\ served' \in [Runs -> SUBSET (0..2)]
      /\ \A s \in Runs : RunOK(run[s], served[s])'
      /\ StampsArePast'
      /\ run'[r] = q /\ \A s \in Runs \ {r} : run'[s] = run[s]
  BY <1>1, <1>2, <1>3, <1>4, OneRun
<1>6. calls' \in [Roles -> Nat]
  BY <1>1
<1>7. DelegationTypes' /\ UntaggedIsEmpty'
  BY <1>1, <1>5, <1>6 DEF DelegationInv, DelegationTypes, UntaggedIsEmpty
<1>8. LockIsWriting'
  BY <1>1, <1>2, <1>5 DEF DelegationInv, LockIsWriting, At
<1>9. ASSUME NEW o \in Roles
      PROVE  /\ IsFiniteSet(Pending(o)')
             /\ calls'[o] + Cardinality(Pending(o)') <= row'.used[o]
             /\ row'.used[o] <= Limit[o]
  <2>1. /\ IsFiniteSet(Pending(o)) /\ calls[o] + Cardinality(Pending(o)) <= row.used[o]
        /\ row.used[o] <= Limit[o] /\ row' = row
    BY <1>1 DEF DelegationInv, UsesAreReserved
  <2>2. calls[o] \in Nat /\ row.used[o] \in Nat /\ Cardinality(Pending(o)) \in Nat
    BY <2>1, FS_CardinalityType DEF DelegationInv, DelegationTypes
  <2>3. CASE o = role
    <3>1. Pending(o)' = Pending(o) \ {r} /\ r \in Pending(o)
      BY <1>1, <1>2, <1>4, <1>5, <2>3 DEF Pending, Waits
    <3>2. IsFiniteSet(Pending(o)') /\ Cardinality(Pending(o)') = Cardinality(Pending(o)) - 1
      BY <2>1, <3>1, FS_RemoveElement
    <3>3. calls'[o] = calls[o] + 1
      BY <1>1, <2>3
    <3> QED
      BY <2>1, <2>2, <3>2, <3>3
  <2>4. CASE o # role
    <3>1. Pending(o)' = Pending(o)
      BY <1>1, <1>2, <1>5, <2>4 DEF Pending, Waits
    <3>2. calls'[o] = calls[o]
      BY <1>1, <2>4
    <3> QED
      BY <2>1, <3>1, <3>2
  <2> QED
    BY <2>3, <2>4
<1>10. UsesAreReserved'
  BY <1>9 DEF UsesAreReserved
<1> QED
  BY <1>5, <1>7, <1>8, <1>10 DEF DelegationInv

(* The runs know nothing new, and nothing of the budget changes. *)
LEMMA OthersStay ==
    ASSUME DelegationInv, UNCHANGED <<lock, row, run, calls, served>>
    PROVE  LockIsWriting' /\ UsesAreReserved' /\ UntaggedIsEmpty'
<1>1. \A o \in Roles : Pending(o)' = Pending(o)
  BY DEF Pending, Waits
<1>2. UsesAreReserved'
  BY <1>1 DEF DelegationInv, UsesAreReserved
<1> QED
  BY <1>2 DEF DelegationInv, LockIsWriting, At, UntaggedIsEmpty

(* An edit gives the file a stamp no scope has seen. *)
LEMMA EditKeeps ==
    ASSUME DelegationInv, NEW i \in Items, Edit(i)
    PROVE  DelegationInv'
<1> DEFINE new == [ver |-> 3 - repo[i].ver, stamp |-> edits + 2]
<1>1. /\ repo \in [Items -> [ver : 1..2, stamp : Nat]] /\ edits \in Nat /\ edits' = edits + 1
      /\ repo' = [repo EXCEPT ![i] = new]
      /\ UNCHANGED <<key, lock, row, run, calls, served, losses>> /\ StampsArePast
  BY DEF DelegationInv, DelegationTypes, Edit
<1>2. new \in [ver : 1..2, stamp : Nat] /\ new.stamp = edits + 2
  BY <1>1
<1> HIDE DEF new
<1>3. /\ repo' \in [Items -> [ver : 1..2, stamp : Nat]] /\ "in" \in Items
      /\ i = "in" => repo'["in"].stamp = edits + 2
      /\ i # "in" => repo'["in"] = repo["in"]
      /\ \A j \in Items : repo'[j] = new \/ repo'[j] = repo[j]
  BY <1>1, <1>2 DEF Items
<1>4. StampsArePast'
  <2>1. ASSUME NEW j \in Items PROVE repo'[j].stamp <= edits' + 1
    <3>1. repo[j].stamp \in Nat /\ repo[j].stamp <= edits + 1
      BY <1>1 DEF StampsArePast
    <3>2. CASE repo'[j] = new
      BY <1>1, <1>2, <3>2
    <3>3. CASE repo'[j] = repo[j]
      BY <1>1, <3>1, <3>3
    <3> QED
      BY <1>3, <3>2, <3>3
  <2> QED
    BY <2>1 DEF StampsArePast
<1>5. ASSUME NEW r \in Runs PROVE RunOK(run[r], served[r])'
  <2>0. PICK q \in RunRecords : q = run[r]
    BY RunFacts
  <2>1. q \in RunRecords /\ RunOK(q, served[r]) /\ q.file.stamp \in Nat
    BY <2>0, RunFacts DEF RunRecords
  <2>2. run'[r] = q /\ served'[r] = served[r]
    BY <1>1, <2>0
  <2>3. Scoped(q) => q.file.stamp <= edits' + 1 /\ (Unedited(q)' => Unedited(q) /\ i # "in")
    BY <1>1, <1>3, <2>1 DEF RunOK, StampIsContent, Unedited
  <2>4. Scoped(q) => (Unedited(q)' => repo'["in"].ver = q.file.ver)
    BY <1>3, <2>1, <2>3 DEF RunOK, StampIsContent
  <2>5. /\ q.pc = "scan" /\ q.why = "before" => Scoped(q)
        /\ q.pc = "sdk" => Scoped(q)
    BY DEF Scoped
  <2>6. /\ InOrder(run[r])' /\ StampIsContent(run[r])'
    BY <2>1, <2>2, <2>3, <2>4 DEF RunOK, InOrder, StampIsContent, Scoped, Unedited
  <2>7. ScanSawFile(run[r])' /\ FileIsAuthorised(run[r])'
    BY <2>1, <2>2, <2>3, <2>5 DEF RunOK, ScanSawFile, FileIsAuthorised, Passed, Unedited
  <2>8. Served(run[r], served[r])'
    BY <2>1, <2>2 DEF RunOK, Served
  <2> QED
    BY <2>6, <2>7, <2>8 DEF RunOK
<1>6. DelegationTypes'
  BY <1>1, <1>3 DEF DelegationInv, DelegationTypes
<1> QED
  BY <1>1, <1>4, <1>5, <1>6, OthersStay DEF DelegationInv

(* A lost key and a step of nobody. *)
LEMMA LoseKeyKeeps ==
    ASSUME DelegationInv, LoseKey \/ UNCHANGED delegationVars
    PROVE  DelegationInv'
<1>1. /\ UNCHANGED <<repo, lock, row, run, calls, served, edits>>
      /\ key' \in {key, Absent} /\ losses' \in {losses, losses + 1}
  BY DEF LoseKey, delegationVars
<1>2. DelegationTypes'
  BY <1>1 DEF DelegationInv, DelegationTypes
<1>3. StampsArePast' /\ \A r \in Runs : RunOK(run[r], served[r])'
  BY <1>1 DEF DelegationInv, StampsArePast, RunOK, InOrder, StampIsContent, Scoped, Unedited,
     ScanSawFile, Passed, FileIsAuthorised, Served
<1> QED
  BY <1>1, <1>2, <1>3, OthersStay DEF DelegationInv

-----------------------------------------------------------------------------
(* Results *)

LEMMA DelegationInvHolds ==
    ASSUME DelegationAssumption
    PROVE  DelegationSpec => []DelegationInv
<1>1. DelegationInit => DelegationInv
  BY InitHolds
<1>2. DelegationInv /\ [DelegationNext]_delegationVars => DelegationInv'
  BY StartKeeps, ScanKeeps, LoadRouteKeeps, BindScopeKeeps, OpenBudgetKeeps, WriteKeyKeeps,
     ReserveKeeps, ValidateKeeps, OpenSessionKeeps, ToolReadKeeps, ReportKeeps, RecheckKeeps,
     FailKeeps, CrashKeeps, EditKeeps, LoseKeyKeeps DEF DelegationNext
<1> QED
  BY <1>1, <1>2, PTL DEF DelegationSpec

(* Types, and the lock held by the writer of the key alone. *)
THEOREM DelegationTypeCorrect ==
    ASSUME DelegationAssumption
    PROVE  DelegationSpec => []DelegationTypeOK
<1>1. DelegationInv => DelegationTypeOK
  BY DEF DelegationInv, DelegationTypes, LockIsWriting, DelegationTypeOK, RunRecords
<1> QED
  BY <1>1, DelegationInvHolds, PTL

(* However many runners serve a goal, die and lose the key, the SDK is not *)
(* called more often than the limit: no row starts again from zero.        *)
THEOREM BudgetHolds ==
    ASSUME DelegationAssumption
    PROVE  DelegationSpec => []BudgetNeverExceeded
<1>1. DelegationInv => BudgetNeverExceeded
  <2> SUFFICES ASSUME DelegationInv, NEW o \in Roles PROVE calls[o] <= Limit[o]
    BY DEF BudgetNeverExceeded
  <2>1. /\ IsFiniteSet(Pending(o)) /\ calls[o] + Cardinality(Pending(o)) <= row.used[o]
        /\ row.used[o] <= Limit[o]
    BY DEF DelegationInv, UsesAreReserved
  <2>2. /\ calls[o] \in Nat /\ row.used[o] \in Nat /\ Cardinality(Pending(o)) \in Nat
        /\ Limit[o] \in Nat
    BY <2>1, FS_CardinalityType, Constants DEF DelegationInv, DelegationTypes
  <2> QED
    BY <2>1, <2>2
<1> QED
  BY <1>1, DelegationInvHolds, PTL

(* However often the file is edited, and edited back, what a tool serves is *)
(* the content the route was authorised for.                               *)
THEOREM ServedFilesAreAuthorised ==
    ASSUME DelegationAssumption
    PROVE  DelegationSpec => []ServedIsAuthorised
<1>1. DelegationInv => ServedIsAuthorised
  BY DEF DelegationInv, RunOK, Served, ServedIsAuthorised
<1> QED
  BY <1>1, DelegationInvHolds, PTL

(* What the suite checks of delegation, at every step and for all values   *)
(* of the constants: the lock of the key's writer, the budget and the      *)
(* authorised content together.                                            *)
THEOREM AdviceStaysBudgeted ==
    ASSUME DelegationAssumption
    PROVE  DelegationSpec => []AdviceIsBudgeted
<1>1. DelegationTypeOK /\ BudgetNeverExceeded /\ ServedIsAuthorised => AdviceIsBudgeted
  BY DEF AdviceIsBudgeted
<1> QED
  BY <1>1, DelegationTypeCorrect, BudgetHolds, ServedFilesAreAuthorised, PTL

-----------------------------------------------------------------------------
(* Supervised processes.                                                   *)

Handles ==
    {"job", "in_r", "in_w", "out_r", "out_w", "err_r", "err_w", "process", "thread"}
Launching == {"job", "stdin", "out", "err", "create"}
Supervising == {"wait", "terminate", "reap", "join", "result"}
Calls == Launching \cup {"assign", "resume", "threads"} \cup Supervising
         \cup {"cleanup", "close", "ended", "killed"}
OsStates == {"none", "suspended", "running", "dying", "gone"}

Results ==
    [reason : {"none", "raised", "exited", "timed_out"},
     out : Seq(Procs), err : Seq(Procs), truncated : BOOLEAN]

Budgets ==
    [remaining : Nat, out : Seq(Procs), err : Seq(Procs),
     truncated : BOOLEAN, failed : BOOLEAN]

(* What the child, the call and the threads keep. *)
ChildTypes ==
    /\ os \in [Procs -> OsStates] /\ job \subseteq Procs
    /\ pipe \in [Streams -> Seq(Procs)] /\ \A s \in Streams : Len(pipe[s]) <= PipeCap
    /\ inpipe \in 0..PipeCap /\ wrote \in [Procs -> [Streams -> Nat]]
CallTypes ==
    /\ handles \subseteq Handles /\ pc \in Calls /\ faults \in Nat
    /\ flags \in [created : BOOLEAN, finished : BOOLEAN, timedOut : BOOLEAN]
    /\ result \in Results
ThreadTypes ==
    /\ reader \in [Streams -> {"idle", "reading", "done"}]
    /\ feeder \in [state : {"idle", "writing", "done"}, left : Nat, failed : BOOLEAN]
    /\ budget \in Budgets

NobodyAlive == \A p \in Procs : ~Alive(p)
Started == reader["out"] # "idle"

(* What the call has done when it reaches a step. *)
LaunchInOrder ==
    /\ ~flags.created => \A p \in Procs : os[p] = "none"
    /\ pc \in Launching => ~flags.created
    /\ pc = "resume" => "root" \in job
    /\ pc \notin {"job", "ended", "killed"} => "job" \in handles
    /\ pc = "err" => "out_r" \in handles
    /\ pc \in {"create", "assign", "resume"} => {"out_r", "err_r"} \subseteq handles
    /\ pc \in Launching \cup {"assign", "resume", "threads"} => ~Started
    /\ pc = "result" => Drained
    /\ result.reason # "none" => pc \in {"cleanup", "close", "ended", "killed"}

(* The threads are started together, and a handle one owns goes with it. *)
ThreadsOwnHandles ==
    /\ reader["out"] = "idle" <=> reader["err"] = "idle"
    /\ "in_w" \in handles => Input > 0
    /\ Started => /\ \A s \in Streams : ReadHandle[s] \in handles => reader[s] = "reading"
                  /\ "in_w" \in handles => feeder.state = "writing"
    /\ pc = "ended" /\ flags.created => handles \subseteq OwnedByThreads

(* Who may write can be heard, or a reader has noted its failure. *)
WritersAreHeard ==
    \A p \in Procs, s \in Streams :
        os[p] = "running" => ReadHandle[s] \in handles \/ budget.failed

(* A reader that ended without failing saw the end of the tree. *)
DoneMeansOver ==
    \A s \in Streams :
        reader[s] = "done" /\ ~budget.failed /\ pc # "killed" => NobodyAlive /\ pipe[s] = <<>>

Kept(b) == b.remaining + Len(b.out) + Len(b.err)
BudgetIsExact ==
    /\ Kept(budget) = Budget
    /\ budget.truncated => budget.remaining = 0

(* What was written is kept or still in the pipe, unless it was cut. *)
OutputIsAccounted ==
    ~budget.truncated /\ ~budget.failed =>
        \A s \in Streams : Len(budget[s]) + Len(pipe[s]) = wrote["root"][s] + wrote["kid"][s]

(* A result is given only when the tree is over. *)
ResultIsLast == result.reason \in {"exited", "timed_out"} => NobodyAlive

SupervisionInv ==
    /\ ChildTypes /\ CallTypes /\ ThreadTypes /\ LaunchInOrder /\ ThreadsOwnHandles
    /\ NothingRunsUnsupervised /\ TreeIsGone
    /\ WritersAreHeard /\ DoneMeansOver /\ BudgetIsExact /\ OutputIsAccounted
    /\ ResultIsLast /\ ReportedIsWhole

LEMMA ResultValues ==
    /\ NoResult \in Results /\ NoResult.reason = "none"
    /\ Raised \in Results /\ Raised.reason = "raised"
<1>1. <<>> \in Seq(Procs)
  OBVIOUS
<1>2. NoResult \in Results /\ NoResult.reason = "none"
  BY <1>1 DEF NoResult, Results
<1>3. QED  BY <1>2 DEF Raised, Results

LEMMA HandleNames ==
    /\ ReadHandle["out"] = "out_r" /\ ReadHandle["err"] = "err_r"
    /\ WriteHandle["out"] = "out_w" /\ WriteHandle["err"] = "err_w"
  BY DEF ReadHandle, WriteHandle

(* Sums in which one chunk moves. *)
LEMMA OneMore ==
    ASSUME NEW x \in Nat, NEW y \in Nat
    PROVE  x + (y + 1) = (x + y) + 1 /\ (x + 1) + y = x + (y + 1) /\ x + 0 = x
  OBVIOUS

LEMMA OneMoved ==
    ASSUME NEW r \in Nat, r > 0, NEW x \in Nat, NEW y \in Nat
    PROVE  ((r - 1) + (x + 1)) + y = (r + x) + y /\ ((r - 1) + x) + (y + 1) = (r + x) + y
  OBVIOUS

(* Steps that touch neither the output nor the result. *)
LEMMA OutputUntouched ==
    ASSUME BudgetIsExact, OutputIsAccounted, UNCHANGED <<pipe, wrote, budget>>
    PROVE  BudgetIsExact' /\ OutputIsAccounted'
  BY DEF BudgetIsExact, Kept, OutputIsAccounted

LEMMA ResultUntouched ==
    ASSUME ResultIsLast, ReportedIsWhole, UNCHANGED <<wrote, result>>,
           NobodyAlive => NobodyAlive'
    PROVE  ResultIsLast' /\ ReportedIsWhole'
  BY DEF ResultIsLast, ReportedIsWhole

USE DEF Procs, Streams, ReadHandle, WriteHandle, Handles, Launching,
     Supervising, Calls, OsStates, childVars, threadVars, Alive, NobodyAlive,
     Started, OwnedByThreads, Drained

LEMMA WriteKeeps ==
    ASSUME SupervisionAssumption, SupervisionInv, NEW p \in Procs, NEW s \in Streams, Write(p, s)
    PROVE  SupervisionInv'
<1> USE DEF SupervisionInv, SupervisionAssumption, Write
<1>1. ChildTypes'
  BY SMTT(30) DEF ChildTypes
<1>2. CallTypes'
  BY DEF ChildTypes, CallTypes, ThreadTypes
<1>3. ThreadTypes'
  BY DEF ThreadTypes, ChildTypes, Budgets
<1>4. LaunchInOrder' /\ ThreadsOwnHandles'
  BY DEF ChildTypes, CallTypes, ThreadTypes, LaunchInOrder, ThreadsOwnHandles
<1>5. NothingRunsUnsupervised' /\ TreeIsGone'
  BY DEF ChildTypes, CallTypes, ThreadTypes, LaunchInOrder,
       NothingRunsUnsupervised, TreeIsGone
<1>6. WritersAreHeard' /\ DoneMeansOver'
  BY DEF ChildTypes, CallTypes, ThreadTypes, LaunchInOrder, ThreadsOwnHandles,
       NothingRunsUnsupervised, TreeIsGone, DoneMeansOver, WritersAreHeard
<1>7. BudgetIsExact' /\ OutputIsAccounted'
  <2>1. /\ ReadHandle[s] \in handles => Len(pipe'[s]) = Len(pipe[s]) + 1
        /\ ReadHandle[s] \notin handles => Len(pipe'[s]) = Len(pipe[s])
    <3>1. pipe[s] \in Seq(Procs) /\ Len(Append(pipe[s], p)) = Len(pipe[s]) + 1
      BY DEF ChildTypes
    <3>2. pipe'[s] = IF ReadHandle[s] \in handles THEN Append(pipe[s], p) ELSE pipe[s]
      BY DEF ChildTypes
    <3>3. QED  BY <3>1, <3>2
  <2>2. \A t \in Streams \ {s} : pipe'[t] = pipe[t]
    BY DEF ChildTypes
  <2>3. /\ wrote'["root"][s] + wrote'["kid"][s] = (wrote["root"][s] + wrote["kid"][s]) + 1
        /\ \A t \in Streams \ {s}, r \in Procs : wrote'[r][t] = wrote[r][t]
    BY SMTT(30) DEF ChildTypes
  <2>4. ReadHandle[s] \in handles \/ budget.failed
    BY DEF WritersAreHeard
  <2>5. BudgetIsExact' /\ UNCHANGED budget
    BY DEF BudgetIsExact
  <2> HIDE DEF Write
  <2>6. ASSUME NEW t \in Streams, ~budget.truncated, ~budget.failed
        PROVE  Len(budget[t]) + Len(pipe'[t]) = wrote'["root"][t] + wrote'["kid"][t]
    <3>1. Len(budget[t]) + Len(pipe[t]) = wrote["root"][t] + wrote["kid"][t]
      BY <2>6 DEF OutputIsAccounted
    <3>2. Len(budget[t]) \in Nat /\ Len(pipe[t]) \in Nat
          /\ wrote["root"][t] \in Nat /\ wrote["kid"][t] \in Nat
          /\ wrote'["root"][t] \in Nat /\ wrote'["kid"][t] \in Nat
      BY SMTT(30), <1>1 DEF ChildTypes, ThreadTypes, Budgets
    <3>3. CASE t = s
      <4>1. Len(pipe'[s]) = Len(pipe[s]) + 1
        BY <2>1, <2>4, <2>6
      <4>2. /\ Len(budget[s]) + Len(pipe[s]) = wrote["root"][s] + wrote["kid"][s]
            /\ Len(budget[s]) \in Nat /\ Len(pipe[s]) \in Nat
        BY <3>1, <3>2, <3>3
      <4>3. Len(budget[s]) + (Len(pipe[s]) + 1) = (Len(budget[s]) + Len(pipe[s])) + 1
        BY <4>2, OneMore
      <4>4. QED  BY <2>3, <3>3, <4>1, <4>2, <4>3, Zenon
    <3>4. CASE t # s
      BY <2>2, <2>3, <3>1, <3>4
    <3>5. QED  BY <3>3, <3>4
  <2>7. QED  BY <2>5, <2>6 DEF OutputIsAccounted
<1>8. ResultIsLast' /\ ReportedIsWhole'
  BY DEF ResultIsLast, ReportedIsWhole
<1>9. QED  BY <1>1, <1>2, <1>3, <1>4, <1>5, <1>6, <1>7, <1>8 DEF
     SupervisionInv

LEMMA ReadInputKeeps ==
    ASSUME SupervisionAssumption, SupervisionInv, NEW p \in Procs, ReadInput(p)
    PROVE  SupervisionInv'
<1> USE DEF SupervisionInv, SupervisionAssumption, ReadInput
<1>1. ChildTypes'
  BY DEF ChildTypes
<1>2. CallTypes'
  BY DEF ChildTypes, CallTypes, ThreadTypes
<1>3. ThreadTypes'
  BY DEF ThreadTypes, ChildTypes, Budgets
<1>4. LaunchInOrder' /\ ThreadsOwnHandles'
  BY DEF ChildTypes, CallTypes, ThreadTypes, LaunchInOrder, ThreadsOwnHandles
<1>5. NothingRunsUnsupervised' /\ TreeIsGone'
  BY DEF ChildTypes, CallTypes, ThreadTypes, LaunchInOrder,
       NothingRunsUnsupervised, TreeIsGone
<1>6. WritersAreHeard' /\ DoneMeansOver'
  BY DEF ChildTypes, CallTypes, ThreadTypes, LaunchInOrder, ThreadsOwnHandles,
       NothingRunsUnsupervised, TreeIsGone, DoneMeansOver, WritersAreHeard
<1>7. BudgetIsExact' /\ OutputIsAccounted'
  BY OutputUntouched
<1>8. ResultIsLast' /\ ReportedIsWhole'
  BY ResultUntouched DEF ChildTypes
<1>9. QED  BY <1>1, <1>2, <1>3, <1>4, <1>5, <1>6, <1>7, <1>8 DEF
     SupervisionInv

LEMMA SpawnKeeps ==
    ASSUME SupervisionAssumption, SupervisionInv, Spawn
    PROVE  SupervisionInv'
<1> USE DEF SupervisionInv, SupervisionAssumption, Spawn
<1>1. ChildTypes'
  BY DEF ChildTypes
<1>2. CallTypes'
  BY DEF ChildTypes, CallTypes, ThreadTypes
<1>3. ThreadTypes'
  BY DEF ThreadTypes, ChildTypes, Budgets
<1>4. LaunchInOrder' /\ ThreadsOwnHandles'
  BY DEF ChildTypes, CallTypes, ThreadTypes, LaunchInOrder, ThreadsOwnHandles
<1>5. NothingRunsUnsupervised' /\ TreeIsGone'
  BY DEF ChildTypes, CallTypes, ThreadTypes, LaunchInOrder,
       NothingRunsUnsupervised, TreeIsGone
<1>6. WritersAreHeard' /\ DoneMeansOver'
  BY DEF ChildTypes, CallTypes, ThreadTypes, LaunchInOrder, ThreadsOwnHandles,
       NothingRunsUnsupervised, TreeIsGone, DoneMeansOver, WritersAreHeard
<1>7. BudgetIsExact' /\ OutputIsAccounted'
  BY OutputUntouched
<1>8. ResultIsLast' /\ ReportedIsWhole'
  BY ResultUntouched DEF ChildTypes
<1>9. QED  BY <1>1, <1>2, <1>3, <1>4, <1>5, <1>6, <1>7, <1>8 DEF
     SupervisionInv

LEMMA ExitKeeps ==
    ASSUME SupervisionAssumption, SupervisionInv, NEW p \in Procs, Exit(p)
    PROVE  SupervisionInv'
<1> USE DEF SupervisionInv, SupervisionAssumption, Exit
<1>1. ChildTypes'
  BY DEF ChildTypes
<1>2. CallTypes'
  BY DEF ChildTypes, CallTypes, ThreadTypes
<1>3. ThreadTypes'
  BY DEF ThreadTypes, ChildTypes, Budgets
<1>4. LaunchInOrder' /\ ThreadsOwnHandles'
  BY DEF ChildTypes, CallTypes, ThreadTypes, LaunchInOrder, ThreadsOwnHandles
<1>5. NothingRunsUnsupervised' /\ TreeIsGone'
  BY DEF ChildTypes, CallTypes, ThreadTypes, LaunchInOrder,
       NothingRunsUnsupervised, TreeIsGone
<1>6. WritersAreHeard' /\ DoneMeansOver'
  BY DEF ChildTypes, CallTypes, ThreadTypes, LaunchInOrder, ThreadsOwnHandles,
       NothingRunsUnsupervised, TreeIsGone, DoneMeansOver, WritersAreHeard
<1>7. BudgetIsExact' /\ OutputIsAccounted'
  BY OutputUntouched
<1>8. ResultIsLast' /\ ReportedIsWhole'
  BY ResultUntouched DEF ChildTypes
<1>9. QED  BY <1>1, <1>2, <1>3, <1>4, <1>5, <1>6, <1>7, <1>8 DEF
     SupervisionInv

LEMMA ReapKeeps ==
    ASSUME SupervisionAssumption, SupervisionInv, NEW p \in Procs, Reap(p)
    PROVE  SupervisionInv'
<1> USE DEF SupervisionInv, SupervisionAssumption, Reap
<1>1. ChildTypes'
  BY DEF ChildTypes
<1>2. CallTypes'
  BY DEF ChildTypes, CallTypes, ThreadTypes
<1>3. ThreadTypes'
  BY DEF ThreadTypes, ChildTypes, Budgets
<1>4. LaunchInOrder' /\ ThreadsOwnHandles'
  BY DEF ChildTypes, CallTypes, ThreadTypes, LaunchInOrder, ThreadsOwnHandles
<1>5. NothingRunsUnsupervised' /\ TreeIsGone'
  BY DEF ChildTypes, CallTypes, ThreadTypes, LaunchInOrder,
       NothingRunsUnsupervised, TreeIsGone
<1>6. WritersAreHeard' /\ DoneMeansOver'
  BY DEF ChildTypes, CallTypes, ThreadTypes, LaunchInOrder, ThreadsOwnHandles,
       NothingRunsUnsupervised, TreeIsGone, DoneMeansOver, WritersAreHeard
<1>7. BudgetIsExact' /\ OutputIsAccounted'
  BY OutputUntouched
<1>8. ResultIsLast' /\ ReportedIsWhole'
  BY ResultUntouched DEF ChildTypes
<1>9. QED  BY <1>1, <1>2, <1>3, <1>4, <1>5, <1>6, <1>7, <1>8 DEF
     SupervisionInv

LEMMA ChunkTaken ==
    ASSUME NEW q \in Seq(Procs), q # <<>>
    PROVE  Head(q) \in Procs /\ Tail(q) \in Seq(Procs) /\ Len(q) = Len(Tail(q)) + 1
  OBVIOUS

(* What _OutputBudget.add does to the budget. *)
LEMMA ChunkAdded ==
    ASSUME ThreadTypes, NEW s \in Streams, NEW c \in Procs, NEW b, b = Add(s, c)
    PROVE  /\ b \in Budgets /\ b.failed = budget.failed
           /\ budget.remaining > 0 =>
                  /\ Len(b[s]) = Len(budget[s]) + 1
                  /\ \A t \in Streams \ {s} : b[t] = budget[t]
                  /\ Kept(b) = Kept(budget)
                  /\ b.remaining = budget.remaining - 1 /\ b.truncated = budget.truncated
           /\ ~(budget.remaining > 0) =>
                  /\ b.truncated /\ b.remaining = budget.remaining
                  /\ b.out = budget.out /\ b.err = budget.err
                  /\ \A t \in Streams : b[t] = budget[t]
<1>1. /\ budget.remaining \in Nat /\ budget.out \in Seq(Procs) /\ budget.err \in Seq(Procs)
      /\ budget \in Budgets
  BY DEF ThreadTypes, Budgets
<1>2. /\ Append(budget.out, c) \in Seq(Procs) /\ Len(Append(budget.out, c)) = Len(budget.out) + 1
      /\ Append(budget.err, c) \in Seq(Procs) /\ Len(Append(budget.err, c)) = Len(budget.err) + 1
  BY <1>1
<1>3. CASE ~(budget.remaining > 0)
  BY <1>1, <1>3 DEF Add, Budgets
<1>4. CASE budget.remaining > 0 /\ s = "out"
  <2>1. budget.remaining - 1 \in Nat
    BY <1>1, <1>4
  <2>2. b = [budget EXCEPT !["out"] = Append(@, c), !.remaining = @ - 1]
    BY <1>4 DEF Add
  <2>3. /\ b \in Budgets /\ b.failed = budget.failed /\ b.truncated = budget.truncated
        /\ b.remaining = budget.remaining - 1
        /\ b.out = Append(budget.out, c) /\ b.err = budget.err
    BY <1>1, <1>2, <2>1, <2>2 DEF Budgets
  <2>4. Len(budget.out) \in Nat /\ Len(budget.err) \in Nat
    BY <1>1
  <2>5. ((budget.remaining - 1) + (Len(budget.out) + 1)) + Len(budget.err)
        = (budget.remaining + Len(budget.out)) + Len(budget.err)
    BY <1>1, <1>4, <2>4, OneMoved, Zenon
  <2>6. Len(b.out) = Len(budget.out) + 1
    BY <1>2, <2>3, Zenon
  <2>7. Kept(b) = Kept(budget)
    BY <2>3, <2>5, <2>6, Zenon DEF Kept
  <2>8. QED  BY <1>4, <2>3, <2>6, <2>7
<1>5. CASE budget.remaining > 0 /\ s = "err"
  <2>1. budget.remaining - 1 \in Nat
    BY <1>1, <1>5
  <2>2. b = [budget EXCEPT !["err"] = Append(@, c), !.remaining = @ - 1]
    BY <1>5 DEF Add
  <2>3. /\ b \in Budgets /\ b.failed = budget.failed /\ b.truncated = budget.truncated
        /\ b.remaining = budget.remaining - 1
        /\ b.err = Append(budget.err, c) /\ b.out = budget.out
    BY <1>1, <1>2, <2>1, <2>2 DEF Budgets
  <2>4. Len(budget.out) \in Nat /\ Len(budget.err) \in Nat
    BY <1>1
  <2>5. ((budget.remaining - 1) + Len(budget.out)) + (Len(budget.err) + 1)
        = (budget.remaining + Len(budget.out)) + Len(budget.err)
    BY <1>1, <1>5, <2>4, OneMoved, Zenon
  <2>6. Len(b.err) = Len(budget.err) + 1
    BY <1>2, <2>3, Zenon
  <2>7. Kept(b) = Kept(budget)
    BY <2>3, <2>5, <2>6, Zenon DEF Kept
  <2>8. QED  BY <1>5, <2>3, <2>6, <2>7
<1>6. QED  BY <1>3, <1>4, <1>5

LEMMA DrainKeeps ==
    ASSUME SupervisionAssumption, SupervisionInv, NEW s \in Streams, Drain(s)
    PROVE  SupervisionInv'
<1> USE DEF SupervisionInv, SupervisionAssumption
<1> DEFINE rest == Tail(pipe[s])
<1> DEFINE chunk == Head(pipe[s])
<1> DEFINE b == Add(s, chunk)
<1>1. /\ reader[s] = "reading" /\ pipe' = [pipe EXCEPT ![s] = rest]
      /\ chunk \in Procs /\ rest \in Seq(Procs) /\ Len(pipe[s]) = Len(rest) + 1
      /\ b = Add(s, chunk) /\ budget' = b
      /\ UNCHANGED <<os, job, inpipe, wrote, handles, pc, flags, reader, feeder,
                     result, faults>>
  <2>1. pipe[s] \in Seq(Procs) /\ pipe[s] # <<>>
    BY DEF Drain, ChildTypes
  <2>2. chunk \in Procs /\ rest \in Seq(Procs) /\ Len(pipe[s]) = Len(rest) + 1
    BY <2>1, ChunkTaken
  <2>3. QED  BY <2>2 DEF Drain
<1> HIDE DEF rest, chunk, b
<1>2. /\ b \in Budgets /\ b.failed = budget.failed
      /\ budget.remaining > 0 =>
             /\ Len(b[s]) = Len(budget[s]) + 1
             /\ \A t \in Streams \ {s} : b[t] = budget[t]
             /\ Kept(b) = Kept(budget)
             /\ b.remaining = budget.remaining - 1 /\ b.truncated = budget.truncated
      /\ ~(budget.remaining > 0) =>
             /\ b.truncated /\ b.remaining = budget.remaining
             /\ b.out = budget.out /\ b.err = budget.err
             /\ \A t \in Streams : b[t] = budget[t]
  BY <1>1, ChunkAdded
<1>3. ChildTypes' /\ CallTypes' /\ ThreadTypes'
  BY SMTT(30), <1>1, <1>2 DEF ChildTypes, CallTypes, ThreadTypes, Budgets
<1>4. LaunchInOrder' /\ ThreadsOwnHandles' /\ NothingRunsUnsupervised' /\ TreeIsGone'
  BY <1>1 DEF LaunchInOrder, ThreadsOwnHandles, NothingRunsUnsupervised, TreeIsGone
<1>5. WritersAreHeard' /\ DoneMeansOver'
  BY <1>1, <1>2 DEF ChildTypes, WritersAreHeard, DoneMeansOver
<1>6. BudgetIsExact' /\ OutputIsAccounted'
  <2>1. /\ Len(pipe[s]) = Len(pipe'[s]) + 1 /\ \A t \in Streams \ {s} : pipe'[t] = pipe[t]
        /\ \A t \in Streams : Len(pipe[t]) \in Nat /\ Len(pipe'[t]) \in Nat
    BY <1>1, <1>3 DEF ChildTypes
  <2>2. /\ \A t \in Streams : Len(budget[t]) \in Nat /\ Len(b[t]) \in Nat
        /\ Len(budget.out) \in Nat /\ Len(budget.err) \in Nat
        /\ Len(b.out) \in Nat /\ Len(b.err) \in Nat
    BY <1>2 DEF ThreadTypes, Budgets
  <2>3. budget.remaining \in Nat
    BY DEF ThreadTypes, Budgets
  <2>4. CASE budget.remaining > 0
    <3>1. BudgetIsExact'
      <4>1. ~budget.truncated
        BY <2>3, <2>4 DEF BudgetIsExact
      <4>2. QED  BY <1>1, <1>2, <2>4, <4>1, Zenon DEF BudgetIsExact, Kept
    <3>2. ASSUME NEW t \in Streams, ~b.truncated, ~b.failed
          PROVE  Len(b[t]) + Len(pipe'[t]) = wrote["root"][t] + wrote["kid"][t]
      <4>1. Len(budget[t]) + Len(pipe[t]) = wrote["root"][t] + wrote["kid"][t]
        BY <1>2, <2>4, <3>2 DEF OutputIsAccounted
      <4>2. CASE t = s
        <5>1. Len(budget[s]) + Len(pipe[s]) = wrote["root"][s] + wrote["kid"][s]
          BY <4>1, <4>2
        <5>2. Len(budget[s]) \in Nat /\ Len(pipe'[s]) \in Nat
          BY <2>1, <2>2
        <5>3. (Len(budget[s]) + 1) + Len(pipe'[s]) = Len(budget[s]) + (Len(pipe'[s]) + 1)
          BY <5>2, OneMore
        <5>4. QED  BY <1>2, <2>1, <2>4, <4>2, <5>1, <5>3, Zenon
      <4>3. CASE t # s
        BY <1>2, <2>1, <2>4, <4>1, <4>3
      <4>4. QED  BY <4>2, <4>3
    <3>3. QED  BY <1>1, <3>1, <3>2 DEF OutputIsAccounted
  <2>5. CASE ~(budget.remaining > 0)
    <3>1. budget.remaining = 0
      BY <2>3, <2>5
    <3>2. b.truncated /\ b.remaining = 0 /\ Kept(b) = Kept(budget)
      BY <1>2, <2>5, <3>1, Zenon DEF Kept
    <3>3. QED  BY <1>1, <3>2, Zenon DEF BudgetIsExact, OutputIsAccounted
  <2>6. QED  BY <2>4, <2>5
<1>7. ResultIsLast' /\ ReportedIsWhole'
  BY <1>1 DEF ResultIsLast, ReportedIsWhole
<1>8. QED  BY <1>3, <1>4, <1>5, <1>6, <1>7

LEMMA DrainEndsKeeps ==
    ASSUME SupervisionAssumption, SupervisionInv, NEW s \in Streams, DrainEnds(s)
    PROVE  SupervisionInv'
<1> USE DEF SupervisionInv, SupervisionAssumption, DrainEnds, ThreadEnds,
     WriteEndOpen
<1>1. ChildTypes'
  BY DEF ChildTypes
<1>2. CallTypes'
  BY DEF ChildTypes, CallTypes, ThreadTypes
<1>3. ThreadTypes'
  BY DEF ThreadTypes, ChildTypes, Budgets
<1>4. LaunchInOrder' /\ ThreadsOwnHandles'
  <2>1. LaunchInOrder'
    BY HandleNames DEF CallTypes, ThreadTypes, LaunchInOrder, ThreadsOwnHandles
  <2>2. ThreadsOwnHandles'
    BY HandleNames DEF CallTypes, ThreadTypes, LaunchInOrder, ThreadsOwnHandles
  <2>3. QED  BY <2>1, <2>2
<1>5. NothingRunsUnsupervised' /\ TreeIsGone'
  BY DEF ChildTypes, CallTypes, ThreadTypes, LaunchInOrder,
       NothingRunsUnsupervised, TreeIsGone
<1>6. WritersAreHeard' /\ DoneMeansOver'
  BY DEF ChildTypes, CallTypes, ThreadTypes, LaunchInOrder, ThreadsOwnHandles,
       NothingRunsUnsupervised, TreeIsGone, DoneMeansOver, WritersAreHeard
<1>7. BudgetIsExact' /\ OutputIsAccounted'
  BY OutputUntouched
<1>8. ResultIsLast' /\ ReportedIsWhole'
  BY ResultUntouched DEF ChildTypes
<1>9. QED  BY <1>1, <1>2, <1>3, <1>4, <1>5, <1>6, <1>7, <1>8 DEF
     SupervisionInv

LEMMA DrainFailsKeeps ==
    ASSUME SupervisionAssumption, SupervisionInv, NEW s \in Streams, DrainFails(s)
    PROVE  SupervisionInv'
<1> USE DEF SupervisionInv, SupervisionAssumption, DrainFails, ThreadEnds
<1>1. ChildTypes'
  BY DEF ChildTypes
<1>2. CallTypes'
  BY SMTT(30) DEF ChildTypes, CallTypes, ThreadTypes
<1>3. ThreadTypes'
  BY DEF ThreadTypes, ChildTypes, Budgets
<1>4. LaunchInOrder' /\ ThreadsOwnHandles'
  BY SMTT(30) DEF ChildTypes, CallTypes, ThreadTypes, LaunchInOrder, ThreadsOwnHandles
<1>5. NothingRunsUnsupervised' /\ TreeIsGone'
  BY DEF ChildTypes, CallTypes, ThreadTypes, LaunchInOrder,
       NothingRunsUnsupervised, TreeIsGone
<1>6. WritersAreHeard' /\ DoneMeansOver'
  BY DEF ChildTypes, CallTypes, ThreadTypes, LaunchInOrder, ThreadsOwnHandles,
       NothingRunsUnsupervised, TreeIsGone, DoneMeansOver, WritersAreHeard
<1>7. BudgetIsExact' /\ OutputIsAccounted'
  BY DEF ThreadTypes, Budgets, BudgetIsExact, Kept, OutputIsAccounted
<1>8. ResultIsLast' /\ ReportedIsWhole'
  BY ResultUntouched DEF ChildTypes
<1>9. QED  BY <1>1, <1>2, <1>3, <1>4, <1>5, <1>6, <1>7, <1>8 DEF
     SupervisionInv

LEMMA FeedKeeps ==
    ASSUME SupervisionAssumption, SupervisionInv, Feed
    PROVE  SupervisionInv'
<1> USE DEF SupervisionInv, SupervisionAssumption, Feed
<1>1. ChildTypes'
  BY DEF ChildTypes
<1>2. CallTypes'
  BY DEF ChildTypes, CallTypes, ThreadTypes
<1>3. ThreadTypes'
  <2>1. feeder.left - 1 \in Nat
    BY DEF ThreadTypes
  <2>2. QED  BY <2>1 DEF ThreadTypes
<1>4. LaunchInOrder' /\ ThreadsOwnHandles'
  BY DEF ChildTypes, CallTypes, ThreadTypes, LaunchInOrder, ThreadsOwnHandles
<1>5. NothingRunsUnsupervised' /\ TreeIsGone'
  BY DEF ChildTypes, CallTypes, ThreadTypes, LaunchInOrder,
       NothingRunsUnsupervised, TreeIsGone
<1>6. WritersAreHeard' /\ DoneMeansOver'
  BY DEF ChildTypes, CallTypes, ThreadTypes, LaunchInOrder, ThreadsOwnHandles,
       NothingRunsUnsupervised, TreeIsGone, DoneMeansOver, WritersAreHeard
<1>7. BudgetIsExact' /\ OutputIsAccounted'
  BY OutputUntouched
<1>8. ResultIsLast' /\ ReportedIsWhole'
  BY ResultUntouched DEF ChildTypes
<1>9. QED  BY <1>1, <1>2, <1>3, <1>4, <1>5, <1>6, <1>7, <1>8 DEF
     SupervisionInv

LEMMA FeedEndsKeeps ==
    ASSUME SupervisionAssumption, SupervisionInv, FeedEnds
    PROVE  SupervisionInv'
<1> USE DEF SupervisionInv, SupervisionAssumption, FeedEnds
<1>1. ChildTypes'
  BY DEF ChildTypes
<1>2. CallTypes'
  BY SMTT(30) DEF ChildTypes, CallTypes, ThreadTypes
<1>3. ThreadTypes'
  BY DEF ThreadTypes, ChildTypes, Budgets
<1>4. LaunchInOrder' /\ ThreadsOwnHandles'
  BY DEF ChildTypes, CallTypes, ThreadTypes, LaunchInOrder, ThreadsOwnHandles
<1>5. NothingRunsUnsupervised' /\ TreeIsGone'
  BY DEF ChildTypes, CallTypes, ThreadTypes, LaunchInOrder,
       NothingRunsUnsupervised, TreeIsGone
<1>6. WritersAreHeard' /\ DoneMeansOver'
  BY DEF ChildTypes, CallTypes, ThreadTypes, LaunchInOrder, ThreadsOwnHandles,
       NothingRunsUnsupervised, TreeIsGone, DoneMeansOver, WritersAreHeard
<1>7. BudgetIsExact' /\ OutputIsAccounted'
  BY OutputUntouched
<1>8. ResultIsLast' /\ ReportedIsWhole'
  BY ResultUntouched DEF ChildTypes
<1>9. QED  BY <1>1, <1>2, <1>3, <1>4, <1>5, <1>6, <1>7, <1>8 DEF
     SupervisionInv

LEMMA CreateJobKeeps ==
    ASSUME SupervisionAssumption, SupervisionInv, CreateJob
    PROVE  SupervisionInv'
<1> USE DEF SupervisionInv, SupervisionAssumption, CreateJob, Open, Native,
     NativeFails
<1>1. ChildTypes'
  BY DEF ChildTypes
<1>2. CallTypes'
  <2>1. handles' \subseteq Handles
    BY DEF CallTypes
  <2>2. pc' \in Calls /\ faults' \in Nat
    BY DEF CallTypes
  <2>3. flags' \in [created : BOOLEAN, finished : BOOLEAN, timedOut : BOOLEAN]
    BY DEF CallTypes
  <2>4. result' \in Results
    BY ResultValues DEF CallTypes, ThreadTypes, Budgets
  <2>5. QED  BY <2>1, <2>2, <2>3, <2>4 DEF CallTypes
<1>3. ThreadTypes'
  BY DEF ThreadTypes, ChildTypes, Budgets
<1>4. LaunchInOrder' /\ ThreadsOwnHandles'
  BY DEF ChildTypes, CallTypes, ThreadTypes, LaunchInOrder, ThreadsOwnHandles
<1>5. NothingRunsUnsupervised' /\ TreeIsGone'
  BY DEF ChildTypes, CallTypes, ThreadTypes, LaunchInOrder,
       NothingRunsUnsupervised, TreeIsGone
<1>6. WritersAreHeard' /\ DoneMeansOver'
  BY DEF ChildTypes, CallTypes, ThreadTypes, LaunchInOrder, ThreadsOwnHandles,
       NothingRunsUnsupervised, TreeIsGone, DoneMeansOver, WritersAreHeard
<1>7. BudgetIsExact' /\ OutputIsAccounted'
  BY OutputUntouched
<1>8. ResultIsLast' /\ ReportedIsWhole'
  BY ResultValues DEF LaunchInOrder, ResultIsLast, ReportedIsWhole
<1>9. QED  BY <1>1, <1>2, <1>3, <1>4, <1>5, <1>6, <1>7, <1>8 DEF
     SupervisionInv

LEMMA OpenInputKeeps ==
    ASSUME SupervisionAssumption, SupervisionInv, OpenInput
    PROVE  SupervisionInv'
<1> USE DEF SupervisionInv, SupervisionAssumption, OpenInput, Open, Native,
     NativeFails
<1>1. ChildTypes'
  BY DEF ChildTypes
<1>2. CallTypes'
  <2>1. handles' \subseteq Handles
    BY DEF CallTypes
  <2>2. pc' \in Calls /\ faults' \in Nat
    BY DEF CallTypes
  <2>3. flags' \in [created : BOOLEAN, finished : BOOLEAN, timedOut : BOOLEAN]
    BY DEF CallTypes
  <2>4. result' \in Results
    BY ResultValues DEF CallTypes, ThreadTypes, Budgets
  <2>5. QED  BY <2>1, <2>2, <2>3, <2>4 DEF CallTypes
<1>3. ThreadTypes'
  BY DEF ThreadTypes, ChildTypes, Budgets
<1>4. LaunchInOrder' /\ ThreadsOwnHandles'
  BY DEF ChildTypes, CallTypes, ThreadTypes, LaunchInOrder, ThreadsOwnHandles
<1>5. NothingRunsUnsupervised' /\ TreeIsGone'
  BY DEF ChildTypes, CallTypes, ThreadTypes, LaunchInOrder,
       NothingRunsUnsupervised, TreeIsGone
<1>6. WritersAreHeard' /\ DoneMeansOver'
  BY DEF ChildTypes, CallTypes, ThreadTypes, LaunchInOrder, ThreadsOwnHandles,
       NothingRunsUnsupervised, TreeIsGone, DoneMeansOver, WritersAreHeard
<1>7. BudgetIsExact' /\ OutputIsAccounted'
  BY OutputUntouched
<1>8. ResultIsLast' /\ ReportedIsWhole'
  BY ResultValues DEF LaunchInOrder, ResultIsLast, ReportedIsWhole
<1>9. QED  BY <1>1, <1>2, <1>3, <1>4, <1>5, <1>6, <1>7, <1>8 DEF
     SupervisionInv

LEMMA CreatePipeKeeps ==
    ASSUME SupervisionAssumption, SupervisionInv, NEW s \in Streams, CreatePipe(s)
    PROVE  SupervisionInv'
<1> USE DEF SupervisionInv, SupervisionAssumption, CreatePipe, Open, Native,
     NativeFails
<1>1. ChildTypes'
  BY DEF ChildTypes
<1>2. CallTypes'
  <2>1. handles' \subseteq Handles
    BY ZenonT(60), HandleNames DEF CallTypes
  <2>2. pc' \in Calls /\ faults' \in Nat
    BY DEF CallTypes
  <2>3. flags' \in [created : BOOLEAN, finished : BOOLEAN, timedOut : BOOLEAN]
    BY DEF CallTypes
  <2>4. result' \in Results
    BY ResultValues DEF CallTypes, ThreadTypes, Budgets
  <2>5. QED  BY <2>1, <2>2, <2>3, <2>4 DEF CallTypes
<1>3. ThreadTypes'
  BY DEF ThreadTypes, ChildTypes, Budgets
<1>4. LaunchInOrder' /\ ThreadsOwnHandles'
  <2>1. CASE s = "out"
    BY <2>1, HandleNames, ResultValues
       DEF ChildTypes, CallTypes, ThreadTypes, LaunchInOrder, ThreadsOwnHandles
  <2>2. CASE s = "err"
    BY <2>2, HandleNames, ResultValues
       DEF ChildTypes, CallTypes, ThreadTypes, LaunchInOrder, ThreadsOwnHandles
  <2>3. QED  BY <2>1, <2>2
<1>5. NothingRunsUnsupervised' /\ TreeIsGone'
  BY DEF ChildTypes, CallTypes, ThreadTypes, LaunchInOrder,
       NothingRunsUnsupervised, TreeIsGone
<1>6. WritersAreHeard' /\ DoneMeansOver'
  BY DEF ChildTypes, CallTypes, ThreadTypes, LaunchInOrder, ThreadsOwnHandles,
       NothingRunsUnsupervised, TreeIsGone, DoneMeansOver, WritersAreHeard
<1>7. BudgetIsExact' /\ OutputIsAccounted'
  BY OutputUntouched
<1>8. ResultIsLast' /\ ReportedIsWhole'
  BY ResultValues DEF LaunchInOrder, ResultIsLast, ReportedIsWhole
<1>9. QED  BY <1>1, <1>2, <1>3, <1>4, <1>5, <1>6, <1>7, <1>8 DEF
     SupervisionInv

LEMMA CreateProcessKeeps ==
    ASSUME SupervisionAssumption, SupervisionInv, CreateProcess
    PROVE  SupervisionInv'
<1> USE DEF SupervisionInv, SupervisionAssumption, CreateProcess,
     CreatedState, Native, NativeFails
<1>1. ChildTypes'
  BY DEF ChildTypes
<1>2. CallTypes'
  <2>1. handles' \subseteq Handles
    BY DEF CallTypes
  <2>2. pc' \in Calls /\ faults' \in Nat
    BY DEF CallTypes
  <2>3. flags' \in [created : BOOLEAN, finished : BOOLEAN, timedOut : BOOLEAN]
    BY DEF CallTypes
  <2>4. result' \in Results
    BY ResultValues DEF CallTypes, ThreadTypes, Budgets
  <2>5. QED  BY <2>1, <2>2, <2>3, <2>4 DEF CallTypes
<1>3. ThreadTypes'
  BY DEF ThreadTypes, ChildTypes, Budgets
<1>4. LaunchInOrder' /\ ThreadsOwnHandles'
  BY DEF ChildTypes, CallTypes, ThreadTypes, LaunchInOrder, ThreadsOwnHandles
<1>5. NothingRunsUnsupervised' /\ TreeIsGone'
  BY DEF ChildTypes, CallTypes, ThreadTypes, LaunchInOrder,
       NothingRunsUnsupervised, TreeIsGone
<1>6. WritersAreHeard' /\ DoneMeansOver'
  BY DEF ChildTypes, CallTypes, ThreadTypes, LaunchInOrder, ThreadsOwnHandles,
       NothingRunsUnsupervised, TreeIsGone, DoneMeansOver, WritersAreHeard
<1>7. BudgetIsExact' /\ OutputIsAccounted'
  BY OutputUntouched
<1>8. ResultIsLast' /\ ReportedIsWhole'
  BY DEF LaunchInOrder, ResultIsLast, ReportedIsWhole
<1>9. QED  BY <1>1, <1>2, <1>3, <1>4, <1>5, <1>6, <1>7, <1>8 DEF
     SupervisionInv

LEMMA AssignToJobKeeps ==
    ASSUME SupervisionAssumption, SupervisionInv, AssignToJob
    PROVE  SupervisionInv'
<1> USE DEF SupervisionInv, SupervisionAssumption, AssignToJob, Native,
     NativeFails
<1>1. ChildTypes'
  BY DEF ChildTypes
<1>2. CallTypes'
  BY DEF ChildTypes, CallTypes, ThreadTypes
<1>3. ThreadTypes'
  BY DEF ThreadTypes, ChildTypes, Budgets
<1>4. LaunchInOrder' /\ ThreadsOwnHandles'
  BY DEF ChildTypes, CallTypes, ThreadTypes, LaunchInOrder, ThreadsOwnHandles
<1>5. NothingRunsUnsupervised' /\ TreeIsGone'
  BY DEF ChildTypes, CallTypes, ThreadTypes, LaunchInOrder,
       NothingRunsUnsupervised, TreeIsGone
<1>6. WritersAreHeard' /\ DoneMeansOver'
  BY DEF ChildTypes, CallTypes, ThreadTypes, LaunchInOrder, ThreadsOwnHandles,
       NothingRunsUnsupervised, TreeIsGone, DoneMeansOver, WritersAreHeard
<1>7. BudgetIsExact' /\ OutputIsAccounted'
  BY OutputUntouched
<1>8. ResultIsLast' /\ ReportedIsWhole'
  BY ResultUntouched DEF ChildTypes
<1>9. QED  BY <1>1, <1>2, <1>3, <1>4, <1>5, <1>6, <1>7, <1>8 DEF
     SupervisionInv

LEMMA ResumeKeeps ==
    ASSUME SupervisionAssumption, SupervisionInv, Resume
    PROVE  SupervisionInv'
<1> USE DEF SupervisionInv, SupervisionAssumption, Resume, Native, NativeFails
<1>1. ChildTypes'
  BY DEF ChildTypes
<1>2. CallTypes'
  <2>1. handles' \subseteq Handles
    BY DEF CallTypes
  <2>2. pc' \in Calls /\ faults' \in Nat
    BY DEF CallTypes
  <2>3. flags' \in [created : BOOLEAN, finished : BOOLEAN, timedOut : BOOLEAN]
    BY DEF CallTypes
  <2>4. result' \in Results
    BY ResultValues DEF CallTypes, ThreadTypes, Budgets
  <2>5. QED  BY <2>1, <2>2, <2>3, <2>4 DEF CallTypes
<1>3. ThreadTypes'
  BY DEF ThreadTypes, ChildTypes, Budgets
<1>4. LaunchInOrder' /\ ThreadsOwnHandles'
  BY ZenonT(60) DEF ChildTypes, CallTypes, ThreadTypes, LaunchInOrder, ThreadsOwnHandles
<1>5. NothingRunsUnsupervised' /\ TreeIsGone'
  BY DEF ChildTypes, CallTypes, ThreadTypes, LaunchInOrder,
       NothingRunsUnsupervised, TreeIsGone
<1>6. WritersAreHeard' /\ DoneMeansOver'
  <2>1. {"out_r", "err_r"} \subseteq handles'
    BY DEF LaunchInOrder, CallTypes
  <2>2. WritersAreHeard'
    BY <2>1, HandleNames DEF WritersAreHeard
  <2>3. DoneMeansOver'
    BY DEF ChildTypes, CallTypes, ThreadTypes, LaunchInOrder, ThreadsOwnHandles, DoneMeansOver
  <2>4. QED  BY <2>2, <2>3
<1>7. BudgetIsExact' /\ OutputIsAccounted'
  BY OutputUntouched
<1>8. ResultIsLast' /\ ReportedIsWhole'
  BY ResultUntouched DEF ChildTypes
<1>9. QED  BY <1>1, <1>2, <1>3, <1>4, <1>5, <1>6, <1>7, <1>8 DEF
     SupervisionInv

LEMMA StartThreadsKeeps ==
    ASSUME SupervisionAssumption, SupervisionInv, StartThreads
    PROVE  SupervisionInv'
<1> USE DEF SupervisionInv, SupervisionAssumption, StartThreads
<1>1. ChildTypes'
  BY DEF ChildTypes
<1>2. CallTypes'
  BY DEF ChildTypes, CallTypes, ThreadTypes
<1>3. ThreadTypes'
  BY DEF ThreadTypes, ChildTypes, Budgets
<1>4. LaunchInOrder' /\ ThreadsOwnHandles'
  BY DEF ChildTypes, CallTypes, ThreadTypes, LaunchInOrder, ThreadsOwnHandles
<1>5. NothingRunsUnsupervised' /\ TreeIsGone'
  BY DEF ChildTypes, CallTypes, ThreadTypes, LaunchInOrder,
       NothingRunsUnsupervised, TreeIsGone
<1>6. WritersAreHeard' /\ DoneMeansOver'
  BY DEF ChildTypes, CallTypes, ThreadTypes, LaunchInOrder, ThreadsOwnHandles,
       NothingRunsUnsupervised, TreeIsGone, DoneMeansOver, WritersAreHeard
<1>7. BudgetIsExact' /\ OutputIsAccounted'
  BY OutputUntouched
<1>8. ResultIsLast' /\ ReportedIsWhole'
  BY ResultUntouched DEF ChildTypes
<1>9. QED  BY <1>1, <1>2, <1>3, <1>4, <1>5, <1>6, <1>7, <1>8 DEF
     SupervisionInv

LEMMA WaitKeeps ==
    ASSUME SupervisionAssumption, SupervisionInv, Wait
    PROVE  SupervisionInv'
<1> USE DEF SupervisionInv, SupervisionAssumption, Wait, Native, NativeFails
<1>1. ChildTypes'
  BY DEF ChildTypes
<1>2. CallTypes'
  <2>1. handles' \subseteq Handles
    BY DEF CallTypes
  <2>2. pc' \in Calls /\ faults' \in Nat
    BY DEF CallTypes
  <2>3. flags' \in [created : BOOLEAN, finished : BOOLEAN, timedOut : BOOLEAN]
    BY DEF CallTypes
  <2>4. result' \in Results
    BY ResultValues DEF CallTypes, ThreadTypes, Budgets
  <2>5. QED  BY <2>1, <2>2, <2>3, <2>4 DEF CallTypes
<1>3. ThreadTypes'
  BY DEF ThreadTypes, ChildTypes, Budgets
<1>4. LaunchInOrder' /\ ThreadsOwnHandles'
  BY DEF ChildTypes, CallTypes, ThreadTypes, LaunchInOrder, ThreadsOwnHandles
<1>5. NothingRunsUnsupervised' /\ TreeIsGone'
  BY DEF ChildTypes, CallTypes, ThreadTypes, LaunchInOrder,
       NothingRunsUnsupervised, TreeIsGone
<1>6. WritersAreHeard' /\ DoneMeansOver'
  BY DEF ChildTypes, CallTypes, ThreadTypes, LaunchInOrder, ThreadsOwnHandles,
       NothingRunsUnsupervised, TreeIsGone, DoneMeansOver, WritersAreHeard
<1>7. BudgetIsExact' /\ OutputIsAccounted'
  BY OutputUntouched
<1>8. ResultIsLast' /\ ReportedIsWhole'
  BY ResultUntouched DEF ChildTypes
<1>9. QED  BY <1>1, <1>2, <1>3, <1>4, <1>5, <1>6, <1>7, <1>8 DEF
     SupervisionInv

LEMMA TerminateKeeps ==
    ASSUME SupervisionAssumption, SupervisionInv, Terminate
    PROVE  SupervisionInv'
<1> USE DEF SupervisionInv, SupervisionAssumption, Terminate, Killed, Native,
     NativeFails
<1>1. ChildTypes'
  BY DEF ChildTypes
<1>2. CallTypes'
  BY DEF ChildTypes, CallTypes, ThreadTypes
<1>3. ThreadTypes'
  BY DEF ThreadTypes, ChildTypes, Budgets
<1>4. LaunchInOrder' /\ ThreadsOwnHandles'
  BY DEF ChildTypes, CallTypes, ThreadTypes, LaunchInOrder, ThreadsOwnHandles
<1>5. NothingRunsUnsupervised' /\ TreeIsGone'
  BY DEF ChildTypes, CallTypes, ThreadTypes, LaunchInOrder,
       NothingRunsUnsupervised, TreeIsGone
<1>6. WritersAreHeard' /\ DoneMeansOver'
  BY DEF ChildTypes, CallTypes, ThreadTypes, LaunchInOrder, ThreadsOwnHandles,
       NothingRunsUnsupervised, TreeIsGone, DoneMeansOver, WritersAreHeard
<1>7. BudgetIsExact' /\ OutputIsAccounted'
  BY OutputUntouched
<1>8. ResultIsLast' /\ ReportedIsWhole'
  BY ResultUntouched DEF ChildTypes
<1>9. QED  BY <1>1, <1>2, <1>3, <1>4, <1>5, <1>6, <1>7, <1>8 DEF
     SupervisionInv

LEMMA AwaitRootKeeps ==
    ASSUME SupervisionAssumption, SupervisionInv, AwaitRoot
    PROVE  SupervisionInv'
<1> USE DEF SupervisionInv, SupervisionAssumption, AwaitRoot, Native,
     NativeFails
<1>1. ChildTypes'
  BY DEF ChildTypes
<1>2. CallTypes'
  <2>1. handles' \subseteq Handles
    BY DEF CallTypes
  <2>2. pc' \in Calls /\ faults' \in Nat
    BY DEF CallTypes
  <2>3. flags' \in [created : BOOLEAN, finished : BOOLEAN, timedOut : BOOLEAN]
    BY DEF CallTypes
  <2>4. result' \in Results
    BY ResultValues DEF CallTypes, ThreadTypes, Budgets
  <2>5. QED  BY <2>1, <2>2, <2>3, <2>4 DEF CallTypes
<1>3. ThreadTypes'
  BY DEF ThreadTypes, ChildTypes, Budgets
<1>4. LaunchInOrder' /\ ThreadsOwnHandles'
  BY DEF ChildTypes, CallTypes, ThreadTypes, LaunchInOrder, ThreadsOwnHandles
<1>5. NothingRunsUnsupervised' /\ TreeIsGone'
  BY DEF ChildTypes, CallTypes, ThreadTypes, LaunchInOrder,
       NothingRunsUnsupervised, TreeIsGone
<1>6. WritersAreHeard' /\ DoneMeansOver'
  BY DEF ChildTypes, CallTypes, ThreadTypes, LaunchInOrder, ThreadsOwnHandles,
       NothingRunsUnsupervised, TreeIsGone, DoneMeansOver, WritersAreHeard
<1>7. BudgetIsExact' /\ OutputIsAccounted'
  BY OutputUntouched
<1>8. ResultIsLast' /\ ReportedIsWhole'
  BY ResultUntouched DEF ChildTypes
<1>9. QED  BY <1>1, <1>2, <1>3, <1>4, <1>5, <1>6, <1>7, <1>8 DEF
     SupervisionInv

LEMMA JoinKeeps ==
    ASSUME SupervisionAssumption, SupervisionInv, Join
    PROVE  SupervisionInv'
<1> USE DEF SupervisionInv, SupervisionAssumption, Join, Fed
<1>1. ChildTypes'
  BY DEF ChildTypes
<1>2. CallTypes'
  BY DEF ChildTypes, CallTypes, ThreadTypes
<1>3. ThreadTypes'
  BY DEF ThreadTypes, ChildTypes, Budgets
<1>4. LaunchInOrder' /\ ThreadsOwnHandles'
  BY DEF ChildTypes, CallTypes, ThreadTypes, LaunchInOrder, ThreadsOwnHandles
<1>5. NothingRunsUnsupervised' /\ TreeIsGone'
  BY DEF ChildTypes, CallTypes, ThreadTypes, LaunchInOrder,
       NothingRunsUnsupervised, TreeIsGone
<1>6. WritersAreHeard' /\ DoneMeansOver'
  BY DEF ChildTypes, CallTypes, ThreadTypes, LaunchInOrder, ThreadsOwnHandles,
       NothingRunsUnsupervised, TreeIsGone, DoneMeansOver, WritersAreHeard
<1>7. BudgetIsExact' /\ OutputIsAccounted'
  BY OutputUntouched
<1>8. ResultIsLast' /\ ReportedIsWhole'
  BY ResultUntouched DEF ChildTypes
<1>9. QED  BY <1>1, <1>2, <1>3, <1>4, <1>5, <1>6, <1>7, <1>8 DEF
     SupervisionInv

LEMMA ReturnKeeps ==
    ASSUME SupervisionAssumption, SupervisionInv, Return
    PROVE  SupervisionInv'
<1> USE DEF SupervisionInv, SupervisionAssumption, Return, Native, NativeFails
<1>1. ChildTypes'
  BY DEF ChildTypes
<1>2. CallTypes'
  <2>1. handles' \subseteq Handles
    BY DEF CallTypes
  <2>2. pc' \in Calls /\ faults' \in Nat
    BY DEF CallTypes
  <2>3. flags' \in [created : BOOLEAN, finished : BOOLEAN, timedOut : BOOLEAN]
    BY DEF CallTypes
  <2>4. result' \in Results
    
    <3>1. result' = Raised \/ \E r \in {"timed_out", "exited"} :
              result' = [reason |-> r, out |-> budget.out, err |-> budget.err,
                         truncated |-> budget.truncated]
      OBVIOUS
    <3>2. QED  BY <3>1, ResultValues DEF ThreadTypes, Budgets, Results, Budgets
  <2>5. QED  BY <2>1, <2>2, <2>3, <2>4 DEF CallTypes
<1>3. ThreadTypes'
  BY DEF ThreadTypes, ChildTypes, Budgets
<1>4. LaunchInOrder' /\ ThreadsOwnHandles'
  BY DEF ChildTypes, CallTypes, ThreadTypes, LaunchInOrder, ThreadsOwnHandles
<1>5. NothingRunsUnsupervised' /\ TreeIsGone'
  BY DEF ChildTypes, CallTypes, ThreadTypes, LaunchInOrder,
       NothingRunsUnsupervised, TreeIsGone
<1>6. WritersAreHeard' /\ DoneMeansOver'
  BY DEF ChildTypes, CallTypes, ThreadTypes, LaunchInOrder, ThreadsOwnHandles,
       NothingRunsUnsupervised, TreeIsGone, DoneMeansOver, WritersAreHeard
<1>7. BudgetIsExact' /\ OutputIsAccounted'
  BY OutputUntouched
<1>8. ResultIsLast' /\ ReportedIsWhole'
  <2>1. CASE result' = Raised
    BY <2>1, ResultValues DEF ResultIsLast, ReportedIsWhole
  <2>2. CASE /\ ~budget.failed
             /\ result'.out = budget.out /\ result'.err = budget.err
             /\ result'.truncated = budget.truncated
    <3>1. NobodyAlive /\ \A s \in Streams : pipe[s] = <<>>
      BY <2>2 DEF ThreadTypes, LaunchInOrder, DoneMeansOver
    <3>2. ResultIsLast'
      BY <3>1 DEF ResultIsLast
    <3>3. budget.truncated => Len(budget.out) + Len(budget.err) = Budget
      BY DEF BudgetIsExact, ThreadTypes, Budgets, Kept
    <3>4. ~budget.truncated => \A s \in Streams : Len(budget[s]) = wrote["root"][s] + wrote["kid"][s]
      <4>1. ASSUME ~budget.truncated, NEW s \in Streams
            PROVE  Len(budget[s]) = wrote["root"][s] + wrote["kid"][s]
        <5>1. Len(budget[s]) + Len(pipe[s]) = wrote["root"][s] + wrote["kid"][s]
          BY <2>2, <4>1 DEF OutputIsAccounted
        <5>2. Len(budget[s]) \in Nat /\ Len(pipe[s]) = 0
          BY <3>1 DEF ThreadTypes, Budgets
        <5>3. QED  BY <5>1, <5>2, OneMore, Zenon
      <4>2. QED  BY <4>1
    <3>5. ReportedIsWhole'
      BY <2>2, <3>3, <3>4 DEF ReportedIsWhole
    <3>6. QED  BY <3>2, <3>5
  <2>3. QED  BY <2>1, <2>2
<1>9. QED  BY <1>1, <1>2, <1>3, <1>4, <1>5, <1>6, <1>7, <1>8 DEF
     SupervisionInv

LEMMA CleanupKeeps ==
    ASSUME SupervisionAssumption, SupervisionInv, Cleanup
    PROVE  SupervisionInv'
<1> USE DEF SupervisionInv, SupervisionAssumption, Cleanup, Killed
<1>1. ChildTypes'
  BY DEF ChildTypes
<1>2. CallTypes'
  BY ResultValues DEF CallTypes
<1>3. ThreadTypes'
  BY DEF ThreadTypes, ChildTypes, Budgets
<1>4. LaunchInOrder' /\ ThreadsOwnHandles'
  BY DEF ChildTypes, CallTypes, ThreadTypes, LaunchInOrder, ThreadsOwnHandles
<1>5. NothingRunsUnsupervised' /\ TreeIsGone'
  BY DEF ChildTypes, CallTypes, ThreadTypes, LaunchInOrder,
       NothingRunsUnsupervised, TreeIsGone
<1>6. WritersAreHeard' /\ DoneMeansOver'
  BY DEF ChildTypes, CallTypes, ThreadTypes, LaunchInOrder, ThreadsOwnHandles,
       NothingRunsUnsupervised, TreeIsGone, DoneMeansOver, WritersAreHeard
<1>7. BudgetIsExact' /\ OutputIsAccounted'
  BY OutputUntouched
<1>8. ResultIsLast' /\ ReportedIsWhole'
  BY ResultValues DEF ChildTypes, ResultIsLast, ReportedIsWhole
<1>9. QED  BY <1>1, <1>2, <1>3, <1>4, <1>5, <1>6, <1>7, <1>8 DEF
     SupervisionInv

LEMMA CloseHandlesKeeps ==
    ASSUME SupervisionAssumption, SupervisionInv, CloseHandles
    PROVE  SupervisionInv'
<1> USE DEF SupervisionInv, SupervisionAssumption, CloseHandles,
     KilledOnJobClose, Killed
<1>1. ChildTypes'
  BY DEF ChildTypes
<1>2. CallTypes'
  BY DEF ChildTypes, CallTypes, ThreadTypes
<1>3. ThreadTypes'
  BY DEF ThreadTypes, ChildTypes, Budgets
<1>4. LaunchInOrder' /\ ThreadsOwnHandles'
  <2>1. handles' \subseteq handles /\ handles' \subseteq OwnedByThreads' /\ pc' = "ended"
    OBVIOUS
  <2>2. LaunchInOrder'
    BY <2>1 DEF ChildTypes, CallTypes, ThreadTypes, LaunchInOrder
  <2>3. ThreadsOwnHandles'
    BY <2>1 DEF CallTypes, ThreadTypes, LaunchInOrder, ThreadsOwnHandles
  <2>4. QED  BY <2>2, <2>3
<1>5. NothingRunsUnsupervised' /\ TreeIsGone'
  BY DEF ChildTypes, CallTypes, ThreadTypes, LaunchInOrder,
       NothingRunsUnsupervised, TreeIsGone
<1>6. WritersAreHeard' /\ DoneMeansOver'
  BY DEF ChildTypes, CallTypes, ThreadTypes, LaunchInOrder, ThreadsOwnHandles,
       NothingRunsUnsupervised, TreeIsGone, DoneMeansOver, WritersAreHeard
<1>7. BudgetIsExact' /\ OutputIsAccounted'
  BY OutputUntouched
<1>8. ResultIsLast' /\ ReportedIsWhole'
  BY ResultUntouched DEF ChildTypes
<1>9. QED  BY <1>1, <1>2, <1>3, <1>4, <1>5, <1>6, <1>7, <1>8 DEF
     SupervisionInv

LEMMA SupervisorKilledKeeps ==
    ASSUME SupervisionAssumption, SupervisionInv, SupervisorKilled
    PROVE  SupervisionInv'
<1> USE DEF SupervisionInv, SupervisionAssumption, SupervisorKilled,
     KilledOnJobClose, Killed
<1>1. ChildTypes'
  BY DEF ChildTypes
<1>2. CallTypes'
  BY DEF ChildTypes, CallTypes, ThreadTypes
<1>3. ThreadTypes'
  BY DEF ThreadTypes, ChildTypes, Budgets
<1>4. LaunchInOrder' /\ ThreadsOwnHandles'
  BY DEF ChildTypes, CallTypes, ThreadTypes, LaunchInOrder, ThreadsOwnHandles
<1>5. NothingRunsUnsupervised' /\ TreeIsGone'
  BY DEF ChildTypes, CallTypes, ThreadTypes, LaunchInOrder,
       NothingRunsUnsupervised, TreeIsGone
<1>6. WritersAreHeard' /\ DoneMeansOver'
  BY DEF ChildTypes, CallTypes, ThreadTypes, LaunchInOrder, ThreadsOwnHandles,
       NothingRunsUnsupervised, TreeIsGone, DoneMeansOver, WritersAreHeard
<1>7. BudgetIsExact' /\ OutputIsAccounted'
  BY OutputUntouched
<1>8. ResultIsLast' /\ ReportedIsWhole'
  BY ResultUntouched DEF ChildTypes
<1>9. QED  BY <1>1, <1>2, <1>3, <1>4, <1>5, <1>6, <1>7, <1>8 DEF
     SupervisionInv

LEMMA SupervisionStarts ==
    ASSUME SupervisionAssumption, SupervisionInit
    PROVE  SupervisionInv
<1> USE DEF SupervisionInit, SupervisionAssumption
<1>1. /\ budget \in Budgets /\ Kept(budget) = Budget /\ ~budget.truncated
      /\ Len(budget.out) = 0 /\ Len(budget.err) = 0
      /\ \A s \in Streams : Len(budget[s]) = 0 /\ Len(pipe[s]) = 0
  <2>1. <<>> \in Seq(Procs) /\ Len(<<>>) = 0
    OBVIOUS
  <2>2. budget \in Budgets /\ ~budget.truncated
    BY <2>1 DEF Budgets
  <2>3. budget.remaining = Budget /\ Len(budget.out) = 0 /\ Len(budget.err) = 0
    BY <2>1
  <2>4. (Budget + 0) + 0 = Budget
    OBVIOUS
  <2>5. Kept(budget) = Budget
    BY <2>3, <2>4, Zenon DEF Kept
  <2>6. QED  BY <2>1, <2>2, <2>3, <2>5
<1>2. CallTypes /\ result.reason = "none" /\ ~flags.created
  BY ResultValues DEF NoFlags, CallTypes
<1>3. ChildTypes /\ ThreadTypes
  BY <1>1 DEF ChildTypes, ThreadTypes
<1>4. LaunchInOrder /\ ThreadsOwnHandles /\ NothingRunsUnsupervised /\ TreeIsGone
  BY <1>2 DEF LaunchInOrder, ThreadsOwnHandles, NothingRunsUnsupervised, TreeIsGone
<1>5. WritersAreHeard /\ DoneMeansOver
  BY DEF WritersAreHeard, DoneMeansOver
<1>6. BudgetIsExact /\ OutputIsAccounted
  BY <1>1 DEF BudgetIsExact, OutputIsAccounted
<1>7. ResultIsLast /\ ReportedIsWhole
  BY <1>2 DEF ResultIsLast, ReportedIsWhole
<1>8. QED  BY <1>2, <1>3, <1>4, <1>5, <1>6, <1>7 DEF SupervisionInv

LEMMA SupervisionSteps ==
    ASSUME SupervisionAssumption, SupervisionInv, [SupervisionNext]_supervisionVars
    PROVE  SupervisionInv'
<1>1. CASE CallStep
  BY <1>1, CreateJobKeeps, OpenInputKeeps, CreatePipeKeeps, CreateProcessKeeps,
     AssignToJobKeeps, ResumeKeeps, StartThreadsKeeps, WaitKeeps, TerminateKeeps,
     AwaitRootKeeps, JoinKeeps, ReturnKeeps, CleanupKeeps, CloseHandlesKeeps
     DEF CallStep
<1>2. CASE FeederStep \/ Spawn \/ SupervisorKilled
  BY <1>2, FeedKeeps, FeedEndsKeeps, SpawnKeeps, SupervisorKilledKeeps DEF FeederStep
<1>3. ASSUME NEW s \in Streams, ReaderStep(s)
      PROVE  SupervisionInv'
  BY <1>3, DrainKeeps, DrainEndsKeeps, DrainFailsKeeps DEF ReaderStep
<1>4. ASSUME NEW p \in Procs, ChildStep(p) \/ Reap(p)
      PROVE  SupervisionInv'
  BY <1>4, ReadInputKeeps, ExitKeeps, WriteKeeps, ReapKeeps DEF ChildStep
<1>5. CASE UNCHANGED supervisionVars
  <2>1. ChildTypes' /\ CallTypes' /\ ThreadTypes'
    BY <1>5 DEF SupervisionInv, supervisionVars, ChildTypes, CallTypes, ThreadTypes
  <2>2. /\ LaunchInOrder' /\ ThreadsOwnHandles'
        /\ NothingRunsUnsupervised' /\ TreeIsGone'
    BY <1>5 DEF SupervisionInv, supervisionVars, LaunchInOrder, ThreadsOwnHandles,
       NothingRunsUnsupervised, TreeIsGone
  <2>3. WritersAreHeard' /\ DoneMeansOver'
    BY <1>5 DEF SupervisionInv, supervisionVars, WritersAreHeard, DoneMeansOver
  <2>4. BudgetIsExact' /\ OutputIsAccounted' /\ ResultIsLast' /\ ReportedIsWhole'
    BY <1>5, OutputUntouched, ResultUntouched DEF SupervisionInv, supervisionVars
  <2>5. QED  BY <2>1, <2>2, <2>3, <2>4 DEF SupervisionInv
<1>6. QED  BY <1>1, <1>2, <1>3, <1>4, <1>5 DEF SupervisionNext

LEMMA SupervisionInvSuffices ==
    ASSUME SupervisionInv
    PROVE  ProcessesAreSupervised
<1> USE DEF SupervisionInv
<1>1. SupervisionTypeOK
  BY DEF SupervisionTypeOK, ChildTypes, CallTypes, Results, BudgetIsExact, Kept
<1>2. ASSUME pc = "ended", flags.created, \A s \in Streams : reader[s] # "reading",
             feeder.state # "writing"
      PROVE  handles = {}
  <2>1. handles \subseteq OwnedByThreads
    BY <1>2 DEF ThreadsOwnHandles
  <2>2. CASE reader["out"] = "idle"
    BY <2>1, <2>2
  <2>3. CASE reader["out"] # "idle"
    BY <1>2, <2>1, <2>3, HandleNames DEF ThreadsOwnHandles
  <2>4. QED  BY <2>2, <2>3
<1>3. HandlesAreClosed
  BY <1>2 DEF HandlesAreClosed
<1>4. QED  BY <1>1, <1>3 DEF ProcessesAreSupervised

(* Whatever the child and its descendant do, whichever native calls fail and *)
(* wherever the supervisor is killed, with any budget, pipe size, input and  *)
(* number of faults: no process runs code outside the job, none runs on once *)
(* the call is over, a result is whole or says it was cut, and no handle     *)
(* stays open (run and run_appcontainer, windows/process.py).                *)
THEOREM ProcessesStaySupervised ==
    ASSUME SupervisionAssumption
    PROVE  SupervisionSpec => []ProcessesAreSupervised
<1>1. SupervisionInit => SupervisionInv
  BY SupervisionStarts
<1>2. SupervisionInv /\ [SupervisionNext]_supervisionVars => SupervisionInv'
  BY SupervisionSteps
<1>3. SupervisionInv => ProcessesAreSupervised
  BY SupervisionInvSuffices
<1>4. QED  BY <1>1, <1>2, <1>3, PTL DEF SupervisionSpec
=============================================================================
