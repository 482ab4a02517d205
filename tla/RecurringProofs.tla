-------------------------- MODULE RecurringProofs --------------------------
(***************************************************************************)
(* The two ways a weekly workflow runs.  The legacy runner, for any number *)
(* of processes, occurrences, attempts and any lease: callbacks never      *)
(* overlap, a success is that of the last claimant, and no expired attempt *)
(* comes back.  Bound occurrences, for any number of binders, appliers,    *)
(* reconcilers, edits and kills: what runs is bound, scheduled, reviewed   *)
(* and current.                                                            *)
(***************************************************************************)
EXTENDS LegacyRunner, OccurrenceBinding, FiniteSetTheorems, WellFoundedInduction, TLAPS

Attempt == {"locking", "callback", "joining", "settling"}

(* A row carries a token exactly while it runs, that of its last attempt,  *)
(* and can be claimed only while attempts are left.                        *)
RowsAreClaims ==
    \A o \in Occs :
        /\ row[o].status = "running" => row[o].token = row[o].attempts
        /\ row[o].status = "none" => row[o].attempts = 0
        /\ row[o].status = "recoverable" => row[o].attempts < MaxAttempts

(* A run past its claim holds a token that was handed out, and the lock    *)
(* file exactly around its callback.                                       *)
RunsHoldTokens ==
    \A p \in Procs :
        /\ proc[p].pc \in Attempt => proc[p].token \in 1..MaxAttempts
        /\ proc[p].pc = "callback" => lock = p
        /\ proc[p].pc \in {"joining", "settling"} /\ proc[p].outcome = "succeeded"
             => <<proc[p].occ, proc[p].token>> \in ran
        /\ proc[p].pc = "settling" => proc[p].outcome \in {"succeeded", "failed"}

LegacyInv ==
    /\ LegacyTypeOK /\ RowsAreClaims /\ RunsHoldTokens
    /\ SuccessIsTheClaimants /\ LockIsExplained

-----------------------------------------------------------------------------
(* The calls of the store. *)

LEMMA Constants ==
    ASSUME LegacyAssumption
    PROVE  /\ MaxAttempts \in Nat /\ Lease \in Nat /\ MaxLateness \in Nat
           /\ Occurrences \in Nat /\ 1 \in Occs /\ 1 <= MaxAttempts
           /\ 0 \in 0..MaxAttempts /\ 0 \in 0..Lease /\ Lease \in 0..Lease
           /\ NoProc \notin Procs /\ Stale \notin Procs
<1>1. /\ MaxAttempts \in Nat \ {0} /\ Lease \in Nat \ {0} /\ MaxLateness \in Nat
      /\ Occurrences \in Nat \ {0}
  BY DEF LegacyAssumption
<1>2. NoProc \notin Procs /\ Stale \notin Procs
  BY DEF LegacyAssumption, NoProc, Stale
<1> QED
  BY <1>1, <1>2 DEF Occs

(* A table that keeps its types and claims, *)
RowsOK(new) ==
    /\ new \in [Occs -> [status : ClaimStatus, lease : 0..Lease,
                         token : 0..MaxAttempts, attempts : 0..MaxAttempts]]
    /\ \A o \in Occs :
        /\ new[o].status = "running" => new[o].token = new[o].attempts
        /\ new[o].status = "none" => new[o].attempts = 0
        /\ new[o].status = "recoverable" => new[o].attempts < MaxAttempts

(* in which no row has become a success. *)
NoNewSuccess(new) == \A o \in Occs :
    new[o].status = "succeeded" =>
        row[o].status = "succeeded" /\ new[o].attempts = row[o].attempts

Row == [status : ClaimStatus, lease : 0..Lease,
        token : 0..MaxAttempts, attempts : 0..MaxAttempts]

LEMMA ExpiredRows ==
    ASSUME LegacyAssumption, LegacyInv
    PROVE  RowsOK(ExpireClaims) /\ NoNewSuccess(ExpireClaims)
<1> DEFINE new == ExpireClaims
<1>1. ASSUME NEW o \in Occs
      PROVE  /\ new[o] \in Row
             /\ new[o].attempts = row[o].attempts
             /\ new[o] = row[o] \/ new[o].status = "expired"
  <2>0. row[o] \in Row
    BY DEF LegacyInv, LegacyTypeOK, Row
  <2>1. CASE row[o].status = "running" /\ row[o].lease = 0
    <3>1. new[o] = [row[o] EXCEPT !.status = "expired", !.token = 0]
      BY <2>1 DEF ExpireClaims
    <3> QED
      BY <2>0, <3>1, Constants DEF ClaimStatus, Row
  <2>2. CASE ~(row[o].status = "running" /\ row[o].lease = 0)
    BY <2>0, <2>2 DEF ExpireClaims
  <2> QED
    BY <2>1, <2>2
<1>2. new = [o \in Occs |-> new[o]]
  BY DEF ExpireClaims
<1> HIDE DEF new
<1>3. new \in [Occs -> Row]
  BY <1>1, <1>2
<1>4. RowsOK(new) /\ NoNewSuccess(new)
  BY <1>1, <1>3 DEF RowsOK, NoNewSuccess, LegacyInv, RowsAreClaims, Row
<1> QED
  BY <1>4 DEF new

LEMMA TickedRows ==
    ASSUME LegacyAssumption, LegacyInv
    PROVE  LET new == [o \in Occs |-> [row[o] EXCEPT !.lease = Countdown(@)]]
           IN  RowsOK(new) /\ NoNewSuccess(new)
<1> DEFINE new == [o \in Occs |-> [row[o] EXCEPT !.lease = Countdown(@)]]
<1>1. ASSUME NEW o \in Occs
      PROVE  /\ new[o] \in Row
             /\ new[o].attempts = row[o].attempts /\ new[o].token = row[o].token
             /\ new[o].status = row[o].status
  <2>0. row[o] \in Row
    BY DEF LegacyInv, LegacyTypeOK, Row
  <2>1. Countdown(row[o].lease) \in 0..Lease
    BY <2>0, Constants DEF Countdown, Row
  <2> QED
    BY <2>0, <2>1 DEF Row
<1>2. new = [o \in Occs |-> new[o]]
  OBVIOUS
<1> HIDE DEF new
<1>3. new \in [Occs -> Row]
  BY <1>1, <1>2
<1>4. RowsOK(new) /\ NoNewSuccess(new)
  BY <1>1, <1>3 DEF RowsOK, NoNewSuccess, LegacyInv, RowsAreClaims, Row
<1> QED
  BY <1>4 DEF new

(* A change of one row. *)
LEMMA OneRow ==
    ASSUME LegacyInv, NEW o \in Occs, NEW r \in Row,
           r.status = "running" => r.token = r.attempts,
           r.status = "none" => r.attempts = 0,
           r.status = "recoverable" => r.attempts < MaxAttempts,
           NEW new, new = [row EXCEPT ![o] = r]
    PROVE  RowsOK(new)
<1>1. row \in [Occs -> Row]
  BY DEF LegacyInv, LegacyTypeOK, Row
<1>2. new \in [Occs -> Row] /\ \A x \in Occs : new[x] = IF x = o THEN r ELSE row[x]
  BY <1>1
<1> QED
  BY <1>2 DEF RowsOK, LegacyInv, RowsAreClaims, Row

-----------------------------------------------------------------------------
(* What has to be shown of a step: of the table, of the processes, of the  *)
(* lock file and of the callbacks that have returned.                      *)
Proc == [pc : {"idle", "looking", "claiming", "locking", "callback",
                "joining", "settling"},
          occ : Occs, timely : BOOLEAN, force : BOOLEAN, window : 0..Lease,
          token : 0..MaxAttempts, beat : {"on", "lost", "off"},
          outcome : {"none", "succeeded", "failed", "raised"}]

LEMMA IdleProc ==
    ASSUME LegacyAssumption
    PROVE  Idle \in Proc
  BY Constants DEF Idle, Proc

(* A step of process p with the record q it leaves behind. *)
LEMMA OneProc ==
    ASSUME LegacyAssumption, LegacyInv, NEW p \in Procs, NEW q \in Proc,
           proc' = [proc EXCEPT ![p] = q],
           q.pc \in Attempt => q.token \in 1..MaxAttempts,
           q.pc \in {"joining", "settling"} /\ q.outcome = "succeeded"
             => <<q.occ, q.token>> \in ran',
           q.pc = "settling" => q.outcome \in {"succeeded", "failed"},
           ran \subseteq ran', ran' \subseteq Occs \X (1..MaxAttempts),
           \/ lock' = lock /\ (proc[p].pc = "callback" <=> q.pc = "callback")
           \/ lock = NoProc /\ lock' = p /\ q.pc = "callback"
           \/ proc[p].pc = "callback" /\ lock' \in {NoProc, Stale} /\ q.pc # "callback",
           UNCHANGED <<slot, late>>, RowsOK(row'),
           \A o \in Occs : row'[o].status = "succeeded" => <<o, row'[o].attempts>> \in ran'
    PROVE  LegacyInv'
<1>0. proc \in [Procs -> Proc] /\ NoProc \notin Procs /\ Stale \notin Procs
  BY Constants DEF LegacyInv, LegacyTypeOK, Proc
<1>1. proc' \in [Procs -> Proc] /\ \A x \in Procs : proc'[x] = IF x = p THEN q ELSE proc[x]
  BY <1>0
<1>2. /\ lock' \in Procs \cup {NoProc, Stale}
      /\ \A x \in Procs : proc'[x].pc = "callback" => lock' = x
      /\ lock' \in Procs => proc'[lock'].pc = "callback"
  BY ZenonT(60), <1>0, <1>1 DEF LegacyInv, LegacyTypeOK, RunsHoldTokens, LockIsExplained
<1>3. LegacyTypeOK'
  BY <1>1, <1>2 DEF LegacyInv, LegacyTypeOK, RowsOK, Proc
<1>4. RowsAreClaims' /\ SuccessIsTheClaimants'
  BY DEF RowsOK, RowsAreClaims, SuccessIsTheClaimants
<1>5. RunsHoldTokens'
  BY <1>1, <1>2 DEF LegacyInv, RunsHoldTokens
<1> QED
  BY <1>2, <1>3, <1>4, <1>5 DEF LegacyInv, LockIsExplained

-----------------------------------------------------------------------------
LEMMA InitHolds ==
    ASSUME LegacyAssumption, LegacyInit
    PROVE  LegacyInv
<1>1. NoRow \in Row /\ NoRow.status = "none" /\ NoRow.attempts = 0
  BY Constants DEF NoRow, Row, ClaimStatus
<1>2. \A o \in Occs : row[o] = NoRow
  BY DEF LegacyInit
<1>3. Idle \in Proc /\ Idle.pc = "idle" /\ \A p \in Procs : proc[p] = Idle
  BY IdleProc DEF Idle, LegacyInit
<1>4. row \in [Occs -> Row] /\ proc \in [Procs -> Proc] /\ late \in 0..(MaxLateness + 1)
  BY <1>1, <1>3, Constants DEF LegacyInit
<1>5. LegacyTypeOK
  BY <1>4, Constants DEF LegacyInit, LegacyTypeOK, Row, Proc
<1>6. RowsAreClaims /\ SuccessIsTheClaimants
  BY <1>1, <1>2 DEF RowsAreClaims, SuccessIsTheClaimants
<1>7. RunsHoldTokens /\ LockIsExplained
  BY <1>3, Constants DEF RunsHoldTokens, LockIsExplained, LegacyInit, Attempt
<1> QED
  BY <1>5, <1>6, <1>7 DEF LegacyInv

(* A step that leaves the table alone. *)
LEMMA SameRows ==
    ASSUME LegacyInv, row' = row, ran \subseteq ran'
    PROVE  /\ RowsOK(row')
           /\ \A o \in Occs : row'[o].status = "succeeded" => <<o, row'[o].attempts>> \in ran'
  BY DEF LegacyInv, LegacyTypeOK, RowsAreClaims, SuccessIsTheClaimants, RowsOK

LEMMA NoNewSuccessHolds ==
    ASSUME LegacyInv, NoNewSuccess(row'), ran' = ran
    PROVE  \A o \in Occs : row'[o].status = "succeeded" => <<o, row'[o].attempts>> \in ran'
  BY DEF LegacyInv, SuccessIsTheClaimants, NoNewSuccess

LEMMA RanType ==
    ASSUME LegacyInv
    PROVE  ran \subseteq Occs \X (1..MaxAttempts)
  BY DEF LegacyInv, LegacyTypeOK

LEMMA BeginRunKeeps ==
    ASSUME LegacyAssumption, LegacyInv, NEW p \in Procs, NEW force \in BOOLEAN,
           BeginRun(p, force)
    PROVE  LegacyInv'
<1> DEFINE q == [proc[p] EXCEPT !.pc = "looking", !.occ = slot,
                                !.force = force, !.timely = late <= MaxLateness]
<1>1. proc[p] \in Proc /\ proc[p].pc = "idle" /\ slot \in Occs /\ late \in Nat
  BY Constants DEF LegacyInv, LegacyTypeOK, Proc, BeginRun
<1>2. (late <= MaxLateness) \in BOOLEAN
  OBVIOUS
<1>3. q \in Proc /\ q.pc = "looking"
  BY <1>1, <1>2 DEF Proc
<1>4. proc' = [proc EXCEPT ![p] = q]
  BY DEF BeginRun, LegacyInv, LegacyTypeOK
<1>5. RowsOK(row') /\ NoNewSuccess(row') /\ UNCHANGED <<slot, late, lock, ran>>
  BY ExpiredRows DEF BeginRun
<1> HIDE DEF q
<1>6. \A o \in Occs : row'[o].status = "succeeded" => <<o, row'[o].attempts>> \in ran'
  BY <1>5, NoNewSuccessHolds
<1> QED
  BY <1>1, <1>3, <1>4, <1>5, <1>6, OneProc, RanType DEF Attempt

LEMMA JudgeDueKeeps ==
    ASSUME LegacyAssumption, LegacyInv, NEW p \in Procs, JudgeDue(p)
    PROVE  LegacyInv'
<1>0. /\ proc[p] \in Proc /\ proc[p].pc = "looking"
      /\ UNCHANGED <<slot, late, row, lock, ran>>
  BY DEF LegacyInv, LegacyTypeOK, Proc, JudgeDue
<1>1. RowsOK(row') /\ \A o \in Occs : row'[o].status = "succeeded" => <<o, row'[o].attempts>> \in ran'
  BY <1>0, SameRows
<1>2. CASE proc[p].force \/ Due(p)
  <2> DEFINE q == [proc[p] EXCEPT !.pc = "claiming", !.window = Lease]
  <2>1. proc' = [proc EXCEPT ![p] = q]
    BY <1>2 DEF JudgeDue, LegacyInv, LegacyTypeOK
  <2>2. q \in Proc /\ q.pc = "claiming"
    BY <1>0, Constants DEF Proc
  <2> HIDE DEF q
  <2> QED
    BY <1>0, <1>1, <2>1, <2>2, OneProc, RanType DEF Attempt
<1>3. CASE ~(proc[p].force \/ Due(p))
  <2>1. proc' = [proc EXCEPT ![p] = Idle]
    BY <1>3 DEF JudgeDue, Finish
  <2>2. Idle \in Proc /\ Idle.pc = "idle"
    BY IdleProc DEF Idle
  <2> QED
    BY <1>0, <1>1, <2>1, <2>2, OneProc, RanType DEF Attempt
<1> QED
  BY <1>2, <1>3

LEMMA ClaimKeeps ==
    ASSUME LegacyAssumption, LegacyInv, NEW p \in Procs, Claim(p)
    PROVE  LegacyInv'
<1> DEFINE o == proc[p].occ
<1>0. /\ proc[p] \in Proc /\ proc[p].pc = "claiming" /\ o \in Occs
      /\ UNCHANGED <<slot, late, lock, ran>>
  BY DEF LegacyInv, LegacyTypeOK, Proc, Claim
<1>1. CASE Claimable(o)
  <2> DEFINE q == [proc[p] EXCEPT !.pc = "locking", !.beat = "on",
                                  !.token = row[o].attempts + 1]
             r == ClaimedRow(o, proc[p].window)
  <2>1. proc' = [proc EXCEPT ![p] = q] /\ row' = [row EXCEPT ![o] = r]
    BY <1>1 DEF Claim, LegacyInv, LegacyTypeOK
  <2>2. row[o].attempts + 1 \in 1..MaxAttempts
    BY <1>0, <1>1, Constants DEF Claimable, LegacyInv, LegacyTypeOK, RowsAreClaims
  <2>7. row[o].attempts + 1 \in 0..MaxAttempts
    BY <2>2, Constants
  <2>3. q \in Proc /\ q.pc = "locking" /\ q.token \in 1..MaxAttempts
    BY <1>0, <2>2, <2>7 DEF Proc
  <2>4. r \in Row /\ r.status = "running" /\ r.token = r.attempts
    BY <1>0, <2>2, <2>7 DEF ClaimedRow, Row, ClaimStatus, Proc
  <2>5. RowsOK(row')
    BY <1>0, <2>1, <2>4, OneRow
  <2>6. NoNewSuccess(row')
    BY <1>0, <2>1, <2>4 DEF NoNewSuccess, LegacyInv, LegacyTypeOK
  <2> HIDE DEF q, r
  <2> QED
    BY <1>0, <2>1, <2>3, <2>5, <2>6, NoNewSuccessHolds, OneProc, RanType DEF Attempt
<1>2. CASE ~Claimable(o)
  <2>1. proc' = [proc EXCEPT ![p] = Idle] /\ row' = row
    BY <1>2 DEF Claim, Finish
  <2>2. Idle \in Proc /\ Idle.pc = "idle"
    BY IdleProc DEF Idle
  <2> QED
    BY <1>0, <2>1, <2>2, SameRows, OneProc, RanType DEF Attempt
<1> QED
  BY <1>1, <1>2
LEMMA RenewKeeps ==
    ASSUME LegacyAssumption, LegacyInv, NEW p \in Procs, Renew(p)
    PROVE  LegacyInv'
<1> DEFINE o == proc[p].occ
<1>0. proc[p] \in Proc /\ o \in Occs /\ UNCHANGED <<slot, late, lock, ran>>
  BY DEF LegacyInv, LegacyTypeOK, Proc, Renew
<1>1. CASE row' = [row EXCEPT ![o].lease = Lease] /\ proc' = proc
  <2> DEFINE r == [row[o] EXCEPT !.lease = Lease]
  <2>1. row' = [row EXCEPT ![o] = r]
    BY <1>1 DEF LegacyInv, LegacyTypeOK
  <2>2. /\ r \in Row /\ r.status = row[o].status
        /\ r.token = row[o].token /\ r.attempts = row[o].attempts
    BY <1>0, Constants DEF LegacyInv, LegacyTypeOK, Row
  <2>3. NoNewSuccess(row')
    BY <1>0, <2>1, <2>2 DEF NoNewSuccess, LegacyInv, LegacyTypeOK
  <2> HIDE DEF r
  <2>4. RowsOK(row')
    BY <1>0, <2>1, <2>2, OneRow DEF LegacyInv, RowsAreClaims
  <2> QED
    BY <1>0, <1>1, <2>3, <2>4, NoNewSuccessHolds
       DEF LegacyInv, LegacyTypeOK, RowsAreClaims, RunsHoldTokens, LockIsExplained,
           SuccessIsTheClaimants, RowsOK
<1>2. CASE proc' = [proc EXCEPT ![p].beat = "lost"] /\ row' = row
  <2> DEFINE q == [proc[p] EXCEPT !.beat = "lost"]
  <2>1. proc' = [proc EXCEPT ![p] = q]
    BY <1>2 DEF LegacyInv, LegacyTypeOK
  <2>2. /\ q \in Proc /\ q.pc = proc[p].pc /\ q.token = proc[p].token
        /\ q.occ = proc[p].occ /\ q.outcome = proc[p].outcome
    BY <1>0 DEF Proc
  <2>3. /\ q.pc \in Attempt => q.token \in 1..MaxAttempts
        /\ q.pc \in {"joining", "settling"} /\ q.outcome = "succeeded"
             => <<q.occ, q.token>> \in ran'
        /\ q.pc = "settling" => q.outcome \in {"succeeded", "failed"}
    BY <1>0, <2>2 DEF LegacyInv, RunsHoldTokens
  <2> HIDE DEF q
  <2> QED
    BY <1>0, <1>2, <2>1, <2>2, <2>3, SameRows, OneProc, RanType
<1> QED
  BY <1>1, <1>2 DEF Renew

LEMMA TakeLockKeeps ==
    ASSUME LegacyAssumption, LegacyInv, NEW p \in Procs, TakeLock(p)
    PROVE  LegacyInv'
<1>0. /\ proc[p] \in Proc /\ proc[p].pc = "locking"
      /\ proc[p].token \in 1..MaxAttempts /\ UNCHANGED <<slot, late, row, ran>>
  BY DEF LegacyInv, LegacyTypeOK, Proc, TakeLock, RunsHoldTokens, Attempt
<1>1. CASE lock = NoProc
  <2> DEFINE q == [proc[p] EXCEPT !.pc = "callback"]
  <2>1. proc' = [proc EXCEPT ![p] = q] /\ lock' = p
    BY <1>1 DEF TakeLock, Step, LegacyInv, LegacyTypeOK
  <2>2. q \in Proc /\ q.pc = "callback" /\ q.token = proc[p].token
    BY <1>0 DEF Proc
  <2> HIDE DEF q
  <2> QED
    BY <1>0, <1>1, <2>1, <2>2, SameRows, OneProc, RanType
<1>2. CASE lock # NoProc
  <2> DEFINE q == [proc[p] EXCEPT !.pc = "joining", !.outcome = "raised"]
  <2>1. proc' = [proc EXCEPT ![p] = q] /\ lock' = lock
    BY <1>2 DEF TakeLock, LegacyInv, LegacyTypeOK
  <2>2. /\ q \in Proc /\ q.pc = "joining" /\ q.token = proc[p].token
        /\ q.outcome = "raised"
    BY <1>0 DEF Proc
  <2> HIDE DEF q
  <2> QED
    BY <1>0, <2>1, <2>2, SameRows, OneProc, RanType
<1> QED
  BY <1>1, <1>2

LEMMA EndCallbackKeeps ==
    ASSUME LegacyAssumption, LegacyInv, NEW p \in Procs,
           NEW outcome \in {"succeeded", "failed", "raised"}, EndCallback(p, outcome)
    PROVE  LegacyInv'
<1> DEFINE q == [proc[p] EXCEPT !.pc = "joining", !.outcome = outcome]
<1>0. /\ proc[p] \in Proc /\ proc[p].pc = "callback" /\ proc[p].occ \in Occs
      /\ proc[p].token \in 1..MaxAttempts /\ UNCHANGED <<slot, late, row>>
  BY DEF LegacyInv, LegacyTypeOK, Proc, EndCallback, RunsHoldTokens, Attempt
<1>1. proc' = [proc EXCEPT ![p] = q] /\ lock' = NoProc
  BY DEF EndCallback, LegacyInv, LegacyTypeOK
<1>2. /\ q \in Proc /\ q.pc = "joining" /\ q.token = proc[p].token
      /\ q.outcome = outcome /\ q.occ = proc[p].occ
  BY <1>0 DEF Proc
<1>3. /\ ran \subseteq ran'
      /\ outcome = "succeeded" => <<proc[p].occ, proc[p].token>> \in ran'
  BY DEF EndCallback
<1>4. ran' \subseteq Occs \X (1..MaxAttempts)
  BY <1>0, RanType DEF EndCallback
<1> HIDE DEF q
<1> QED
  BY <1>0, <1>1, <1>2, <1>3, <1>4, SameRows, OneProc

LEMMA JoinHeartbeatKeeps ==
    ASSUME LegacyAssumption, LegacyInv, NEW p \in Procs, JoinHeartbeat(p)
    PROVE  LegacyInv'
<1> DEFINE out == IF proc[p].outcome = "succeeded" /\ proc[p].beat # "lost"
                  THEN "succeeded" ELSE "failed"
           q == [proc[p] EXCEPT !.pc = "settling", !.beat = "off", !.outcome = out]
<1>0. /\ proc[p] \in Proc /\ proc[p].pc = "joining"
      /\ proc[p].token \in 1..MaxAttempts /\ UNCHANGED <<slot, late, row, lock, ran>>
      /\ proc[p].outcome = "succeeded" => <<proc[p].occ, proc[p].token>> \in ran
  BY DEF LegacyInv, LegacyTypeOK, Proc, JoinHeartbeat, RunsHoldTokens, Attempt
<1>1. proc' = [proc EXCEPT ![p] = q]
  BY DEF JoinHeartbeat, LegacyInv, LegacyTypeOK
<1>2. /\ q \in Proc /\ q.pc = "settling" /\ q.token = proc[p].token
      /\ q.occ = proc[p].occ /\ q.outcome = out
  BY <1>0 DEF Proc
<1> HIDE DEF q
<1> QED
  BY <1>0, <1>1, <1>2, SameRows, OneProc, RanType

(* Only the last claimant settles a row, and with its own outcome. *)
LEMMA SettleKeeps ==
    ASSUME LegacyAssumption, LegacyInv, NEW p \in Procs, Settle(p)
    PROVE  LegacyInv'
<1> DEFINE o == proc[p].occ
<1>0. /\ proc[p] \in Proc /\ proc[p].pc = "settling" /\ o \in Occs
      /\ proc[p].token \in 1..MaxAttempts /\ UNCHANGED <<slot, late, lock, ran>>
      /\ proc[p].outcome = "succeeded" => <<o, proc[p].token>> \in ran
      /\ proc' = [proc EXCEPT ![p] = Idle]
  BY DEF LegacyInv, LegacyTypeOK, Proc, Settle, RunsHoldTokens, Attempt, Finish
<1>1. Idle \in Proc /\ Idle.pc = "idle"
  BY IdleProc DEF Idle
<1>2. RowsOK(row') /\ \A x \in Occs : row'[x].status = "succeeded" => <<x, row'[x].attempts>> \in ran'
  <2>1. CASE OwnsRow(o, proc[p].token)
    <3> DEFINE r == [row[o] EXCEPT !.status = proc[p].outcome, !.lease = 0, !.token = 0]
    <3>1. row' = [row EXCEPT ![o] = r]
      BY <2>1 DEF Settle, CompleteRow, LegacyInv, LegacyTypeOK
    <3>2. row[o] \in Row /\ row[o].attempts = proc[p].token
      BY <1>0, <2>1 DEF OwnsRow, LegacyInv, LegacyTypeOK, RowsAreClaims, Row
    <3>3. proc[p].outcome \in {"succeeded", "failed"}
      BY <1>0 DEF LegacyInv, RunsHoldTokens
    <3>4. /\ r \in Row /\ r.status = proc[p].outcome /\ r.attempts = proc[p].token
      BY <3>2, <3>3, Constants DEF Row, ClaimStatus
    <3> HIDE DEF r
    <3>5. RowsOK(row')
      BY <1>0, <3>1, <3>3, <3>4, OneRow
    <3>6. \A x \in Occs : row'[x] = IF x = o THEN r ELSE row[x]
      BY <3>1 DEF LegacyInv, LegacyTypeOK
    <3> QED
      BY <1>0, <3>4, <3>5, <3>6 DEF LegacyInv, SuccessIsTheClaimants
  <2>2. CASE ~OwnsRow(o, proc[p].token)
    <3>1. row' = row
      BY <2>2 DEF Settle, CompleteRow
    <3> QED
      BY <1>0, <3>1, SameRows
  <2> QED
    BY <2>1, <2>2
<1> QED
  BY <1>0, <1>1, <1>2, OneProc, RanType DEF Attempt
LEMMA KillKeeps ==
    ASSUME LegacyAssumption, LegacyInv, NEW p \in Procs, Kill(p)
    PROVE  LegacyInv'
<1>0. /\ proc' = [proc EXCEPT ![p] = Idle] /\ UNCHANGED <<slot, late, row, ran>>
      /\ lock' = IF lock = p THEN Stale ELSE lock
  BY DEF Kill, Finish
<1>1. Idle \in Proc /\ Idle.pc = "idle"
  BY IdleProc DEF Idle
<1>2. lock = p <=> proc[p].pc = "callback"
  BY DEF LegacyInv, RunsHoldTokens, LockIsExplained
<1> QED
  BY <1>0, <1>1, <1>2, SameRows, OneProc, RanType DEF Attempt

(* A change of the table by somebody who is no runner. *)
LEMMA RowsOnly ==
    ASSUME LegacyInv, RowsOK(row'), NoNewSuccess(row'),
           UNCHANGED <<slot, late, lock, proc, ran>>
    PROVE  LegacyInv'
  BY NoNewSuccessHolds
     DEF LegacyInv, LegacyTypeOK, RowsAreClaims, RunsHoldTokens, LockIsExplained,
         SuccessIsTheClaimants, RowsOK

LEMMA MarkRecoverableKeeps ==
    ASSUME LegacyAssumption, LegacyInv, NEW o \in Occs, MarkRecoverable(o)
    PROVE  LegacyInv'
<1> DEFINE r == [row[o] EXCEPT !.status = "recoverable"]
<1>1. row' = [row EXCEPT ![o] = r] /\ UNCHANGED <<slot, late, lock, proc, ran>>
  BY DEF MarkRecoverable, LegacyInv, LegacyTypeOK
<1>2. r \in Row /\ r.status = "recoverable" /\ r.attempts < MaxAttempts
  BY DEF MarkRecoverable, LegacyInv, LegacyTypeOK, Row, ClaimStatus
<1>3. NoNewSuccess(row')
  BY <1>1, <1>2 DEF NoNewSuccess, LegacyInv, LegacyTypeOK
<1> HIDE DEF r
<1>4. RowsOK(row')
  BY <1>1, <1>2, OneRow
<1> QED
  BY <1>1, <1>3, <1>4, RowsOnly

LEMMA TickKeeps ==
    ASSUME LegacyAssumption, LegacyInv, Tick
    PROVE  LegacyInv'
<1>1. RowsOK(row') /\ NoNewSuccess(row') /\ UNCHANGED <<slot, lock, ran>>
  BY TickedRows DEF Tick
<1>2. late' \in 0..(MaxLateness + 1)
  BY Constants DEF Tick, LegacyInv, LegacyTypeOK
<1>3. ASSUME NEW p \in Procs
      PROVE  /\ proc'[p] \in Proc
             /\ proc'[p].pc = proc[p].pc /\ proc'[p].occ = proc[p].occ
             /\ proc'[p].token = proc[p].token /\ proc'[p].outcome = proc[p].outcome
  <2>1. proc'[p] = [proc[p] EXCEPT !.window = Countdown(@)] /\ proc[p] \in Proc
    BY DEF Tick, LegacyInv, LegacyTypeOK, Proc
  <2>2. Countdown(proc[p].window) \in 0..Lease
    BY <2>1, Constants DEF Countdown, Proc
  <2> QED
    BY <2>1, <2>2 DEF Proc
<1>4. proc' \in [Procs -> Proc]
  BY <1>3 DEF Tick
<1>5. LegacyTypeOK'
  BY <1>1, <1>2, <1>4 DEF LegacyInv, LegacyTypeOK, RowsOK, Proc
<1>6. RunsHoldTokens' /\ LockIsExplained'
  BY <1>1, <1>3 DEF LegacyInv, RunsHoldTokens, LockIsExplained
<1>7. RowsAreClaims' /\ SuccessIsTheClaimants'
  BY <1>1, NoNewSuccessHolds DEF RowsOK, RowsAreClaims, SuccessIsTheClaimants
<1> QED
  BY <1>5, <1>6, <1>7 DEF LegacyInv

LEMMA NextSlotKeeps ==
    ASSUME LegacyAssumption, LegacyInv, NextSlot
    PROVE  LegacyInv'
<1>1. slot' \in Occs /\ late' \in 0..(MaxLateness + 1)
  BY Constants DEF NextSlot, LegacyInv, LegacyTypeOK, Occs
<1> QED
  BY <1>1 DEF NextSlot, LegacyInv, LegacyTypeOK, RowsAreClaims, RunsHoldTokens,
              LockIsExplained, SuccessIsTheClaimants

LEMMA LegacyInvHolds ==
    ASSUME LegacyAssumption
    PROVE  LegacySpec => []LegacyInv
<1>1. LegacyInit => LegacyInv
  BY InitHolds
<1>2. LegacyInv /\ [Next]_vars => LegacyInv'
  <2> SUFFICES ASSUME LegacyInv, [Next]_vars
               PROVE  LegacyInv'
    OBVIOUS
  <2>1. CASE Poll
    BY <2>1, BeginRunKeeps DEF Poll
  <2>2. ASSUME NEW p \in Procs, Worker(p) \/ Renew(p) \/ Kill(p)
        PROVE  LegacyInv'
    BY <2>2, JudgeDueKeeps, ClaimKeeps, TakeLockKeeps, EndCallbackKeeps,
       JoinHeartbeatKeeps, SettleKeeps, RenewKeeps, KillKeeps DEF Worker
  <2>3. CASE \E o \in Occs : MarkRecoverable(o)
    BY <2>3, MarkRecoverableKeeps
  <2>4. CASE Tick \/ NextSlot
    BY <2>4, TickKeeps, NextSlotKeeps
  <2>5. CASE UNCHANGED vars
    BY <2>5 DEF vars, LegacyInv, LegacyTypeOK, RowsAreClaims, RunsHoldTokens,
                LockIsExplained, SuccessIsTheClaimants
  <2> QED
    BY <2>1, <2>2, <2>3, <2>4, <2>5 DEF Next
<1> QED
  BY <1>1, <1>2, PTL DEF LegacySpec

-----------------------------------------------------------------------------
(* The runner keeps its types (RecurringRunner, RecurringStateStore). *)
THEOREM LegacyTypeCorrect ==
    ASSUME LegacyAssumption
    PROVE  LegacySpec => []LegacyTypeOK
<1>1. LegacyInv => LegacyTypeOK
  BY DEF LegacyInv
<1> QED
  BY <1>1, LegacyInvHolds, PTL

(* Two callbacks of a workflow never overlap, however many processes poll, *)
(* expire, recover and are killed: whoever is in its callback has created  *)
(* the lock file (RecurringRunner._lock).                                  *)
THEOREM CallbacksAreSingle ==
    ASSUME LegacyAssumption
    PROVE  LegacySpec => []OneCallback
<1>1. LegacyInv => OneCallback
  <2> SUFFICES ASSUME LegacyInv PROVE OneCallback
    OBVIOUS
  <2> DEFINE S == {p \in Procs : proc[p].pc = "callback"}
  <2>1. CASE S = {}
    BY <2>1, FS_EmptySet DEF OneCallback
  <2>2. CASE S # {}
    <3>1. PICK p \in S : TRUE
      BY <2>2
    <3>2. \A x \in S : x = p
      BY <3>1 DEF LegacyInv, RunsHoldTokens
    <3>3. S = {p}
      BY <3>1, <3>2
    <3>4. Cardinality(S) = 1
      BY <3>3, FS_Singleton
    <3> QED
      BY <3>4 DEF OneCallback
  <2> QED
    BY <2>1, <2>2
<1> QED
  BY <1>1, LegacyInvHolds, PTL

(* A row recorded as succeeded was settled by its last claimant, whose     *)
(* callback returned a success: a superseded attempt settles nothing       *)
(* (the token in the WHERE clause of complete).                            *)
THEOREM SuccessesAreTheClaimants ==
    ASSUME LegacyAssumption
    PROVE  LegacySpec => []SuccessIsTheClaimants
<1>1. LegacyInv => SuccessIsTheClaimants
  BY DEF LegacyInv
<1> QED
  BY <1>1, LegacyInvHolds, PTL

(* A lock file names a process in its callback, or one that was killed     *)
(* there: no path of a live run leaves it behind.                          *)
THEOREM LocksAreExplained ==
    ASSUME LegacyAssumption
    PROVE  LegacySpec => []LockIsExplained
<1>1. LegacyInv => LockIsExplained
  BY DEF LegacyInv
<1> QED
  BY <1>1, LegacyInvHolds, PTL

(* An expired row leaves that status only by an operator's review, and     *)
(* runs again only under a higher attempt number (renew, complete, claim,  *)
(* mark_recoverable).                                                      *)
THEOREM ExpiriesAreFinal ==
    ASSUME LegacyAssumption
    PROVE  LegacySpec => ExpiryIsFinalForItsAttempt
<1>1. LegacyInv /\ [Next]_vars => [ExpiryIsFinalForItsAttemptStep]_vars
  <2> SUFFICES ASSUME LegacyInv, Next, NEW o \in Occs
               PROVE  /\ row[o].status = "expired" =>
                           row'[o].status \in {"expired", "recoverable"}
                      /\ row[o].status = "recoverable" =>
                           \/ row'[o].status = "recoverable"
                           \/ row'[o].status = "running"
                                /\ row'[o].attempts > row[o].attempts
    BY DEF ExpiryIsFinalForItsAttemptStep
  <2>0. row \in [Occs -> Row] /\ row[o].attempts \in Nat
    BY Constants DEF LegacyInv, LegacyTypeOK, Row
  <2>1. CASE Poll
    BY <2>0, <2>1 DEF Poll, BeginRun, ExpireClaims
  <2>2. ASSUME NEW p \in Procs, Claim(p) PROVE row'[o] = row[o] \/
             (/\ row[o].status \in {"none", "recoverable"}
              /\ row'[o].status = "running" /\ row'[o].attempts > row[o].attempts)
    BY <2>0, <2>2 DEF Claim, Claimable, ClaimedRow
  <2>3. ASSUME NEW p \in Procs, Settle(p) \/ Renew(p)
        PROVE  row[o].status = "running" \/ row'[o] = row[o]
    BY <2>0, <2>3 DEF Settle, Renew, CompleteRow, OwnsRow
  <2>4. ASSUME NEW p \in Procs,
               \/ JudgeDue(p) \/ TakeLock(p) \/ JoinHeartbeat(p) \/ Kill(p)
               \/ \E out \in {"succeeded", "failed", "raised"} : EndCallback(p, out)
        PROVE  row' = row
    BY <2>4 DEF JudgeDue, TakeLock, JoinHeartbeat, Kill, EndCallback
  <2>5. CASE \E x \in Occs : MarkRecoverable(x)
    BY <2>0, <2>5 DEF MarkRecoverable
  <2>6. CASE Tick
    <3>1. row'[o] = [row[o] EXCEPT !.lease = Countdown(@)]
      BY <2>6 DEF Tick
    <3> QED
      BY <2>0, <3>1 DEF Row
  <2>7. CASE NextSlot
    BY <2>7 DEF NextSlot
  <2> QED
    BY <2>1, <2>2, <2>3, <2>4, <2>5, <2>6, <2>7 DEF Next, Worker
<1> QED
  BY <1>1, LegacyInvHolds, PTL DEF LegacySpec, ExpiryIsFinalForItsAttempt

(* The runner as a whole keeps its attempts apart: one callback at a time, *)
(* successes of the last claimant only, explained lock files and expiries  *)
(* that are final for their attempt (RecurringRunner.run over              *)
(* RecurringStateStore).                                                   *)
THEOREM LegacyAttemptsStayFenced ==
    ASSUME LegacyAssumption
    PROVE  LegacySpec => LegacyAttemptsAreFenced
  BY LegacyTypeCorrect, CallbacksAreSingle, SuccessesAreTheClaimants,
     LocksAreExplained, ExpiriesAreFinal, PTL DEF LegacyAttemptsAreFenced

-----------------------------------------------------------------------------
(* Bound occurrences.                                                      *)

MaybeArtifact == Artifact \cup {NoArtifact}
BinderRecords ==
    [pc : {"idle", "capture", "publish", "register", "bound", "refused", "killed"},
     name : Names \cup {None}, art : MaybeArtifact, next : Nat]
JobRecords ==
    [pc : {"idle", "check", "time", "store", "run", "guard", "effect", "close",
           "done", "refused", "killed", "killed_at_guard", "killed_at_effect"},
     name : Names \cup {None}, art : MaybeArtifact, next : Nat]
OccurrenceRows ==
    [art : MaybeArtifact, status : RowStatus, holder : Appliers \cup {None}, lease : Nat]

(* The shapes of the variables, as functions and records. *)
BindingTypes ==
    /\ clock \in 0..MaxClock
    /\ DOMAIN world = Inputs /\ \A i \in Inputs : world[i] \in Values(i)
    /\ files \in [Names -> MaybeArtifact \cup {Torn}]
    /\ rows \in [Instants -> OccurrenceRows]
    /\ binder \in [Binders -> BinderRecords]
    /\ job \in [Jobs -> JobRecords]
    /\ reviewed \subseteq Artifact /\ granted \subseteq Artifact
    /\ DOMAIN since = Jobs /\ \A j \in Jobs : DOMAIN since[j] = Inputs

(* A binder captures for itself, from an enabled registration, a plan in its scope. *)
BinderOK(b, q) ==
    /\ q.pc \in {"capture", "publish", "register", "bound"} =>
           /\ q.art \in Artifact /\ q.art.created = b
           /\ Enabled(q.art.reg) /\ PlanInScope(q.art.plan, q.art.reg)
    /\ q.pc = "capture" => q.next \in 1..4

(* A row in use holds what its binder registered, for good. *)
RowOK(s) ==
    rows[s].status # "UNBOUND" =>
        /\ rows[s].art \in Artifact /\ rows[s].art.at = s
        /\ binder[rows[s].art.created].pc = "bound"
        /\ binder[rows[s].art.created].art = rows[s].art

GrantOK(a) ==
    /\ rows[a.at].status # "UNBOUND" /\ rows[a.at].art = a
    /\ a.at \in Scheduled

(* What a job with locals q, whose inputs had the values sn, has compared. *)
Compared(order, q, sn) == \A k \in 1..(q.next - 1) : q.art[order[k]] \in sn[order[k]]
JobOK(j, q, sn) ==
    /\ q.pc \in {"check", "time", "store", "run", "guard", "effect", "close"} => q.art \in Artifact
    /\ q.pc \in {"check", "time", "store", "run", "guard"} => \A i \in Inputs : world[i] \in sn[i]
    /\ q.pc = "check" => q.next \in 1..5 /\ Compared(CheckOrder, q, sn)
    /\ q.pc \in {"time", "store"} => \A i \in Inputs : q.art[i] \in sn[i]
    /\ q.pc = "store" /\ j \in Appliers => q.art.at \in Scheduled
    /\ q.pc = "guard" => q.next \in 1..4 /\ Compared(GuardOrder, q, sn)
    /\ q.pc = "effect" => \A k \in 1..3 : q.art[GuardOrder[k]] \in sn[GuardOrder[k]]

(* A row in use names the binder whose capture it holds, a granted         *)
(* artifact names the row it was reserved in, and a job knows how far its  *)
(* comparisons have come: a comparison that is over is a fact about the    *)
(* values since it began, not about the values now.                        *)
BindingInv ==
    /\ BindingTypes
    /\ \A b \in Binders : BinderOK(b, binder[b])
    /\ \A s \in Instants : RowOK(s)
    /\ \A a \in granted : GrantOK(a)
    /\ \A j \in Jobs : JobOK(j, job[j], since[j])

USE DEF Jobs, Inputs, Values, RowStatus, MaybeArtifact, BinderRecords, JobRecords,
        OccurrenceRows

(* The latest instant the schedule names at or before a time is one of     *)
(* the schedule's.                                                         *)
LEMMA LatestIsScheduled ==
    ASSUME BindingAssumption, NEW t \in Nat, ScheduledAtOrBefore(t) # 0
    PROVE  ScheduledAtOrBefore(t) \in Scheduled
<1> DEFINE due == {s \in Scheduled : s <= t}
           gaps == {t - s : s \in due}
<1>1. due # {} /\ due \subseteq Nat
  BY DEF ScheduledAtOrBefore, BindingAssumption
<1>2. gaps \subseteq Nat /\ gaps # {}
  BY <1>1
<1>3. PICK g \in gaps : \A h \in gaps : g <= h
  <2> HIDE DEF gaps
  <2> DEFINE R == OpToRel(<, Nat)
  <2>1. \A m, n \in Nat : m < n => <<m, n>> \in R
    BY DEF OpToRel
  <2>2. IsWellFoundedOn(R, Nat)
    BY NatLessThanWellFounded
  <2> HIDE DEF R
  <2>3. PICK g \in gaps : \A h \in gaps : ~ (<<h, g>> \in R)
    BY <1>2, <2>2, WFMin
  <2>4. \A h \in gaps : h \in Nat /\ g \in Nat /\ ~ (h < g)
    BY <1>2, <2>1, <2>3
  <2>5. \A h \in gaps : g <= h
    BY <2>4
  <2> QED
    BY <2>5
<1>4. PICK s \in due : g = t - s
  BY <1>3
<1>5. \A u \in due : u <= s
  <2> TAKE u \in due
  <2>1. t - s <= t - u
    BY <1>3, <1>4
  <2> QED
    BY <2>1, <1>1
<1>6. (CHOOSE s0 \in due : \A u \in due : u <= s0) \in due
  BY <1>5
<1> QED
  BY <1>1, <1>6 DEF ScheduledAtOrBefore

(* Time passes: every window is compared with the clock when it is used.   *)
LEMMA ClockTicksKeeps ==
    ASSUME BindingAssumption, BindingInv, ClockTicks
    PROVE  BindingInv'
<1>1. BindingTypes'
  BY DEF BindingInv, BindingTypes, RowOK, JobOK, BinderOK, ClockTicks, BindingAssumption
<1>2. \A c \in Binders : BinderOK(c, binder'[c])
  BY DEF BindingInv, ClockTicks
<1>3. \A s \in Instants : RowOK(s)'
  BY DEF BindingInv, RowOK, ClockTicks
<1>4. \A a \in granted' : GrantOK(a)'
  BY DEF BindingInv, GrantOK, ClockTicks
<1>5. \A m \in Jobs : JobOK(m, job[m], since[m])'
  BY DEF BindingInv, BindingTypes, JobOK, Compared, ClockTicks, BindingAssumption
<1> QED
  BY <1>1, <1>2, <1>3, <1>4, <1>5 DEF BindingInv

(* A bind begins: what it will capture is in the scope of an enabled       *)
(* registration.                                                           *)
LEMMA BindStartKeeps ==
    ASSUME BindingAssumption, BindingInv, NEW b \in Binders, BindStart(b)
    PROVE  BindingInv'
<1>s. PICK n \in Names, s \in Instants, p \in Plans :
           LET a == [created |-> b, at |-> s, plan |-> p, reg |-> world["reg"],
                     config |-> 0, zone |-> 0, roots |-> 0, runtime |-> 0]
           IN binder' = [binder EXCEPT ![b] =
                IF Enabled(a.reg) /\ PlanInScope(p, a.reg)
                THEN [pc |-> "capture", name |-> n, art |-> a, next |-> 1]
                ELSE [@ EXCEPT !.pc = "refused"]]
  BY DEF BindStart
<1> DEFINE a == [created |-> b, at |-> s, plan |-> p, reg |-> world["reg"],
                 config |-> 0, zone |-> 0, roots |-> 0, runtime |-> 0]
<1>a. a \in Artifact /\ a.created = b /\ a.plan = p
  BY DEF BindingInv, BindingTypes, Artifact
<1>b. binder' = [binder EXCEPT ![b] =
           IF Enabled(a.reg) /\ PlanInScope(p, a.reg)
           THEN [pc |-> "capture", name |-> n, art |-> a, next |-> 1]
           ELSE [@ EXCEPT !.pc = "refused"]]
  BY <1>s
<1> HIDE DEF a
<1>1. BindingTypes'
  <2>1. binder' \in [Binders -> BinderRecords]
    <3>1. \/ binder' = [binder EXCEPT ![b] = [pc |-> "capture", name |-> n, art |-> a, next |-> 1]]
          \/ binder' = [binder EXCEPT ![b].pc = "refused"]
      BY <1>b
    <3>2. binder \in [Binders -> BinderRecords]
      BY DEF BindingInv, BindingTypes
    <3> QED
      BY <1>a, <3>1, <3>2
  <2> QED
    BY <2>1 DEF BindingInv, BindingTypes, BindStart
<1>2. \A c \in Binders : BinderOK(c, binder'[c])
  BY <1>a, <1>b DEF BindingInv, BindingTypes, BinderOK
<1>3. \A t \in Instants : RowOK(t)'
  BY DEF BindingInv, BindingTypes, RowOK, BinderOK, JobOK, BindStart
<1>4. \A g \in granted' : GrantOK(g)'
  BY DEF BindingInv, BindingTypes, GrantOK, RowOK, BinderOK, JobOK, BindStart
<1>5. \A m \in Jobs : JobOK(m, job[m], since[m])'
  BY DEF BindingInv, BindingTypes, JobOK, Compared, BindStart
<1> QED
  BY <1>1, <1>2, <1>3, <1>4, <1>5 DEF BindingInv

(* A bind captures one input: neither scope nor instant changes.           *)
LEMMA BindCaptureKeeps ==
    ASSUME BindingAssumption, BindingInv, NEW b \in Binders, BindCapture(b)
    PROVE  BindingInv'
<1> DEFINE i == CaptureOrder[binder[b].next]
           a == [binder[b].art EXCEPT ![i] = world[i]]
<1>a. a \in Artifact /\ a.created = b /\ a.reg = binder[b].art.reg /\ a.plan = binder[b].art.plan
  <2>1. binder[b].art \in Artifact /\ binder[b].art.created = b /\ binder[b].next \in 1..4
    BY DEF BindingInv, BinderOK, BindCapture
  <2>2. i \in {"config", "zone", "roots", "runtime"}
    BY <2>1 DEF CaptureOrder
  <2>3. world[i] \in {0, 1}
    BY <2>2 DEF BindingInv, BindingTypes
  <2> HIDE DEF i
  <2> QED
    BY <2>1, <2>2, <2>3 DEF Artifact
<1>b. binder' = [binder EXCEPT ![b].art = a, ![b].next = @ + 1,
                   ![b].pc = IF binder[b].next = 4 THEN "publish" ELSE @]
  BY DEF BindCapture, CaptureOrder, BindingInv, BindingTypes
<1> HIDE DEF a
<1>1. BindingTypes'
  BY SMTT(60), <1>a, <1>b DEF BindingInv, BindingTypes, BindCapture
<1>2. \A c \in Binders : BinderOK(c, binder'[c])
  <2>1. \A c \in Binders : c # b => binder'[c] = binder[c]
    BY <1>b DEF BindingInv, BindingTypes
  <2>2. binder[b].next \in 1..4 /\ Enabled(binder[b].art.reg)
        /\ PlanInScope(binder[b].art.plan, binder[b].art.reg)
    BY DEF BindingInv, BinderOK, BindCapture
  <2>3. /\ binder'[b].art = a /\ binder'[b].next = binder[b].next + 1
        /\ binder'[b].pc = IF binder[b].next = 4 THEN "publish" ELSE "capture"
    BY <1>b DEF BindingInv, BindingTypes, BindCapture
  <2>4. BinderOK(b, binder'[b])
    BY <2>2, <2>3, <1>a DEF BinderOK
  <2> QED
    BY <2>1, <2>4 DEF BindingInv
<1>3. \A s \in Instants : RowOK(s)'
  <2>1. rows' = rows /\ \A c \in Binders : binder[c].pc = "bound" => binder'[c] = binder[c]
    BY <1>b DEF BindingInv, BindingTypes, BindCapture
  <2> QED
    BY <2>1 DEF BindingInv, RowOK, Artifact
<1>4. \A c \in granted' : GrantOK(c)'
  BY DEF BindingInv, GrantOK, BindCapture
<1>5. \A m \in Jobs : JobOK(m, job[m], since[m])'
  BY DEF BindingInv, BindingTypes, JobOK, Compared, BindCapture, CaptureOrder
<1> QED
  BY <1>1, <1>2, <1>3, <1>4, <1>5 DEF BindingInv

(* A bind publishes its file; rows and bound binders are untouched.        *)
LEMMA BindPublishKeeps ==
    ASSUME BindingAssumption, BindingInv, NEW b \in Binders, BindPublish(b)
    PROVE  BindingInv'
<1>1. BindingTypes'
  <2>1. /\ binder[b] \in BinderRecords /\ binder[b].art \in Artifact
        /\ files' \in [Names -> MaybeArtifact \cup {Torn}]
    BY DEF BindingInv, BindingTypes, BinderOK, BindPublish
  <2>2. binder' \in [Binders -> BinderRecords]
    <3>1. \E p \in {"register", "refused"} : binder' = [binder EXCEPT ![b].pc = p]
      BY DEF BindPublish
    <3> QED
      BY SMTT(30), <3>1 DEF BindingInv, BindingTypes
  <2> QED
    BY <2>1, <2>2 DEF BindingInv, BindingTypes, BindPublish
<1>2. \A c \in Binders : BinderOK(c, binder'[c])
  BY SMTT(30) DEF BindingInv, BindingTypes, BinderOK, BindPublish
<1>3. \A s \in Instants : RowOK(s)'
  <2>1. rows' = rows /\ \A c \in Binders : binder[c].pc = "bound" => binder'[c] = binder[c]
    BY DEF BindingInv, BindingTypes, BindPublish
  <2> QED
    BY <2>1 DEF BindingInv, RowOK, Artifact
<1>4. \A a \in granted' : GrantOK(a)'
  BY DEF BindingInv, GrantOK, BindPublish
<1>5. \A m \in Jobs : JobOK(m, job[m], since[m])'
  BY DEF BindingInv, BindingTypes, JobOK, Compared, BindPublish
<1> QED
  BY <1>1, <1>2, <1>3, <1>4, <1>5 DEF BindingInv

(* A bind registers: an occupied row is of another binder and stays as it  *)
(* is.                                                                     *)
LEMMA BindRegisterKeeps ==
    ASSUME BindingAssumption, BindingInv, NEW b \in Binders, BindRegister(b)
    PROVE  BindingInv'
<1>1. BindingTypes'
  <2>1. binder[b].art \in Artifact /\ binder[b].art.at \in Instants
    BY DEF BindingInv, BinderOK, BindRegister, Artifact
  <2>2. rows' \in [Instants -> OccurrenceRows]
    <3>1. rows \in [Instants -> OccurrenceRows]
      BY DEF BindingInv, BindingTypes
    <3> QED
      BY <2>1, <3>1 DEF BindRegister, RegisterArtifact
  <2>3. \E p \in {"bound", "refused"} : binder' = [binder EXCEPT ![b].pc = p]
    BY DEF BindRegister
  <2>4. binder' \in [Binders -> BinderRecords]
    BY SMTT(30), <2>3 DEF BindingInv, BindingTypes
  <2> QED
    BY <2>2, <2>4 DEF BindingInv, BindingTypes, BindRegister
<1>2. \A c \in Binders : BinderOK(c, binder'[c])
  <2>1. \A c \in Binders : binder'[c].art = binder[c].art /\ (c # b => binder'[c] = binder[c])
    BY DEF BindingInv, BindingTypes, BindRegister
  <2>2. binder'[b].pc \in {"bound", "refused"}
    BY DEF BindingInv, BindingTypes, BindRegister
  <2>3. BinderOK(b, binder'[b])
    BY <2>1, <2>2 DEF BindingInv, BinderOK, BindRegister
  <2> QED
    BY <2>1, <2>3 DEF BindingInv
<1>3. \A s \in Instants : RowOK(s)'
  <2> DEFINE a == binder[b].art
  <2>1. a \in Artifact /\ a.created = b /\ a.at \in Instants /\ binder[b].pc = "register"
    BY DEF BindingInv, BinderOK, BindRegister, Artifact
  <2>2. \A c \in Binders : binder'[c].art = binder[c].art /\ (c # b => binder'[c] = binder[c])
    BY DEF BindingInv, BindingTypes, BindRegister
  <2>3. \A s \in Instants : rows[s].status # "UNBOUND" => rows[s].art.created \in Binders \ {b}
    BY <2>1 DEF BindingInv, RowOK, Artifact
  <2>4. CASE rows' = rows
    BY <2>2, <2>3, <2>4 DEF BindingInv, RowOK
  <2>5. CASE RegisterArtifact(a.at, a) /\ binder' = [binder EXCEPT ![b].pc = "bound"]
    <3>1. binder'[b].pc = "bound" /\ binder'[b].art = a
      BY <2>5 DEF BindingInv, BindingTypes
    <3>2. /\ rows'[a.at].art = a
          /\ \A s \in Instants : s # a.at => rows'[s] = rows[s]
      BY <2>1, <2>5 DEF RegisterArtifact, BindingInv, BindingTypes
    <3> HIDE DEF a
    <3> QED
      BY <3>1, <3>2, <2>1, <2>2, <2>3 DEF BindingInv, RowOK
  <2> QED
    BY <2>4, <2>5 DEF BindRegister
<1>4. \A a \in granted' : GrantOK(a)'
  <2>1. \A s \in Instants : rows[s].status # "UNBOUND" => rows'[s] = rows[s]
    <3>1. binder[b].art.at \in Instants /\ rows \in [Instants -> OccurrenceRows]
      BY DEF BindingInv, BindingTypes, BinderOK, BindRegister, Artifact
    <3> QED
      BY <3>1 DEF BindRegister, RegisterArtifact
  <2>2. \A a \in granted : a.at \in Instants
    BY DEF BindingInv, BindingTypes, Artifact
  <2> QED
    BY <2>1, <2>2 DEF BindingInv, GrantOK, BindRegister
<1>5. \A m \in Jobs : JobOK(m, job[m], since[m])'
  BY DEF BindingInv, BindingTypes, JobOK, Compared, BindRegister, RegisterArtifact
<1> QED
  BY <1>1, <1>2, <1>3, <1>4, <1>5 DEF BindingInv

(* A bind is killed; one that had registered is past this.                 *)
LEMMA BindKilledKeeps ==
    ASSUME BindingAssumption, BindingInv, NEW b \in Binders, BindKilled(b)
    PROVE  BindingInv'
<1>1. BindingTypes'
  BY DEF BindingInv, BindingTypes, RowOK, JobOK, BinderOK, BindKilled
<1>2. \A c \in Binders : BinderOK(c, binder'[c])
  BY DEF BindingInv, BindingTypes, BinderOK, BindKilled
<1>3. \A s \in Instants : RowOK(s)'
  BY DEF BindingInv, BindingTypes, RowOK, BinderOK, JobOK, BindKilled
<1>4. \A a \in granted' : GrantOK(a)'
  BY DEF BindingInv, GrantOK, BindKilled
<1>5. \A m \in Jobs : JobOK(m, job[m], since[m])'
  BY DEF BindingInv, BindingTypes, JobOK, Compared, BindKilled
<1> QED
  BY <1>1, <1>2, <1>3, <1>4, <1>5 DEF BindingInv

(* People edit an input: every job in its checks has seen the new value.   *)
LEMMA EditInputKeeps ==
    ASSUME BindingAssumption, BindingInv, NEW i \in Inputs, EditInput(i)
    PROVE  BindingInv'
<1>1. BindingTypes'
  BY DEF BindingInv, BindingTypes, RowOK, JobOK, BinderOK, EditInput
<1>2. \A c \in Binders : BinderOK(c, binder'[c])
  BY DEF BindingInv, EditInput
<1>3. \A s \in Instants : RowOK(s)'
  BY DEF BindingInv, RowOK, EditInput
<1>4. \A a \in granted' : GrantOK(a)'
  BY DEF BindingInv, GrantOK, EditInput
<1>5. \A m \in Jobs : JobOK(m, job[m], since[m])'
  BY SMTT(30) DEF BindingInv, BindingTypes, JobOK, Compared, EditInput
<1> QED
  BY <1>1, <1>2, <1>3, <1>4, <1>5 DEF BindingInv

(* A file is replaced: rows and jobs hold their own copies.                *)
LEMMA ReplaceFileKeeps ==
    ASSUME BindingAssumption, BindingInv, NEW n \in Names, ReplaceFile(n)
    PROVE  BindingInv'
<1>1. BindingTypes'
  <2>1. PICK m \in Names, p \in Plans :
             /\ files[m] \notin {NoArtifact, Torn}
             /\ files' = [files EXCEPT ![n] = [files[m] EXCEPT !.plan = p]]
    BY DEF ReplaceFile
  <2>2. files[m] \in Artifact
    BY <2>1 DEF BindingInv, BindingTypes
  <2>3. [files[m] EXCEPT !.plan = p] \in Artifact
    BY <2>2 DEF Artifact
  <2> QED
    BY <2>1, <2>3 DEF BindingInv, BindingTypes, ReplaceFile
<1>2. \A c \in Binders : BinderOK(c, binder'[c])
  BY DEF BindingInv, ReplaceFile
<1>3. \A s \in Instants : RowOK(s)'
  BY DEF BindingInv, RowOK, ReplaceFile
<1>4. \A a \in granted' : GrantOK(a)'
  BY DEF BindingInv, GrantOK, ReplaceFile
<1>5. \A m \in Jobs : JobOK(m, job[m], since[m])'
  BY DEF BindingInv, BindingTypes, JobOK, Compared, ReplaceFile
<1> QED
  BY <1>1, <1>2, <1>3, <1>4, <1>5 DEF BindingInv

(* A review only adds to what was reviewed.                                *)
LEMMA InspectKeeps ==
    ASSUME BindingAssumption, BindingInv, NEW n \in Names, Inspect(n)
    PROVE  BindingInv'
<1>1. BindingTypes'
  BY DEF BindingInv, BindingTypes, RowOK, JobOK, BinderOK, Inspect
<1>2. \A c \in Binders : BinderOK(c, binder'[c])
  BY DEF BindingInv, BindingTypes, BinderOK, Inspect
<1>3. \A s \in Instants : RowOK(s)'
  BY DEF BindingInv, BindingTypes, RowOK, BinderOK, JobOK, Inspect
<1>4. \A a \in granted' : GrantOK(a)'
  BY DEF BindingInv, BindingTypes, GrantOK, RowOK, BinderOK, JobOK, Inspect
<1>5. \A m \in Jobs : JobOK(m, job[m], since[m])'
  BY DEF BindingInv, BindingTypes, JobOK, Compared, Inspect
<1> QED
  BY <1>1, <1>2, <1>3, <1>4, <1>5 DEF BindingInv

(* A job loads an artifact and starts to compare.                          *)
LEMMA LoadOccurrenceKeeps ==
    ASSUME BindingAssumption, BindingInv, NEW j \in Jobs, LoadOccurrence(j)
    PROVE  BindingInv'
<1>1. BindingTypes'
  BY DEF BindingInv, BindingTypes, RowOK, JobOK, BinderOK, LoadOccurrence, ExpectedFingerprint
<1>2. \A c \in Binders : BinderOK(c, binder'[c])
  BY DEF BindingInv, LoadOccurrence
<1>3. \A s \in Instants : RowOK(s)'
  BY DEF BindingInv, RowOK, LoadOccurrence
<1>4. \A a \in granted' : GrantOK(a)'
  BY DEF BindingInv, GrantOK, LoadOccurrence
<1>5. \A m \in Jobs : JobOK(m, job[m], since[m])'
  BY DEF BindingInv, BindingTypes, JobOK, Compared, LoadOccurrence, ExpectedFingerprint
<1> QED
  BY <1>1, <1>2, <1>3, <1>4, <1>5 DEF BindingInv

(* A job compares one input; the ones before it matched.                   *)
LEMMA CheckInputKeeps ==
    ASSUME BindingAssumption, BindingInv, NEW j \in Jobs, CheckInput(j)
    PROVE  BindingInv'
<1>1. BindingTypes'
  <2>1. \/ Refuse(j)
        \/ \E p \in {"check", "time"} : job' = [job EXCEPT ![j].next = @ + 1, ![j].pc = p]
    BY DEF CheckInput, BindingInv, BindingTypes
  <2>2. job' \in [Jobs -> JobRecords]
    <3>1. job \in [Jobs -> JobRecords]
      BY DEF BindingInv, BindingTypes
    <3>2. CASE Refuse(j)
      BY <3>1, <3>2 DEF Refuse
    <3>3. CASE ~Refuse(j)
      BY <2>1, <3>1, <3>3
    <3> QED
      BY <3>2, <3>3
  <2> QED
    BY <2>2 DEF CheckInput, BindingInv, BindingTypes
<1>2. \A c \in Binders : BinderOK(c, binder'[c])
  BY DEF BindingInv, CheckInput
<1>3. \A s \in Instants : RowOK(s)'
  BY DEF BindingInv, RowOK, CheckInput
<1>4. \A a \in granted' : GrantOK(a)'
  BY DEF BindingInv, GrantOK, CheckInput
<1>5. \A m \in Jobs : JobOK(m, job[m], since[m])'
  BY SMTT(30) DEF BindingInv, BindingTypes, JobOK, Compared, CheckInput, Refuse, Matches, CheckOrder
<1> QED
  BY <1>1, <1>2, <1>3, <1>4, <1>5 DEF BindingInv

(* A job compares the window; an applier's instant is the latest scheduled *)
(* one.                                                                    *)
LEMMA CheckTimeKeeps ==
    ASSUME BindingAssumption, BindingInv, NEW j \in Jobs, CheckTime(j)
    PROVE  BindingInv'
<1>1. BindingTypes'
  BY SMTT(30) DEF BindingInv, BindingTypes, RowOK, JobOK, BinderOK, CheckTime, Refuse, InTime, NotBefore
<1>2. \A c \in Binders : BinderOK(c, binder'[c])
  BY DEF BindingInv, CheckTime
<1>3. \A s \in Instants : RowOK(s)'
  BY DEF BindingInv, RowOK, CheckTime
<1>4. \A a \in granted' : GrantOK(a)'
  BY DEF BindingInv, GrantOK, CheckTime
<1>5. \A m \in Jobs : JobOK(m, job[m], since[m])'
  <2>1. \A m \in Jobs : m # j => job'[m] = job[m]
    BY DEF CheckTime, Refuse, BindingInv, BindingTypes
  <2>2. CASE Refuse(j)
    BY <2>1, <2>2 DEF CheckTime, Refuse, BindingInv, BindingTypes, JobOK
  <2>3. CASE InTime(j, job[j].art) /\ job' = [job EXCEPT ![j].pc = "store"]
    <3>1. job[j].art \in Artifact /\ job[j].art.at \in Instants /\ clock \in Nat
      BY DEF CheckTime, BindingInv, BindingTypes, JobOK, Artifact
    <3>2. j \in Appliers => job[j].art.at \in Scheduled
      <4> SUFFICES ASSUME j \in Appliers PROVE job[j].art.at \in Scheduled
        OBVIOUS
      <4>1. ScheduledAtOrBefore(clock) = job[j].art.at
        BY <2>3 DEF InTime, BindingAssumption
      <4>2. job[j].art.at # 0
        BY <3>1 DEF BindingAssumption
      <4> QED
        BY <4>1, <4>2, <3>1, LatestIsScheduled
    <3>3. job'[j].pc = "store" /\ job'[j].art = job[j].art
      BY <2>3 DEF BindingInv, BindingTypes
    <3> QED
      BY <2>1, <3>2, <3>3 DEF CheckTime, BindingInv, JobOK
  <2> QED
    BY <2>2, <2>3 DEF CheckTime
<1> QED
  BY <1>1, <1>2, <1>3, <1>4, <1>5 DEF BindingInv

(* A job reserves the row that holds its artifact, or is refused.          *)
LEMMA ReserveKeeps ==
    ASSUME BindingAssumption, BindingInv, NEW j \in Jobs, Reserve(j)
    PROVE  BindingInv'
<1> DEFINE a == job[j].art
<1>a. a \in Artifact /\ a.at \in Instants /\ a.at \in Scheduled
  BY DEF Reserve, BindingInv, JobOK, Artifact
<1>b. \/ Refuse(j) /\ UNCHANGED <<rows, granted, since>>
      \/ /\ Registered(a) /\ rows[a.at].status \in {"BOUND", "RECOVERABLE"}
         /\ rows' = [rows EXCEPT ![a.at].status = "RUNNING",
                       ![a.at].holder = j, ![a.at].lease = clock + ReservationLease]
         /\ job' = [job EXCEPT ![j].pc = "run"]
         /\ granted' = granted \cup {a}
         /\ since' = [since EXCEPT ![j] = [i \in Inputs |-> {world[i]}]]
  BY DEF Reserve
<1>c. /\ UNCHANGED <<clock, world, files, binder, reviewed, spent>>
      /\ clock \in Nat /\ ReservationLease \in Nat /\ j \in Appliers
  BY DEF Reserve, BindingInv, BindingTypes, BindingAssumption
<1>d. /\ \A s \in Instants : s # a.at => rows'[s] = rows[s]
      /\ rows'[a.at].art = rows[a.at].art
      /\ \/ rows'[a.at] = rows[a.at] /\ granted' = granted
         \/ /\ rows[a.at].art = a /\ rows[a.at].status # "UNBOUND"
            /\ rows'[a.at].status = "RUNNING" /\ granted' = granted \cup {a}
  <2>1. rows \in [Instants -> OccurrenceRows]
    BY DEF BindingInv, BindingTypes
  <2> HIDE DEF a
  <2>2. CASE UNCHANGED <<rows, granted, since>>
    BY <2>2
  <2>3. CASE ~UNCHANGED <<rows, granted, since>>
    BY <1>a, <1>b, <2>1, <2>3 DEF Registered
  <2> QED
    BY <2>2, <2>3
<1>1. BindingTypes'
  <2>1. rows' \in [Instants -> OccurrenceRows]
    <3> DEFINE l == clock + ReservationLease
    <3>1. l \in Nat
      BY <1>c
    <3>2. \/ rows' = rows
          \/ rows' = [rows EXCEPT ![a.at].status = "RUNNING",
                       ![a.at].holder = j, ![a.at].lease = l]
      BY <1>b
    <3>3. a.at \in Instants /\ rows \in [Instants -> OccurrenceRows]
      BY <1>a DEF BindingInv, BindingTypes
    <3> HIDE DEF l, a
    <3> QED
      BY <1>c, <3>1, <3>2, <3>3
  <2>2. job' \in [Jobs -> JobRecords]
    <3>1. job \in [Jobs -> JobRecords]
      BY DEF BindingInv, BindingTypes
    <3>2. Refuse(j) \/ job' = [job EXCEPT ![j].pc = "run"]
      BY <1>b
    <3> QED
      BY <3>1, <3>2 DEF Refuse
  <2>3. DOMAIN since' = Jobs /\ \A m \in Jobs : DOMAIN since'[m] = Inputs
    BY <1>b DEF BindingInv, BindingTypes
  <2> QED
    BY <1>a, <1>b, <1>c, <2>1, <2>2, <2>3 DEF BindingInv, BindingTypes
<1>2. \A c \in Binders : BinderOK(c, binder'[c])
  BY DEF BindingInv, BindingTypes, BinderOK, Reserve, Refuse, Registered
<1>3. \A s \in Instants : RowOK(s)'
  <2> HIDE DEF a
  <2> QED
    BY <1>a, <1>c, <1>d DEF BindingInv, RowOK
<1>4. \A g \in granted' : GrantOK(g)'
  <2>1. \A c \in granted : c.at \in Instants
    BY DEF BindingInv, BindingTypes, Artifact
  <2> HIDE DEF a
  <2> QED
    BY <1>a, <1>c, <1>d, <2>1 DEF BindingInv, GrantOK
<1>5. \A m \in Jobs : JobOK(m, job[m], since[m])'
  <2>1. job \in [Jobs -> JobRecords] /\ DOMAIN since = Jobs
    BY DEF BindingInv, BindingTypes
  <2> HIDE DEF a
  <2>2. \A m \in Jobs : m # j => job'[m] = job[m] /\ since'[m] = since[m]
    BY <1>b, <2>1 DEF Refuse
  <2>3. CASE Refuse(j)
    <3>1. job'[j].pc \in {"idle", "refused"}
      BY <2>1, <2>3 DEF Refuse
    <3> QED
      BY <1>c, <2>2, <3>1 DEF BindingInv, JobOK, Compared
  <2>4. CASE ~Refuse(j)
    <3>1. /\ job'[j].pc = "run" /\ job'[j].art = job[j].art
          /\ since'[j] = [i \in Inputs |-> {world[i]}]
      <4>1. /\ job' = [job EXCEPT ![j].pc = "run"]
            /\ since' = [since EXCEPT ![j] = [i \in Inputs |-> {world[i]}]]
        BY <1>b, <2>4
      <4> QED
        BY <2>1, <4>1
    <3>2. job[j].art \in Artifact
      BY <1>a DEF a
    <3>3. JobOK(j, job[j], since[j])'
      BY <1>c, <3>1, <3>2 DEF JobOK, Compared
    <3> QED
      BY <1>c, <2>2, <3>3 DEF BindingInv, JobOK, Compared
  <2> QED
    BY <2>3, <2>4
<1> QED
  BY <1>1, <1>2, <1>3, <1>4, <1>5 DEF BindingInv

(* The run claims its action; nothing has been compared again yet.         *)
LEMMA ClaimActionKeeps ==
    ASSUME BindingAssumption, BindingInv, NEW j \in Jobs, ClaimAction(j)
    PROVE  BindingInv'
<1>1. BindingTypes'
  <2>1. job \in [Jobs -> JobRecords]
    BY DEF BindingInv, BindingTypes
  <2>2. job' = [job EXCEPT ![j].pc = "guard", ![j].next = 1]
    BY DEF ClaimAction
  <2>3. [job[j] EXCEPT !.pc = "guard", !.next = 1] \in JobRecords
    BY <2>1 DEF JobRecords
  <2>4. job' = [job EXCEPT ![j] = [job[j] EXCEPT !.pc = "guard", !.next = 1]]
    BY <2>1, <2>2
  <2>5. job' \in [Jobs -> JobRecords]
    BY <2>1, <2>3, <2>4
  <2>6. UNCHANGED <<clock, world, files, rows, binder, reviewed, since, granted>>
    BY DEF ClaimAction
  <2> QED
    BY <2>5, <2>6 DEF BindingInv, BindingTypes
<1>2. \A c \in Binders : BinderOK(c, binder'[c])
  BY DEF BindingInv, ClaimAction
<1>3. \A s \in Instants : RowOK(s)'
  BY DEF BindingInv, RowOK, ClaimAction
<1>4. \A a \in granted' : GrantOK(a)'
  BY DEF BindingInv, GrantOK, ClaimAction
<1>5. \A m \in Jobs : JobOK(m, job[m], since[m])'
  BY DEF BindingInv, BindingTypes, JobOK, Compared, ClaimAction
<1> QED
  BY <1>1, <1>2, <1>3, <1>4, <1>5 DEF BindingInv

(* The guard compares one input, or the deadline and the fence.            *)
LEMMA GuardKeeps ==
    ASSUME BindingAssumption, BindingInv, NEW j \in Jobs, Guard(j)
    PROVE  BindingInv'
<1>1. BindingTypes'
  BY SMTT(30) DEF BindingInv, BindingTypes, RowOK, JobOK, BinderOK, Guard, Matches, GuardOrder
<1>2. \A c \in Binders : BinderOK(c, binder'[c])
  BY DEF BindingInv, Guard
<1>3. \A s \in Instants : RowOK(s)'
  BY DEF BindingInv, RowOK, Guard
<1>4. \A a \in granted' : GrantOK(a)'
  BY DEF BindingInv, GrantOK, Guard
<1>5. \A m \in Jobs : JobOK(m, job[m], since[m])'
  <2> DEFINE q == job[j]
  <2>1. \A m \in Jobs : m # j => job'[m] = job[m]
    BY DEF Guard, BindingInv, BindingTypes
  <2>2. /\ q.art \in Artifact /\ q.next \in 1..4
        /\ \A i \in Inputs : world[i] \in since[j][i]
        /\ Compared(GuardOrder, q, since[j])
    BY DEF Guard, BindingInv, JobOK
  <2>3. job'[j].art = q.art
    BY DEF Guard, BindingInv, BindingTypes
  <2>4. \/ job'[j].pc = "close"
        \/ /\ job'[j].pc = "guard" /\ q.next \in 1..3 /\ job'[j].next = q.next + 1
           /\ Matches(GuardOrder[q.next], q.art)
        \/ job'[j].pc = "effect" /\ q.next = 4
    BY <2>2 DEF Guard, BindingInv, BindingTypes, GuardOrder
  <2>5. \A m \in Jobs : m # j => JobOK(m, job[m], since[m])'
    BY <2>1 DEF Guard, BindingInv, JobOK
  <2>6. CASE job'[j].pc = "close"
    BY <2>2, <2>3, <2>5, <2>6 DEF Guard, JobOK
  <2>7. CASE /\ job'[j].pc = "guard" /\ q.next \in 1..3 /\ job'[j].next = q.next + 1
             /\ Matches(GuardOrder[q.next], q.art)
    <3>1. GuardOrder[q.next] \in Inputs
      BY <2>7 DEF GuardOrder
    <3>2. q.art[GuardOrder[q.next]] \in since[j][GuardOrder[q.next]]
      BY <2>2, <2>7, <3>1 DEF Matches
    <3>3. Compared(GuardOrder, job'[j], since[j])
      BY <2>2, <2>3, <2>7, <3>2 DEF Compared
    <3> QED
      BY <2>2, <2>3, <2>5, <2>7, <3>3 DEF Guard, JobOK
  <2>8. CASE job'[j].pc = "effect" /\ q.next = 4
    BY SMTT(60), <2>2, <2>3, <2>5, <2>8 DEF Guard, JobOK, Compared
  <2> QED
    BY <2>4, <2>5, <2>6, <2>7, <2>8
<1> QED
  BY <1>1, <1>2, <1>3, <1>4, <1>5 DEF BindingInv

(* An attempt ends; its row keeps its artifact.                            *)
LEMMA CloseKeeps ==
    ASSUME BindingAssumption, BindingInv, NEW j \in Jobs, Close(j)
    PROVE  BindingInv'
<1> DEFINE a == job[j].art
<1>a. a \in Artifact /\ a.at \in Instants
  BY DEF Close, BindingInv, JobOK, Artifact
<1>b. /\ \/ rows' = rows
         \/ \E st \in {"SUCCEEDED", "FAILED_PRE_EFFECT", "INDETERMINATE"} :
              /\ rows[a.at].status = "RUNNING"
              /\ rows' = [rows EXCEPT ![a.at].holder = None, ![a.at].lease = 0,
                                     ![a.at].status = st]
      /\ job' = [job EXCEPT ![j].pc = "done"]
  <2>1. Certified(j) \subseteq {"SUCCEEDED", "FAILED_PRE_EFFECT", "INDETERMINATE"}
    BY DEF Certified, Close
  <2> QED
    BY <2>1 DEF Close
<1>c. UNCHANGED <<clock, world, files, binder, reviewed, since, granted, spent>>
  BY DEF Close
<1>d. /\ \A s \in Instants : s # a.at => rows'[s] = rows[s]
      /\ rows'[a.at].art = rows[a.at].art
      /\ \/ rows'[a.at] = rows[a.at]
         \/ rows[a.at].status = "RUNNING" /\ rows'[a.at].status # "UNBOUND"
  <2>1. rows \in [Instants -> OccurrenceRows]
    BY DEF BindingInv, BindingTypes
  <2> HIDE DEF a
  <2> QED
    BY <1>a, <1>b, <2>1
<1> HIDE DEF a
<1>1. BindingTypes'
  <2>1. rows' \in [Instants -> OccurrenceRows]
    BY SMTT(30), <1>a, <1>b DEF BindingInv, BindingTypes
  <2>2. job' \in [Jobs -> JobRecords]
    BY SMTT(30), <1>b DEF BindingInv, BindingTypes
  <2> QED
    BY <1>c, <2>1, <2>2 DEF BindingInv, BindingTypes
<1>2. \A c \in Binders : BinderOK(c, binder'[c])
  BY DEF BindingInv, BindingTypes, BinderOK, Close
<1>3. \A s \in Instants : RowOK(s)'
  BY <1>a, <1>c, <1>d DEF BindingInv, RowOK
<1>4. \A g \in granted' : GrantOK(g)'
  <2>1. \A c \in granted : c.at \in Instants
    BY DEF BindingInv, BindingTypes, Artifact
  <2> QED
    BY <1>a, <1>c, <1>d, <2>1 DEF BindingInv, GrantOK
<1>5. \A m \in Jobs : JobOK(m, job[m], since[m])'
  BY ZenonT(120) DEF BindingInv, BindingTypes, JobOK, Compared, Close
<1> QED
  BY <1>1, <1>2, <1>3, <1>4, <1>5 DEF BindingInv

(* An attempt is killed.                                                   *)
LEMMA ApplyKilledKeeps ==
    ASSUME BindingAssumption, BindingInv, NEW j \in Jobs, ApplyKilled(j)
    PROVE  BindingInv'
<1>1. BindingTypes'
  BY DEF BindingInv, BindingTypes, RowOK, JobOK, BinderOK, ApplyKilled
<1>2. \A c \in Binders : BinderOK(c, binder'[c])
  BY DEF BindingInv, ApplyKilled
<1>3. \A s \in Instants : RowOK(s)'
  BY DEF BindingInv, RowOK, ApplyKilled
<1>4. \A a \in granted' : GrantOK(a)'
  BY DEF BindingInv, GrantOK, ApplyKilled
<1>5. \A m \in Jobs : JobOK(m, job[m], since[m])'
  BY DEF BindingInv, BindingTypes, JobOK, Compared, ApplyKilled
<1> QED
  BY <1>1, <1>2, <1>3, <1>4, <1>5 DEF BindingInv

(* A dead attempt is reconciled; its row keeps its artifact.               *)
LEMMA ReconcileKeeps ==
    ASSUME BindingAssumption, BindingInv, NEW j \in Jobs, Reconcile(j)
    PROVE  BindingInv'
<1> DEFINE a == job[j].art
<1>a. a \in Artifact /\ a.at \in Instants
  BY DEF Reconcile, BindingInv, JobOK, Artifact
<1>b. \/ rows' = rows
      \/ \E st \in {"INDETERMINATE", "RECOVERABLE"} :
           /\ rows[a.at].status = "RUNNING"
           /\ rows' = [rows EXCEPT ![a.at].holder = None, ![a.at].lease = 0,
                                  ![a.at].status = st]
  <2>1. \A m : LedgerSays(m) \subseteq {"INDETERMINATE", "RECOVERABLE"}
    BY DEF LedgerSays
  <2> QED
    BY <2>1 DEF Reconcile
<1>c. Refuse(j) /\ UNCHANGED <<clock, world, files, binder, reviewed, since, granted, spent>>
  BY DEF Reconcile
<1>d. /\ \A s \in Instants : s # a.at => rows'[s] = rows[s]
      /\ rows'[a.at].art = rows[a.at].art
      /\ \/ rows'[a.at] = rows[a.at]
         \/ rows[a.at].status = "RUNNING" /\ rows'[a.at].status # "UNBOUND"
  <2>1. rows \in [Instants -> OccurrenceRows]
    BY DEF BindingInv, BindingTypes
  <2> HIDE DEF a
  <2> QED
    BY <1>a, <1>b, <2>1
<1> HIDE DEF a
<1>1. BindingTypes'
  <2>1. rows' \in [Instants -> OccurrenceRows]
    BY <1>a, <1>b DEF BindingInv, BindingTypes
  <2>2. job' \in [Jobs -> JobRecords]
    <3>1. job \in [Jobs -> JobRecords]
      BY DEF BindingInv, BindingTypes
    <3> QED
      BY <1>c, <3>1 DEF Refuse
  <2> QED
    BY <1>c, <2>1, <2>2 DEF BindingInv, BindingTypes
<1>2. \A c \in Binders : BinderOK(c, binder'[c])
  BY <1>c DEF BindingInv
<1>3. \A s \in Instants : RowOK(s)'
  BY <1>a, <1>c, <1>d DEF BindingInv, RowOK
<1>4. \A g \in granted' : GrantOK(g)'
  <2>1. \A c \in granted : c.at \in Instants
    BY DEF BindingInv, BindingTypes, Artifact
  <2> QED
    BY <1>a, <1>c, <1>d, <2>1 DEF BindingInv, GrantOK
<1>5. \A m \in Jobs : JobOK(m, job[m], since[m])'
  BY ZenonT(60) DEF BindingInv, BindingTypes, JobOK, Compared, Reconcile, Refuse, Registered
<1> QED
  BY <1>1, <1>2, <1>3, <1>4, <1>5 DEF BindingInv

(* Nothing is bound, granted or running at first. *)
LEMMA BindingInitHolds == BindingAssumption /\ BindingInit => BindingInv
<1> SUFFICES ASSUME BindingAssumption, BindingInit PROVE BindingInv
  OBVIOUS
<1>1. BindingTypes
  BY DEF BindingInit, BindingTypes, BindingAssumption
<1>2. /\ \A b \in Binders : BinderOK(b, binder[b])
      /\ \A s \in Instants : RowOK(s)
      /\ \A a \in granted : GrantOK(a)
  BY DEF BindingInit, BinderOK, RowOK
<1>3. \A j \in Jobs : JobOK(j, job[j], since[j])
  BY DEF BindingInit, JobOK
<1> QED
  BY <1>1, <1>2, <1>3 DEF BindingInv

(* Every step of the binders, the people and the jobs. *)
LEMMA BindingStepKeeps ==
    ASSUME BindingAssumption, BindingInv, [BindingNext]_bindingVars
    PROVE  BindingInv'
<1>1. CASE UNCHANGED bindingVars
  BY <1>1 DEF BindingInv, BindingTypes, BinderOK, RowOK, GrantOK, JobOK, bindingVars
<1>2. CASE ClockTicks
  BY <1>2, ClockTicksKeeps
<1>3. ASSUME NEW b \in Binders, BindStep(b) \/ BindKilled(b) PROVE BindingInv'
  BY <1>3, BindStartKeeps, BindCaptureKeeps, BindPublishKeeps, BindRegisterKeeps,
     BindKilledKeeps DEF BindStep
<1>4. ASSUME NEW i \in Edited, EditInput(i) PROVE BindingInv'
  <2>1. i \in Inputs
    BY DEF BindingAssumption
  <2> QED
    BY <1>4, <2>1, EditInputKeeps
<1>5. ASSUME NEW n \in Names, ReplaceFile(n) \/ Inspect(n) PROVE BindingInv'
  BY <1>5, ReplaceFileKeeps, InspectKeeps
<1>6. ASSUME NEW j \in Jobs, JobStep(j) \/ ApplyKilled(j) PROVE BindingInv'
  BY <1>6, LoadOccurrenceKeeps, CheckInputKeeps, CheckTimeKeeps, ReserveKeeps,
     ClaimActionKeeps, GuardKeeps, CloseKeeps, ReconcileKeeps, ApplyKilledKeeps DEF JobStep
<1> QED
  BY <1>1, <1>2, <1>3, <1>4, <1>5, <1>6 DEF BindingNext

(* The invariant says of the rows what the property says of the granted.   *)
LEMMA BindingInvIsEnough == BindingInv => GrantsAreCurrent
<1> SUFFICES ASSUME BindingInv PROVE GrantsAreCurrent
  OBVIOUS
<1>1. \A a \in granted : a \in Artifact /\ a.at \in Instants /\ a.created \in Binders
  BY DEF BindingInv, BindingTypes, Artifact
<1>2. BindingTypeOK
  <2>1. \A s \in Instants : rows[s] \in OccurrenceRows
    BY DEF BindingInv, BindingTypes
  <2> QED
    BY <2>1 DEF BindingTypeOK, BindingInv, BindingTypes
<1>3. KeysAreOwn
  BY DEF KeysAreOwn, ExecutionKey, BindingInv, GrantOK
<1>4. GrantedIsBound
  BY <1>1 DEF GrantedIsBound, BindingInv, GrantOK, RowOK, BinderOK
<1>5. GrantedIsScheduled
  BY DEF GrantedIsScheduled, BindingInv, GrantOK
<1>6. CheckedIsCurrent
  BY DEF CheckedIsCurrent, BindingInv, JobOK
<1>7. EffectIsCurrent
  BY DEF EffectIsCurrent, BindingInv, JobOK, GuardOrder
<1> QED
  BY <1>2, <1>3, <1>4, <1>5, <1>6, <1>7 DEF GrantsAreCurrent

(* For any binders, appliers, reconcilers, files, plans, schedule,         *)
(* windows, edits and kills, and with or without an expected fingerprint:  *)
(* what runs was bound by recurring-bind inside the scope of an enabled    *)
(* registration, is on the schedule, had its bound inputs while they were  *)
(* checked (authenticate_occurrence) and again since the reservation       *)
(* (pre_effect_guard), and has an execution key that no other occurrence   *)
(* shares.                                                                 *)
THEOREM GrantsStayCurrent ==
    ASSUME BindingAssumption
    PROVE  BindingSpec => []GrantsAreCurrent
<1>1. BindingInit => BindingInv
  BY BindingInitHolds
<1>2. BindingInv /\ [BindingNext]_bindingVars => BindingInv'
  BY BindingStepKeeps
<1> QED
  BY <1>1, <1>2, BindingInvIsEnough, PTL DEF BindingSpec
=============================================================================
