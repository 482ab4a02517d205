---------------------------- MODULE LegacyRunner ----------------------------
(***************************************************************************)
(* The registered-workflow runner of recurring.py: RecurringRunner.run     *)
(* over the recurring_runs table of RecurringStateStore, with the          *)
(* heartbeat thread that renews the lease and the O_EXCL lock file around  *)
(* the callback.                                                           *)
(*                                                                         *)
(* One workflow is modelled; its scheduled occurrences are 1..Occurrences. *)
(* Time is relative: a lease is the number of ticks left before            *)
(* lease_expires_at, so no clock has to be bounded.  uuid4 claim tokens    *)
(* are the pair of occurrence and attempt number, both unique in the       *)
(* table.  Every BEGIN IMMEDIATE transaction is one atomic action.         *)
(***************************************************************************)
EXTENDS Integers, FiniteSets

CONSTANTS Procs,        \* processes that call RecurringRunner
          Occurrences,  \* bound on the scheduled instants that come due
          Lease,        \* lease_duration, in ticks
          MaxLateness,  \* schedule.max_lateness_minutes, in ticks
          MaxAttempts   \* bound on attempt_count: how often operators recover

\* What the constants are.
LegacyAssumption ==
    /\ "no process" \notin Procs /\ "killed process" \notin Procs
    /\ Occurrences \in Nat \ {0}
    /\ Lease \in Nat \ {0}
    /\ MaxLateness \in Nat
    /\ MaxAttempts \in Nat \ {0}

VARIABLES
    slot,   \* the most recent scheduled instant, scheduled_at_or_before(now)
    late,   \* ticks since it, up to MaxLateness + 1
    row,    \* the recurring_runs table, one row per occurrence
    lock,   \* creator of <lock_dir>/<name>.lock, Stale once it is gone, or NoProc
    proc,   \* the run of each process
    ran     \* observer: attempts whose callback returned a success

vars == <<slot, late, row, lock, proc, ran>>

Occs == 1..Occurrences
NoProc == "no process"
Stale == "killed process"
NoRow == [status |-> "none", lease |-> 0, token |-> 0, attempts |-> 0]

\* The statuses of ClaimStatus, and "none" for an absent row.
ClaimStatus == {"none", "running", "succeeded", "failed", "expired", "recoverable"}

\* A run: its program counter, the occurrence and window it read, its claim
\* token (the attempt number), its heartbeat and its callback's outcome.
Idle == [pc |-> "idle", occ |-> 1, timely |-> FALSE, force |-> FALSE,
         window |-> 0, token |-> 0, beat |-> "off", outcome |-> "none"]

LegacyInit ==
    /\ slot = 1
    /\ late = 0
    /\ row = [o \in Occs |-> NoRow]
    /\ lock = NoProc
    /\ proc = [p \in Procs |-> Idle]
    /\ ran = {}

-----------------------------------------------------------------------------
(* RecurringStateStore *)

\* The WHERE clause of renew and complete.
OwnsRow(o, t) == row[o].status = "running" /\ row[o].token = t

\* Faulty variant: elapsed leases are not looked for.
ExpireNothing == row

\* expire_claims: every running row whose lease is over loses its token.
ExpireClaims ==
    [o \in Occs |-> IF row[o].status = "running" /\ row[o].lease = 0
                    THEN [row[o] EXCEPT !.status = "expired", !.token = 0]
                    ELSE row[o]]

\* claim: INSERT OR IGNORE, else take over a row marked recoverable.
Claimable(o) == row[o].status \in {"none", "recoverable"}
ClaimedRow(o, window) ==
    [status |-> "running", lease |-> window,
     token |-> row[o].attempts + 1, attempts |-> row[o].attempts + 1]

\* Faulty variant: the row is settled without comparing the token.
CompleteAnyToken(o, t, outcome) ==
    IF row[o].status = "running"
    THEN [row EXCEPT ![o].status = outcome, ![o].lease = 0, ![o].token = 0]
    ELSE row

\* complete, and fail through it: one row of this token, still running.
CompleteRow(o, t, outcome) ==
    IF OwnsRow(o, t)
    THEN [row EXCEPT ![o].status = outcome, ![o].lease = 0, ![o].token = 0]
    ELSE row

-----------------------------------------------------------------------------
(* RecurringRunner.run *)

Step(p, pc) == [proc EXCEPT ![p].pc = pc]
Finish(p) == [proc EXCEPT ![p] = Idle]

\* due_status, first half: expire elapsed claims and fix the occurrence.
BeginRun(p, force) ==
    /\ proc[p].pc = "idle"
    /\ row' = ExpireClaims
    /\ proc' = [proc EXCEPT ![p].pc = "looking", ![p].occ = slot,
                            ![p].force = force, ![p].timely = late <= MaxLateness]
    /\ UNCHANGED <<slot, late, lock, ran>>

\* due_status, second half: occurrence_status is read in a transaction of its
\* own, then `started` is read.  A forced run goes on although it is not due.
Due(p) == proc[p].timely /\ row[proc[p].occ].status = "none"
JudgeDue(p) ==
    /\ proc[p].pc = "looking"
    /\ IF proc[p].force \/ Due(p)
       THEN proc' = [proc EXCEPT ![p].pc = "claiming", ![p].window = Lease]
       ELSE proc' = Finish(p)
    /\ UNCHANGED <<slot, late, row, lock, ran>>

\* claim, and the start of the heartbeat thread; a lost claim skips the run.
Claim(p) ==
    /\ proc[p].pc = "claiming"
    /\ LET o == proc[p].occ IN
       IF Claimable(o)
       THEN /\ row' = [row EXCEPT ![o] = ClaimedRow(o, proc[p].window)]
            /\ proc' = [proc EXCEPT ![p].pc = "locking", ![p].beat = "on",
                                    ![p].token = row[o].attempts + 1]
       ELSE proc' = Finish(p) /\ UNCHANGED row
    /\ UNCHANGED <<slot, late, lock, ran>>

\* heartbeat: renew extends the lease of a running row of this token, also one
\* whose lease is already over; a lost row or a database error ends the thread.
Renew(p) ==
    /\ proc[p].beat = "on"
    /\ \/ /\ OwnsRow(proc[p].occ, proc[p].token)
          /\ row' = [row EXCEPT ![proc[p].occ].lease = Lease]
          /\ UNCHANGED proc
       \/ /\ proc' = [proc EXCEPT ![p].beat = "lost"]
          /\ UNCHANGED row
    /\ UNCHANGED <<slot, late, lock, ran>>

\* _lock: O_CREAT | O_EXCL; an existing file raises before the callback.
TakeLock(p) ==
    /\ proc[p].pc = "locking"
    /\ IF lock = NoProc
       THEN lock' = p /\ proc' = Step(p, "callback")
       ELSE /\ UNCHANGED lock
            /\ proc' = [proc EXCEPT ![p].pc = "joining", ![p].outcome = "raised"]
    /\ UNCHANGED <<slot, late, row, ran>>

\* The callback returns a result or raises; either way the file is unlinked.
EndCallback(p, outcome) ==
    /\ proc[p].pc = "callback"
    /\ lock' = NoProc
    /\ proc' = [proc EXCEPT ![p].pc = "joining", ![p].outcome = outcome]
    /\ ran' = IF outcome = "succeeded"
              THEN ran \cup {<<proc[p].occ, proc[p].token>>} ELSE ran
    /\ UNCHANGED <<slot, late, row>>

\* stop_heartbeat.set, join, and the test of heartbeat_errors.
JoinHeartbeat(p) ==
    /\ proc[p].pc = "joining"
    /\ proc' = [proc EXCEPT ![p].pc = "settling", ![p].beat = "off",
                  ![p].outcome = IF @ = "succeeded" /\ proc[p].beat # "lost"
                                 THEN "succeeded" ELSE "failed"]
    /\ UNCHANGED <<slot, late, row, lock, ran>>

\* complete(result) or fail(error); a lost row raises and changes nothing.
Settle(p) ==
    /\ proc[p].pc = "settling"
    /\ row' = CompleteRow(proc[p].occ, proc[p].token, proc[p].outcome)
    /\ proc' = Finish(p)
    /\ UNCHANGED <<slot, late, lock, ran>>

-----------------------------------------------------------------------------
(* Environment *)

\* mark_recoverable: an operator permits an expired occurrence to run again.
MarkRecoverable(o) ==
    /\ row[o].status = "expired"
    /\ row[o].attempts < MaxAttempts
    /\ row' = [row EXCEPT ![o].status = "recoverable"]
    /\ UNCHANGED <<slot, late, lock, proc, ran>>

\* The process is killed and a later one takes its place: no finally block
\* runs, the row and the lock file stay.
Kill(p) ==
    /\ proc[p].pc # "idle"
    /\ proc' = Finish(p)
    /\ lock' = IF lock = p THEN Stale ELSE lock
    /\ UNCHANGED <<slot, late, row, ran>>

Countdown(n) == IF n = 0 THEN 0 ELSE n - 1

\* A tick of the clock, towards the ends of all leases and windows.
Tick ==
    /\ late' = IF late > MaxLateness THEN late ELSE late + 1
    /\ row' = [o \in Occs |-> [row[o] EXCEPT !.lease = Countdown(@)]]
    /\ proc' = [p \in Procs |-> [proc[p] EXCEPT !.window = Countdown(@)]]
    /\ UNCHANGED <<slot, lock, ran>>

\* The next weekly instant arrives.
NextSlot ==
    /\ slot < Occurrences
    /\ slot' = slot + 1
    /\ late' = 0
    /\ UNCHANGED <<row, lock, proc, ran>>

Worker(p) ==
    \/ JudgeDue(p) \/ Claim(p) \/ TakeLock(p) \/ JoinHeartbeat(p) \/ Settle(p)
    \/ \E outcome \in {"succeeded", "failed", "raised"} : EndCallback(p, outcome)

Poll == \E p \in Procs, force \in BOOLEAN : BeginRun(p, force)

Next ==
    \/ Poll
    \/ \E p \in Procs : Worker(p) \/ Renew(p) \/ Kill(p)
    \/ \E o \in Occs : MarkRecoverable(o)
    \/ Tick
    \/ NextSlot

LegacySpec == LegacyInit /\ [][Next]_vars

\* A started run goes on unless it is killed, the clock advances, and the
\* scheduler keeps polling.
FairLegacySpec ==
    /\ LegacySpec
    /\ \A p \in Procs : WF_vars(Worker(p))
    /\ WF_vars(Tick)
    /\ WF_vars(Poll)

-----------------------------------------------------------------------------
(* Properties *)

LegacyTypeOK ==
    /\ slot \in Occs
    /\ late \in 0..(MaxLateness + 1)
    /\ row \in [Occs -> [status : ClaimStatus, lease : 0..Lease,
                         token : 0..MaxAttempts, attempts : 0..MaxAttempts]]
    /\ lock \in Procs \cup {NoProc, Stale}
    /\ proc \in [Procs ->
         [pc : {"idle", "looking", "claiming", "locking", "callback",
                "joining", "settling"},
          occ : Occs, timely : BOOLEAN, force : BOOLEAN, window : 0..Lease,
          token : 0..MaxAttempts, beat : {"on", "lost", "off"},
          outcome : {"none", "succeeded", "failed", "raised"}]]
    /\ ran \subseteq Occs \X (1..MaxAttempts)

\* Two callbacks of a workflow never overlap: not two occurrences', and not a
\* superseded attempt's with the attempt that was granted its occurrence since
\* (the lock file of RecurringRunner._lock, across expiry and recovery).
OneCallback ==
    Cardinality({p \in Procs : proc[p].pc = "callback"}) <= 1

\* A row recorded as succeeded was settled by the attempt that last claimed
\* it, and the callback of that attempt returned a success: a superseded
\* attempt that comes back late cannot settle the row of its successor.
SuccessIsTheClaimants ==
    \A o \in Occs : row[o].status = "succeeded" => <<o, row[o].attempts>> \in ran

\* The lock file is there only while its creator is in the callback or because
\* its creator was killed there: no error path of a live run leaves it behind.
LockIsExplained ==
    lock \in Procs => proc[lock].pc = "callback"

Running(o) == row[o].status = "running"
Abandoned(o) == Running(o) /\ \A p \in Procs : proc[p].occ # o \/ proc[p].token # row[o].token

\* A claim never outlives its owner for good: a running row whose process was
\* killed is expired by a later poll of any runner once its lease has run out.
AbandonedClaimExpires == \A o \in Occs : Abandoned(o) ~> ~Running(o)

ExpiryIsFinalForItsAttemptStep ==
    \A o \in Occs :
       /\ row[o].status = "expired" => row'[o].status \in {"expired", "recoverable"}
       /\ row[o].status = "recoverable" =>
            \/ row'[o].status = "recoverable"
            \/ row'[o].status = "running" /\ row'[o].attempts > row[o].attempts

\* No attempt can be revived: once expired, a row leaves that status only by an
\* operator's review, and is running again only under a higher attempt number
\* (renew, complete and claim of recurring.py against mark_recoverable).
ExpiryIsFinalForItsAttempt == [][ExpiryIsFinalForItsAttemptStep]_vars

\* The legacy runner's attempts do not disturb each other across expiry,
\* review and killed processes: two callbacks of a workflow never overlap; a
\* row recorded as succeeded was settled by the attempt that last claimed it,
\* whose callback succeeded; the lock file is there only while its creator is
\* in the callback or because it was killed there (_lock); and an expired row
\* runs again only under a higher attempt number (renew, complete, claim,
\* mark_recoverable).
LegacyAttemptsAreFenced ==
    /\ [](LegacyTypeOK /\ OneCallback /\ SuccessIsTheClaimants /\ LockIsExplained)
    /\ ExpiryIsFinalForItsAttempt
=============================================================================
