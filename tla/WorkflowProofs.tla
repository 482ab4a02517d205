--------------------------- MODULE WorkflowProofs ---------------------------
(***************************************************************************)
(* The coordinator run for any number of processes that start, resume and  *)
(* die: a terminal run is evidenced, was verified and stays as it is,      *)
(* although the compare-and-swap looks at the state alone.  The work-item  *)
(* review, for any configurations, answers, edits and outages.             *)
(***************************************************************************)
EXTENDS CapsuleRun, EngineeringReview, FiniteSetTheorems, SequenceTheorems, TLAPS

Stored == {"planned", "awaiting_connection", "awaiting_approval", "executing",
           "verifying", "compensating", "terminal"}
Receipts == [by : Procs, dry : BOOLEAN, report : {"none", "finished", "compensated"}]
Checkpoints == [state : Stored \cup {"none"}, sequence : Nat, result : SUBSET Receipts]
Pcs == {"idle", "create", "connect", "approve", "execute", "executing", "verify",
        "undo", "anchor", "export", "end", "receipt"}
Calls == [pc : Pcs \cup {"record"}, then : Pcs, seen : Checkpoints, dry : BOOLEAN,
          report : {"none", "finished", "compensated"}]

RunTypes ==
    /\ checkpoint \in Checkpoints
    /\ events \subseteq [type : {"anchor", "receipt"}, receipt : Receipts]
    /\ exported \subseteq Receipts
    /\ healthy \in BOOLEAN
    /\ started \subseteq Procs
    /\ proc \in [Procs -> Calls]

(* Where a call is, or will be once the event of its step is recorded. *)
Place(c) == IF c.pc = "record" THEN c.then ELSE c.pc

(* A call that goes on has read or written a row of the run. *)
HasRow(c) == Place(c) \notin {"idle", "create"} => c.seen.state \in Stored

(* A call past the orchestrator's run has started it, or is a dry run. *)
HasStarted(p) ==
    /\ Place(proc[p]) \in {"executing", "verify", "undo"} => p \in started
    /\ Place(proc[p]) \in {"anchor", "export", "end"} => proc[p].dry \/ p \in started

(* A call on its way to the end has left its evidence. *)
HasEvidence(p) ==
    /\ Place(proc[p]) \in {"export", "end"}
         => [type |-> "anchor", receipt |-> Receipt(p)] \in events
    /\ Place(proc[p]) = "end" /\ HasSink => Receipt(p) \in exported

CallsOK == \A p \in Procs : HasRow(proc[p]) /\ HasStarted(p) /\ HasEvidence(p)

(* A row has a result, and one, only when it is terminal; every row that   *)
(* was written has a state.                                                *)
OneReceipt ==
    /\ IF checkpoint.state = "terminal" THEN \E r \in Receipts : checkpoint.result = {r}
       ELSE checkpoint.result = {}
    /\ checkpoint.state = "none" => checkpoint = NoRow

CoordinatorInv == RunTypes /\ CallsOK /\ OneReceipt /\ TerminalIsEvidenced

-----------------------------------------------------------------------------
(* The steps of a call *)

LEMMA InitialCall ==
    /\ NoRow \in Checkpoints /\ Idle \in Calls
    /\ Place(Idle) = "idle" /\ Idle.pc = "idle"
  BY DEF NoRow, Checkpoints, Idle, Calls, Pcs, Place

LEMMA ReceiptType ==
    ASSUME RunTypes, NEW p \in Procs
    PROVE  Receipt(p) \in Receipts
  BY DEF RunTypes, Receipts, Receipt, Calls

(* Only process p moves; what is known of the others stays known. *)
LEMMA OneCall ==
    ASSUME RunTypes, CallsOK, NEW p \in Procs, NEW c \in Calls,
           proc' = [proc EXCEPT ![p] = c],
           started \subseteq started', events \subseteq events', exported \subseteq exported',
           HasRow(c), HasStarted(p)', HasEvidence(p)'
    PROVE  proc' \in [Procs -> Calls] /\ CallsOK'
<1>1. proc' \in [Procs -> Calls] /\ proc'[p] = c
  BY DEF RunTypes
<1>2. ASSUME NEW q \in Procs, q # p
      PROVE  HasRow(proc[q])' /\ HasStarted(q)' /\ HasEvidence(q)'
  <2>1. proc'[q] = proc[q]
    BY <1>2 DEF RunTypes
  <2>2. Receipt(q)' = Receipt(q)
    BY <2>1 DEF Receipt
  <2> QED
    BY <1>2, <2>1, <2>2 DEF CallsOK, HasRow, HasStarted, HasEvidence, Place
<1> QED
  BY <1>1, <1>2 DEF CallsOK, HasRow, Place

(* An exception and a death end the call. *)
LEMMA RaisedKeeps ==
    ASSUME RunTypes, CallsOK, NEW p \in Procs, Raised(p),
           started \subseteq started', events \subseteq events', exported \subseteq exported'
    PROVE  proc' \in [Procs -> Calls] /\ CallsOK'
<1>1. proc' = [proc EXCEPT ![p] = Idle] /\ proc'[p] = Idle
  BY DEF Raised, RunTypes
<1>2. HasRow(Idle) /\ HasStarted(p)' /\ HasEvidence(p)'
  BY <1>1, InitialCall DEF HasRow, HasStarted, HasEvidence, Place
<1> QED
  BY <1>1, <1>2, InitialCall, OneCall

(* _TRANSITIONS: a terminal row goes nowhere, and only a row under           *)
(* verification ends.                                                      *)
LEMMA TransitionFacts ==
    ASSUME NEW old \in Stored
    PROVE  /\ Transitions(old) \subseteq Stored
           /\ old = "terminal" => Transitions(old) = {}
           /\ "terminal" \in Transitions(old) => old \in {"verifying", "compensating"}
  BY DEF Stored, Transitions

(* A step that _transition makes or refuses.  The call may go on at a place *)
(* whose conditions it fulfils; the row moves along the table, from what it *)
(* is now, though the call has read it earlier.                            *)
LEMMA AdvanceKeeps ==
    ASSUME RunTypes, CallsOK, NEW p \in Procs, NEW target, NEW then \in Pcs,
           NEW result \in SUBSET Receipts, Place(proc[p]) \notin {"idle", "create"},
           Advance(p, target, then, result), UNCHANGED <<events, exported, started>>,
           then \in {"executing", "verify", "undo"} => p \in started,
           then = "anchor" => proc[p].dry \/ p \in started,
           then \notin {"export", "end"}
    PROVE  /\ proc' \in [Procs -> Calls] /\ CallsOK'
           /\ checkpoint' \in Checkpoints
           /\ \/ checkpoint' = checkpoint
              \/ /\ checkpoint.state \in Stored
                 /\ target \in Transitions(checkpoint.state)
                 /\ checkpoint'.state = target /\ checkpoint'.result = result
<1>1. proc[p] \in Calls /\ proc[p].seen.state \in Stored
  BY DEF RunTypes, CallsOK, HasRow
<1>2. CASE Raised(p) /\ UNCHANGED checkpoint
  BY <1>2, RaisedKeeps DEF RunTypes
<1>3. CASE ~(Raised(p) /\ UNCHANGED checkpoint)
  <2> DEFINE row == [state |-> target, sequence |-> checkpoint.sequence + 1,
                     result |-> result]
             c == [proc[p] EXCEPT !.pc = "record", !.then = then, !.seen = row]
  <2>1. /\ target \in Transitions(checkpoint.state) /\ checkpoint.state \in Stored
        /\ checkpoint' = row
        /\ proc' = [proc EXCEPT ![p].pc = "record", ![p].then = then, ![p].seen = row]
    BY <1>1, <1>3 DEF Advance, Matches
  <2>2. target \in Stored
    BY <2>1, TransitionFacts
  <2>3. row \in Checkpoints /\ row.state = target /\ row.result = result
    BY <2>2 DEF RunTypes, Checkpoints
  <2>4. /\ c \in Calls /\ c.pc = "record" /\ c.then = then /\ c.seen = row
        /\ c.dry = proc[p].dry
    BY <1>1, <2>3 DEF Calls
  <2>5. proc' = [proc EXCEPT ![p] = c] /\ proc'[p] = c
    BY <2>1 DEF RunTypes
  <2> HIDE DEF row, c
  <2>6. HasRow(c)
    BY <2>2, <2>3, <2>4 DEF HasRow
  <2>7. HasStarted(p)'
    BY <2>4, <2>5 DEF HasStarted, Place
  <2>8. HasEvidence(p)'
    BY <2>4, <2>5 DEF HasEvidence, Place
  <2>9. proc' \in [Procs -> Calls] /\ CallsOK'
    BY <2>4, <2>5, <2>6, <2>7, <2>8, OneCall
  <2> QED
    BY <2>1, <2>3, <2>9
<1> QED
  BY <1>2, <1>3

(* The row alone. *)
RowOK == checkpoint \in Checkpoints /\ OneReceipt /\ TerminalIsEvidenced

LEMMA RowStays ==
    ASSUME RowOK, UNCHANGED checkpoint, events \subseteq events', exported \subseteq exported'
    PROVE  RowOK'
  BY DEF RowOK, OneReceipt, TerminalIsEvidenced

(* A step to a row that does not end. *)
LEMMA RowMoves ==
    ASSUME RowOK, checkpoint' \in Checkpoints, UNCHANGED <<events, exported>>,
           \/ checkpoint' = checkpoint
           \/ checkpoint'.state \notin {"none", "terminal"} /\ checkpoint'.result = {}
    PROVE  RowOK'
  BY DEF RowOK, OneReceipt, TerminalIsEvidenced

-----------------------------------------------------------------------------
(* One lemma per action *)

(* A step in which call p becomes c and the row stays. *)
LEMMA CallMoves ==
    ASSUME CoordinatorInv, NEW p \in Procs, NEW c \in Calls,
           proc' = [proc EXCEPT ![p] = c], UNCHANGED <<checkpoint, healthy>>,
           started \subseteq started', started' \subseteq Procs,
           events \subseteq events',
           events' \subseteq [type : {"anchor", "receipt"}, receipt : Receipts],
           exported \subseteq exported', exported' \subseteq Receipts,
           HasRow(c), HasStarted(p)', HasEvidence(p)'
    PROVE  CoordinatorInv'
<1>1. RunTypes /\ CallsOK /\ RowOK
  BY DEF CoordinatorInv, RowOK, RunTypes
<1>2. proc' \in [Procs -> Calls] /\ CallsOK'
  BY <1>1, OneCall
<1>3. RowOK'
  BY <1>1, RowStays
<1> QED
  BY <1>1, <1>2, <1>3 DEF CoordinatorInv, RowOK, RunTypes

(* A step that ends call p. *)
LEMMA CallEnds ==
    ASSUME CoordinatorInv, NEW p \in Procs, Raised(p), UNCHANGED <<checkpoint, healthy, started>>,
           events \subseteq events',
           events' \subseteq [type : {"anchor", "receipt"}, receipt : Receipts],
           exported \subseteq exported', exported' \subseteq Receipts
    PROVE  CoordinatorInv'
<1>1. RunTypes /\ CallsOK /\ RowOK
  BY DEF CoordinatorInv, RowOK, RunTypes
<1>2. proc' \in [Procs -> Calls] /\ CallsOK'
  BY <1>1, RaisedKeeps
<1>3. RowOK'
  BY <1>1, RowStays
<1> QED
  BY <1>1, <1>2, <1>3 DEF CoordinatorInv, RowOK, RunTypes

LEMMA ReadCheckpointKeeps ==
    ASSUME RunAssumption, CoordinatorInv, NEW p \in Procs, ReadCheckpoint(p)
    PROVE  CoordinatorInv'
<1>1. RunTypes /\ checkpoint \in Checkpoints /\ OneReceipt
  BY DEF CoordinatorInv, RunTypes
<1>2. PICK dry \in BOOLEAN : proc' = [proc EXCEPT ![p] =
        [Idle EXCEPT !.pc = IF checkpoint = NoRow THEN "create" ELSE "connect",
                     !.seen = checkpoint, !.dry = dry]]
  BY DEF ReadCheckpoint, RunAssumption
<1> DEFINE c == [Idle EXCEPT !.pc = IF checkpoint = NoRow THEN "create" ELSE "connect",
                             !.seen = checkpoint, !.dry = dry]
<1>3. /\ c \in Calls /\ c.seen = checkpoint
      /\ Place(c) = IF checkpoint = NoRow THEN "create" ELSE "connect"
  BY <1>1, InitialCall DEF Calls, Pcs, Place
<1>4. proc' = [proc EXCEPT ![p] = c] /\ proc'[p] = c
  BY <1>1, <1>2 DEF RunTypes
<1>5. UNCHANGED <<checkpoint, events, exported, healthy, started>>
  BY DEF ReadCheckpoint
<1> HIDE DEF c
<1>6. checkpoint.state = "none" => checkpoint = NoRow
  BY <1>1 DEF OneReceipt
<1>7. HasRow(c)
  BY <1>1, <1>3, <1>6 DEF HasRow, Checkpoints
<1>8. HasStarted(p)' /\ HasEvidence(p)'
  BY <1>3, <1>4 DEF HasStarted, HasEvidence
<1> QED
  BY <1>1, <1>3, <1>4, <1>5, <1>7, <1>8, CallMoves DEF RunTypes

LEMMA CreateKeeps ==
    ASSUME CoordinatorInv, NEW p \in Procs, Create(p)
    PROVE  CoordinatorInv'
<1> DEFINE row == [state |-> "planned", sequence |-> 0, result |-> {}]
           c == [proc[p] EXCEPT !.pc = "record", !.then = "connect", !.seen = row]
<1>1. RunTypes /\ CallsOK /\ RowOK /\ proc[p] \in Calls
  BY DEF CoordinatorInv, RowOK, RunTypes
<1>2. UNCHANGED <<events, exported, healthy, started>>
  BY DEF Create
<1>3. CASE Raised(p) /\ UNCHANGED checkpoint
  BY <1>1, <1>2, <1>3, CallEnds DEF RunTypes
<1>4. CASE ~(Raised(p) /\ UNCHANGED checkpoint)
  <2>1. /\ checkpoint' = row
        /\ proc' = [proc EXCEPT ![p].pc = "record", ![p].then = "connect", ![p].seen = row]
    BY <1>4 DEF Create
  <2>2. row \in Checkpoints /\ row.state = "planned" /\ row.result = {}
    BY DEF Checkpoints, Stored
  <2>3. c \in Calls /\ c.seen = row /\ Place(c) = "connect"
    BY <1>1, <2>2 DEF Calls, Pcs, Place
  <2>4. proc' = [proc EXCEPT ![p] = c] /\ proc'[p] = c
    BY <1>1, <2>1 DEF RunTypes
  <2> HIDE DEF row, c
  <2>5. HasRow(c) /\ HasStarted(p)' /\ HasEvidence(p)'
    BY <2>2, <2>3, <2>4 DEF HasRow, HasStarted, HasEvidence, Stored
  <2>6. proc' \in [Procs -> Calls] /\ CallsOK'
    BY <1>1, <1>2, <2>3, <2>4, <2>5, OneCall
  <2>7. RowOK'
    BY <1>1, <1>2, <2>1, <2>2, RowMoves
  <2> QED
    BY <1>1, <1>2, <2>6, <2>7 DEF CoordinatorInv, RowOK, RunTypes
<1> QED
  BY <1>3, <1>4

LEMMA RecordStateKeeps ==
    ASSUME CoordinatorInv, NEW p \in Procs, RecordState(p)
    PROVE  CoordinatorInv'
<1> DEFINE c == [proc[p] EXCEPT !.pc = proc[p].then]
<1>1. RunTypes /\ HasRow(proc[p]) /\ HasStarted(p) /\ HasEvidence(p) /\ proc[p] \in Calls
  BY DEF CoordinatorInv, CallsOK, RunTypes
<1>2. UNCHANGED <<checkpoint, events, exported, healthy, started>> /\ proc[p].pc = "record"
  BY DEF RecordState
<1>3. CASE Raised(p)
  BY <1>1, <1>2, <1>3, CallEnds DEF RunTypes
<1>4. CASE ~Raised(p)
  <2>1. proc' = [proc EXCEPT ![p].pc = proc[p].then]
    BY <1>4 DEF RecordState
  <2>2. /\ c \in Calls /\ c.seen = proc[p].seen /\ c.dry = proc[p].dry
        /\ c.report = proc[p].report /\ Place(c) = Place(proc[p])
    BY <1>1, <1>2 DEF Calls, Pcs, Place
  <2>3. proc' = [proc EXCEPT ![p] = c] /\ proc'[p] = c
    BY <1>1, <2>1 DEF RunTypes
  <2> HIDE DEF c
  <2>4. HasRow(c) /\ HasStarted(p)'
    BY <1>1, <1>2, <2>2, <2>3 DEF HasRow, HasStarted
  <2>5. HasEvidence(p)'
    BY <1>1, <1>2, <2>2, <2>3 DEF HasEvidence, Receipt
  <2> QED
    BY <1>1, <1>2, <2>2, <2>3, <2>4, <2>5, CallMoves DEF RunTypes
<1> QED
  BY <1>3, <1>4

(* A step of _transition that does not end the run. *)
LEMMA AdvanceMoves ==
    ASSUME CoordinatorInv, NEW p \in Procs,
           NEW target \in {"awaiting_connection", "awaiting_approval", "executing",
                           "verifying", "compensating"},
           NEW then \in {"idle", "execute", "undo", "anchor"},
           Place(proc[p]) \in {"connect", "approve", "verify", "undo"},
           Advance(p, target, then, {}), UNCHANGED <<events, exported, healthy, started>>,
           then = "undo" => p \in started,
           then = "anchor" => proc[p].dry \/ p \in started
    PROVE  CoordinatorInv'
<1>1. RunTypes /\ CallsOK /\ RowOK /\ {} \in SUBSET Receipts
  BY DEF CoordinatorInv, RowOK, RunTypes
<1>2. then \in Pcs /\ Place(proc[p]) \notin {"idle", "create"}
  BY DEF Pcs
<1>3. /\ then \in {"executing", "verify", "undo"} => p \in started
      /\ then \notin {"export", "end"}
  OBVIOUS
<1>4. /\ proc' \in [Procs -> Calls] /\ CallsOK' /\ checkpoint' \in Checkpoints
      /\ \/ checkpoint' = checkpoint
         \/ checkpoint'.state = target /\ checkpoint'.result = {}
  BY <1>1, <1>2, <1>3, AdvanceKeeps
<1>5. RowOK'
  BY <1>1, <1>4, RowMoves
<1> QED
  BY <1>1, <1>4, <1>5 DEF CoordinatorInv, RowOK, RunTypes

LEMMA AwaitConnectionKeeps ==
    ASSUME CoordinatorInv, NEW p \in Procs, AwaitConnection(p)
    PROVE  CoordinatorInv'
<1>1. Place(proc[p]) = "connect"
  BY DEF AwaitConnection, Place
<1>2. Advance(p, "awaiting_connection", "idle", {}) /\ UNCHANGED <<events, exported, healthy, started>>
  BY DEF AwaitConnection
<1> QED
  BY <1>1, <1>2, AdvanceMoves

LEMMA AwaitApprovalKeeps ==
    ASSUME CoordinatorInv, NEW p \in Procs, AwaitApproval(p)
    PROVE  CoordinatorInv'
<1>1. Place(proc[p]) = "approve"
  BY DEF AwaitApproval, Place
<1>2. Advance(p, "awaiting_approval", "idle", {}) /\ UNCHANGED <<events, exported, healthy, started>>
  BY DEF AwaitApproval
<1> QED
  BY <1>1, <1>2, AdvanceMoves

LEMMA PreviewedKeeps ==
    ASSUME CoordinatorInv, NEW p \in Procs, Previewed(p)
    PROVE  CoordinatorInv'
<1>1. Place(proc[p]) = "approve" /\ proc[p].dry
  BY DEF Previewed, Place
<1>2. Advance(p, "verifying", "anchor", {}) /\ UNCHANGED <<events, exported, healthy, started>>
  BY DEF Previewed
<1> QED
  BY <1>1, <1>2, AdvanceMoves

LEMMA BeginExecutionKeeps ==
    ASSUME CoordinatorInv, NEW p \in Procs, BeginExecution(p)
    PROVE  CoordinatorInv'
<1>1. Place(proc[p]) = "approve"
  BY DEF BeginExecution, Place
<1>2. Advance(p, "executing", "execute", {}) /\ UNCHANGED <<events, exported, healthy, started>>
  BY DEF BeginExecution
<1> QED
  BY <1>1, <1>2, AdvanceMoves

LEMMA BeginVerifyingKeeps ==
    ASSUME CoordinatorInv, NEW p \in Procs, BeginVerifying(p)
    PROVE  CoordinatorInv'
<1>1. Place(proc[p]) = "verify" /\ p \in started
  BY DEF BeginVerifying, Place, CoordinatorInv, CallsOK, HasStarted
<1>2. PICK then \in {"undo", "anchor"} : Advance(p, "verifying", then, {})
  BY DEF BeginVerifying
<1>3. UNCHANGED <<events, exported, healthy, started>>
  BY DEF BeginVerifying
<1> QED
  BY <1>1, <1>2, <1>3, AdvanceMoves

LEMMA BeginCompensatingKeeps ==
    ASSUME CoordinatorInv, NEW p \in Procs, BeginCompensating(p)
    PROVE  CoordinatorInv'
<1>1. Place(proc[p]) = "undo" /\ p \in started
  BY DEF BeginCompensating, Place, CoordinatorInv, CallsOK, HasStarted
<1>2. Advance(p, "compensating", "anchor", {}) /\ UNCHANGED <<events, exported, healthy, started>>
  BY DEF BeginCompensating
<1> QED
  BY <1>1, <1>2, AdvanceMoves

LEMMA ConnectionsReadyKeeps ==
    ASSUME CoordinatorInv, NEW p \in Procs, ConnectionsReady(p)
    PROVE  CoordinatorInv'
<1> DEFINE c == [proc[p] EXCEPT !.pc = "approve"]
<1>1. RunTypes /\ HasRow(proc[p]) /\ proc[p] \in Calls
  BY DEF CoordinatorInv, CallsOK, RunTypes
<1>2. UNCHANGED <<checkpoint, events, exported, healthy, started>> /\ proc[p].pc = "connect"
  BY DEF ConnectionsReady
<1>3. CASE Raised(p)
  BY <1>1, <1>2, <1>3, CallEnds DEF RunTypes
<1>4. CASE ~Raised(p)
  <2>1. proc' = [proc EXCEPT ![p].pc = "approve"]
    BY <1>4 DEF ConnectionsReady
  <2>2. c \in Calls /\ c.seen = proc[p].seen /\ Place(c) = "approve"
    BY <1>1 DEF Calls, Pcs, Place
  <2>3. proc' = [proc EXCEPT ![p] = c] /\ proc'[p] = c
    BY <1>1, <2>1 DEF RunTypes
  <2> HIDE DEF c
  <2>4. HasRow(c) /\ HasStarted(p)' /\ HasEvidence(p)'
    BY <1>1, <1>2, <2>2, <2>3 DEF HasRow, HasStarted, HasEvidence, Place
  <2> QED
    BY <1>1, <1>2, <2>2, <2>3, <2>4, CallMoves DEF RunTypes
<1> QED
  BY <1>3, <1>4

LEMMA StartActionsKeeps ==
    ASSUME CoordinatorInv, NEW p \in Procs, StartActions(p)
    PROVE  CoordinatorInv'
<1> DEFINE c == [proc[p] EXCEPT !.pc = "executing"]
<1>1. RunTypes /\ HasRow(proc[p]) /\ proc[p] \in Calls
  BY DEF CoordinatorInv, CallsOK, RunTypes
<1>2. /\ UNCHANGED <<checkpoint, events, exported, healthy>> /\ proc[p].pc = "execute"
      /\ started' = started \cup {p} /\ proc' = [proc EXCEPT ![p].pc = "executing"]
  BY DEF StartActions
<1>3. c \in Calls /\ c.seen = proc[p].seen /\ Place(c) = "executing"
  BY <1>1 DEF Calls, Pcs, Place
<1>4. proc' = [proc EXCEPT ![p] = c] /\ proc'[p] = c
  BY <1>1, <1>2 DEF RunTypes
<1> HIDE DEF c
<1>5. HasRow(c) /\ HasStarted(p)' /\ HasEvidence(p)'
  BY <1>1, <1>2, <1>3, <1>4 DEF HasRow, HasStarted, HasEvidence, Place
<1> QED
  BY <1>1, <1>2, <1>3, <1>4, <1>5, CallMoves DEF RunTypes

LEMMA FinishActionsKeeps ==
    ASSUME CoordinatorInv, NEW p \in Procs, FinishActions(p)
    PROVE  CoordinatorInv'
<1>1. RunTypes /\ HasRow(proc[p]) /\ HasStarted(p) /\ proc[p] \in Calls
  BY DEF CoordinatorInv, CallsOK, RunTypes
<1>2. UNCHANGED <<checkpoint, events, exported, healthy, started>> /\ proc[p].pc = "executing"
  BY DEF FinishActions
<1>3. PICK outcome \in {"finished", "compensated"} :
        proc' = [proc EXCEPT ![p].pc = "verify", ![p].report = outcome]
  BY DEF FinishActions
<1> DEFINE c == [proc[p] EXCEPT !.pc = "verify", !.report = outcome]
<1>4. c \in Calls /\ c.seen = proc[p].seen /\ Place(c) = "verify"
  BY <1>1 DEF Calls, Pcs, Place
<1>5. proc' = [proc EXCEPT ![p] = c] /\ proc'[p] = c
  BY <1>1, <1>3 DEF RunTypes
<1> HIDE DEF c
<1>6. HasRow(c) /\ HasStarted(p)' /\ HasEvidence(p)'
  BY <1>1, <1>2, <1>4, <1>5 DEF HasRow, HasStarted, HasEvidence, Place
<1> QED
  BY <1>1, <1>2, <1>4, <1>5, <1>6, CallMoves DEF RunTypes

LEMMA AnchorReceiptKeeps ==
    ASSUME CoordinatorInv, NEW p \in Procs, AnchorReceipt(p)
    PROVE  CoordinatorInv'
<1> DEFINE c == [proc[p] EXCEPT !.pc = "export"]
           anchor == [type |-> "anchor", receipt |-> Receipt(p)]
<1>1. RunTypes /\ HasRow(proc[p]) /\ HasStarted(p) /\ proc[p] \in Calls
  BY DEF CoordinatorInv, CallsOK, RunTypes
<1>2. /\ UNCHANGED <<checkpoint, exported, healthy, started>> /\ proc[p].pc = "anchor"
      /\ events' = events \cup {anchor} /\ proc' = [proc EXCEPT ![p].pc = "export"]
  BY DEF AnchorReceipt
<1>3. anchor \in [type : {"anchor", "receipt"}, receipt : Receipts]
  BY <1>1, ReceiptType
<1>4. /\ c \in Calls /\ c.seen = proc[p].seen /\ c.dry = proc[p].dry
      /\ c.report = proc[p].report /\ Place(c) = "export"
  BY <1>1 DEF Calls, Pcs, Place
<1>5. proc' = [proc EXCEPT ![p] = c] /\ proc'[p] = c
  BY <1>1, <1>2 DEF RunTypes
<1> HIDE DEF c
<1>6. HasRow(c) /\ HasStarted(p)'
  BY <1>1, <1>2, <1>4, <1>5 DEF HasRow, HasStarted, Place
<1>7. HasEvidence(p)'
  BY <1>2, <1>4, <1>5 DEF HasEvidence, Receipt
<1> QED
  BY <1>1, <1>2, <1>3, <1>4, <1>5, <1>6, <1>7, CallMoves DEF RunTypes

LEMMA ExportReceiptKeeps ==
    ASSUME CoordinatorInv, NEW p \in Procs, ExportReceipt(p)
    PROVE  CoordinatorInv'
<1> DEFINE c == [proc[p] EXCEPT !.pc = "end"]
<1>1. /\ RunTypes /\ HasRow(proc[p]) /\ HasStarted(p) /\ HasEvidence(p)
      /\ proc[p] \in Calls /\ Receipt(p) \in Receipts
  BY ReceiptType DEF CoordinatorInv, CallsOK, RunTypes
<1>2. /\ UNCHANGED <<checkpoint, events, healthy, started>> /\ proc[p].pc = "export"
      /\ exported' \in {exported, exported \cup {Receipt(p)}}
  BY DEF ExportReceipt
<1>3. CASE Raised(p)
  BY <1>1, <1>2, <1>3, CallEnds DEF RunTypes
<1>4. CASE ~Raised(p)
  <2>1. /\ proc' = [proc EXCEPT ![p].pc = "end"]
        /\ HasSink => exported' = exported \cup {Receipt(p)}
    BY <1>4 DEF ExportReceipt
  <2>2. /\ c \in Calls /\ c.seen = proc[p].seen /\ c.dry = proc[p].dry
        /\ c.report = proc[p].report /\ Place(c) = "end"
    BY <1>1 DEF Calls, Pcs, Place
  <2>3. proc' = [proc EXCEPT ![p] = c] /\ proc'[p] = c
    BY <1>1, <2>1 DEF RunTypes
  <2> HIDE DEF c
  <2>4. HasRow(c) /\ HasStarted(p)'
    BY <1>1, <1>2, <2>2, <2>3 DEF HasRow, HasStarted, Place
  <2>5. Receipt(p)' = Receipt(p)
    BY <2>2, <2>3 DEF Receipt
  <2>6. HasEvidence(p)'
    BY <1>1, <1>2, <2>1, <2>2, <2>3, <2>5 DEF HasEvidence, Place
  <2> QED
    BY <1>1, <1>2, <2>2, <2>3, <2>4, <2>6, CallMoves DEF RunTypes
<1> QED
  BY <1>3, <1>4

(* What End does to the row: the place where the evidence is needed. *)
LEMMA EndFacts ==
    ASSUME CoordinatorInv, NEW p \in Procs, End(p)
    PROVE  /\ proc' \in [Procs -> Calls] /\ CallsOK' /\ checkpoint' \in Checkpoints
           /\ UNCHANGED <<events, exported, healthy, started>>
           /\ Receipt(p) \in Receipts /\ (Receipt(p).dry \/ Receipt(p).by \in started)
           /\ [type |-> "anchor", receipt |-> Receipt(p)] \in events
           /\ HasSink => Receipt(p) \in exported
           /\ \/ checkpoint' = checkpoint
              \/ /\ checkpoint.state \in {"verifying", "compensating"}
                 /\ checkpoint'.state = "terminal" /\ checkpoint'.result = {Receipt(p)}
<1>1. /\ RunTypes /\ CallsOK /\ HasStarted(p) /\ HasEvidence(p)
      /\ Place(proc[p]) = "end" /\ Receipt(p) \in Receipts
  BY ReceiptType DEF CoordinatorInv, CallsOK, End, Place
<1>2. /\ Advance(p, "terminal", "receipt", {Receipt(p)})
      /\ UNCHANGED <<events, exported, healthy, started>>
  BY DEF End
<1>3. /\ proc' \in [Procs -> Calls] /\ CallsOK' /\ checkpoint' \in Checkpoints
      /\ \/ checkpoint' = checkpoint
         \/ /\ checkpoint.state \in Stored
            /\ "terminal" \in Transitions(checkpoint.state)
            /\ checkpoint'.state = "terminal" /\ checkpoint'.result = {Receipt(p)}
  <2>1. {Receipt(p)} \in SUBSET Receipts /\ "receipt" \in Pcs
    BY <1>1 DEF Pcs
  <2> QED
    BY <1>1, <1>2, <2>1, AdvanceKeeps
<1>4. Receipt(p).dry \/ Receipt(p).by \in started
  BY <1>1 DEF HasStarted, Receipt
<1>5. /\ [type |-> "anchor", receipt |-> Receipt(p)] \in events
      /\ HasSink => Receipt(p) \in exported
  BY <1>1 DEF HasEvidence
<1> QED
  BY <1>1, <1>2, <1>3, <1>4, <1>5, TransitionFacts

LEMMA EndKeeps ==
    ASSUME CoordinatorInv, NEW p \in Procs, End(p)
    PROVE  CoordinatorInv'
<1>1. RunTypes /\ RowOK
  BY DEF CoordinatorInv, RowOK, RunTypes
<1>2. RowOK'
  <2>1. CASE checkpoint' = checkpoint
    BY <1>1, <2>1, EndFacts, RowStays
  <2>2. CASE checkpoint' # checkpoint
    BY <2>2, EndFacts DEF RowOK, OneReceipt, TerminalIsEvidenced
  <2> QED
    BY <2>1, <2>2
<1> QED
  BY <1>1, <1>2, EndFacts DEF CoordinatorInv, RowOK, RunTypes

LEMMA RecordReceiptKeeps ==
    ASSUME CoordinatorInv, NEW p \in Procs, RecordReceipt(p)
    PROVE  CoordinatorInv'
<1>1. RunTypes /\ Receipt(p) \in Receipts
  BY ReceiptType DEF CoordinatorInv
<1>2. /\ Raised(p) /\ UNCHANGED <<checkpoint, exported, healthy, started>>
      /\ events' = events \cup {[type |-> "receipt", receipt |-> Receipt(p)]}
  BY DEF RecordReceipt
<1> QED
  BY <1>1, <1>2, CallEnds DEF RunTypes

LEMMA DieKeeps ==
    ASSUME CoordinatorInv, NEW p \in Procs, Die(p)
    PROVE  CoordinatorInv'
<1>1. /\ RunTypes /\ Raised(p)
      /\ UNCHANGED <<checkpoint, events, exported, healthy, started>>
  BY DEF CoordinatorInv, Die
<1> QED
  BY <1>1, CallEnds DEF RunTypes

(* The sink is no part of what a call knows. *)
LEMMA SinkKeeps ==
    ASSUME CoordinatorInv, SinkChanges \/ UNCHANGED runVars
    PROVE  CoordinatorInv'
<1>1. UNCHANGED <<checkpoint, events, exported, started, proc>> /\ healthy' \in BOOLEAN
  BY DEF SinkChanges, runVars, CoordinatorInv, RunTypes
<1>2. RunTypes'
  BY <1>1 DEF CoordinatorInv, RunTypes
<1>3. CallsOK'
  BY <1>1 DEF CoordinatorInv, CallsOK, HasRow, HasStarted, HasEvidence, Place, Receipt
<1>4. OneReceipt' /\ TerminalIsEvidenced'
  BY <1>1 DEF CoordinatorInv, OneReceipt, TerminalIsEvidenced
<1> QED
  BY <1>2, <1>3, <1>4 DEF CoordinatorInv

LEMMA CoordinatorInvHolds ==
    ASSUME RunAssumption
    PROVE  RunSpec => []CoordinatorInv
<1>1. RunInit => CoordinatorInv
  <2> SUFFICES ASSUME RunInit PROVE CoordinatorInv
    OBVIOUS
  <2>1. RunTypes /\ \A p \in Procs : proc[p] = Idle
    BY InitialCall DEF RunInit, RunTypes
  <2>2. CallsOK
    BY <2>1, InitialCall DEF CallsOK, HasRow, HasStarted, HasEvidence
  <2>3. checkpoint.state = "none" /\ checkpoint.result = {} /\ checkpoint = NoRow
    BY DEF RunInit, NoRow
  <2>4. OneReceipt /\ TerminalIsEvidenced
    BY <2>3 DEF OneReceipt, TerminalIsEvidenced
  <2> QED
    BY <2>1, <2>2, <2>4 DEF CoordinatorInv
<1>2. CoordinatorInv /\ [RunNext]_runVars => CoordinatorInv'
  <2> SUFFICES ASSUME CoordinatorInv, [RunNext]_runVars PROVE CoordinatorInv'
    OBVIOUS
  <2>1. ASSUME NEW p \in Procs, Begin(p) PROVE CoordinatorInv'
    BY <2>1, ReadCheckpointKeeps, CreateKeeps, RecordStateKeeps DEF Begin
  <2>2. ASSUME NEW p \in Procs, Gates(p) PROVE CoordinatorInv'
    BY <2>2, AwaitConnectionKeeps, ConnectionsReadyKeeps, AwaitApprovalKeeps,
       PreviewedKeeps DEF Gates
  <2>3. ASSUME NEW p \in Procs, Apply(p) PROVE CoordinatorInv'
    BY <2>3, BeginExecutionKeeps, StartActionsKeeps, FinishActionsKeeps,
       BeginVerifyingKeeps, BeginCompensatingKeeps DEF Apply
  <2>4. ASSUME NEW p \in Procs, Evidence(p) PROVE CoordinatorInv'
    BY <2>4, AnchorReceiptKeeps, ExportReceiptKeeps, EndKeeps, RecordReceiptKeeps
       DEF Evidence
  <2> QED
    BY <2>1, <2>2, <2>3, <2>4, DieKeeps, SinkKeeps DEF RunNext
<1> QED
  BY <1>1, <1>2, PTL DEF RunSpec

-----------------------------------------------------------------------------
(* Results *)

(* Every step of the row is one of _TRANSITIONS from what the row is now, or *)
(* its creation.  A call whose reading is stale is refused, or its stale     *)
(* reading and the row agree in the one thing the table looks at.            *)
LEMMA RowStep ==
    ASSUME CoordinatorInv, [RunNext]_runVars
    PROVE  \/ checkpoint' = checkpoint
           \/ checkpoint = NoRow /\ checkpoint'.state = "planned" /\ checkpoint'.sequence = 0
           \/ /\ checkpoint.state \in Stored
              /\ checkpoint'.state \in Transitions(checkpoint.state)
              /\ checkpoint.sequence < MaxSteps
              /\ checkpoint'.sequence = checkpoint.sequence + 1
<1> DEFINE Along ==
        \/ checkpoint' = checkpoint
        \/ checkpoint = NoRow /\ checkpoint'.state = "planned" /\ checkpoint'.sequence = 0
        \/ /\ checkpoint.state \in Stored
           /\ checkpoint'.state \in Transitions(checkpoint.state)
           /\ checkpoint.sequence < MaxSteps
           /\ checkpoint'.sequence = checkpoint.sequence + 1
<1>1. ASSUME NEW p \in Procs, NEW target, NEW then, NEW result,
             Place(proc[p]) \notin {"idle", "create"}, Advance(p, target, then, result)
      PROVE  Along
  <2>1. proc[p].seen.state \in Stored
    BY <1>1 DEF CoordinatorInv, CallsOK, HasRow
  <2> QED
    BY <1>1, <2>1 DEF Advance, Matches
<1>2. ASSUME NEW p \in Procs, Begin(p) PROVE Along
  <2>1. CASE Create(p)
    BY <2>1 DEF Create
  <2>2. CASE ReadCheckpoint(p) \/ RecordState(p)
    BY <2>2 DEF ReadCheckpoint, RecordState
  <2> QED
    BY <1>2, <2>1, <2>2 DEF Begin
<1>3. ASSUME NEW p \in Procs, Gates(p) PROVE Along
  BY <1>1, <1>3 DEF Gates, AwaitConnection, ConnectionsReady, AwaitApproval, Previewed, Place
<1>4. ASSUME NEW p \in Procs, Apply(p) PROVE Along
  BY <1>1, <1>4 DEF Apply, BeginExecution, StartActions, FinishActions, BeginVerifying,
     BeginCompensating, Place
<1>5. ASSUME NEW p \in Procs, Evidence(p) PROVE Along
  BY <1>1, <1>5 DEF Evidence, AnchorReceipt, ExportReceipt, End, RecordReceipt, Place
<1>6. CASE (\E p \in Procs : Die(p)) \/ SinkChanges \/ UNCHANGED runVars
  BY <1>6 DEF Die, SinkChanges, runVars
<1> QED
  BY <1>2, <1>3, <1>4, <1>5, <1>6 DEF RunNext

(* A row that becomes terminal does so by End. *)
LEMMA OnlyEndEnds ==
    ASSUME CoordinatorInv, [RunNext]_runVars, checkpoint'.state = "terminal",
           checkpoint.state # "terminal"
    PROVE  \E p \in Procs : End(p)
<1>1. ASSUME NEW p \in Procs, NEW target, NEW then, NEW result, target # "terminal",
             Advance(p, target, then, result)
      PROVE  FALSE
  BY <1>1 DEF Advance
<1>2. checkpoint' # checkpoint
  OBVIOUS
<1>3. ASSUME NEW p \in Procs, Begin(p) PROVE FALSE
  <2>1. CASE Create(p)
    BY <1>2, <2>1 DEF Create
  <2>2. CASE ReadCheckpoint(p) \/ RecordState(p)
    BY <1>2, <2>2 DEF ReadCheckpoint, RecordState
  <2> QED
    BY <1>3, <2>1, <2>2 DEF Begin
<1>4. ASSUME NEW p \in Procs, Gates(p) PROVE FALSE
  BY <1>1, <1>2, <1>4 DEF Gates, AwaitConnection, ConnectionsReady, AwaitApproval, Previewed
<1>5. ASSUME NEW p \in Procs, Apply(p) PROVE FALSE
  BY <1>1, <1>2, <1>5 DEF Apply, BeginExecution, StartActions, FinishActions, BeginVerifying,
     BeginCompensating
<1>6. ASSUME NEW p \in Procs, Evidence(p) PROVE End(p)
  BY <1>2, <1>6 DEF Evidence, AnchorReceipt, ExportReceipt, RecordReceipt
<1> QED
  BY <1>2, <1>3, <1>4, <1>5, <1>6 DEF RunNext, Die, SinkChanges, runVars

(* Types: the sequence counts the steps of the row, and a row has a result *)
(* exactly when it is terminal.                                            *)
THEOREM RunTypeCorrect ==
    ASSUME RunAssumption
    PROVE  RunSpec => []RunTypeOK
<1> DEFINE Counted == checkpoint.sequence <= MaxSteps
<1>1. MaxSteps \in Nat
  BY DEF RunAssumption
<1>2. RunInit => Counted
  BY <1>1 DEF RunInit, NoRow
<1>3. CoordinatorInv /\ Counted /\ [RunNext]_runVars => Counted'
  <2> SUFFICES ASSUME CoordinatorInv, Counted, [RunNext]_runVars PROVE Counted'
    OBVIOUS
  <2>1. checkpoint.sequence \in Nat
    BY DEF CoordinatorInv, RunTypes, Checkpoints
  <2> QED
    BY <1>1, <2>1, RowStep
<1>4. CoordinatorInv /\ Counted => RunTypeOK
  <2> SUFFICES ASSUME CoordinatorInv, Counted PROVE RunTypeOK
    OBVIOUS
  <2>1. Cardinality(checkpoint.result) = (IF checkpoint.state = "terminal" THEN 1 ELSE 0)
    BY FS_EmptySet, FS_Singleton DEF CoordinatorInv, OneReceipt
  <2>2. checkpoint.sequence \in 0..MaxSteps
    BY <1>1 DEF CoordinatorInv, RunTypes, Checkpoints
  <2> QED
    BY <2>1, <2>2 DEF CoordinatorInv, RunTypes, Checkpoints, Stored, RunTypeOK
<1> QED
  BY <1>2, <1>3, <1>4, CoordinatorInvHolds, PTL DEF RunSpec

(* However calls interleave, die and are resumed, a terminal run's receipt *)
(* was anchored and, where there is a sink, accepted before the run ended. *)
THEOREM TerminalsAreEvidenced ==
    ASSUME RunAssumption
    PROVE  RunSpec => []TerminalIsEvidenced
<1>1. CoordinatorInv => TerminalIsEvidenced
  BY DEF CoordinatorInv
<1> QED
  BY <1>1, CoordinatorInvHolds, PTL

(* No call that still runs, whatever it has read, changes a terminal row. *)
THEOREM TerminalRowsAreFinal ==
    ASSUME RunAssumption
    PROVE  RunSpec => TerminalIsFinal
<1>1. CoordinatorInv /\ [RunNext]_runVars => [TerminalIsFinalStep]_runVars
  <2> SUFFICES ASSUME CoordinatorInv, [RunNext]_runVars, checkpoint.state = "terminal"
               PROVE  checkpoint' = checkpoint
    BY DEF TerminalIsFinalStep
  <2>1. "terminal" \in Stored /\ checkpoint # NoRow
    BY DEF Stored, NoRow
  <2> QED
    BY <2>1, RowStep, TransitionFacts
<1> QED
  BY <1>1, CoordinatorInvHolds, PTL DEF RunSpec, TerminalIsFinal

(* A run becomes terminal only from verification or compensation, with the *)
(* receipt of a dry run or of a call that started the orchestrator.        *)
THEOREM TerminalsWereVerified ==
    ASSUME RunAssumption
    PROVE  RunSpec => TerminalWasVerified
<1>1. CoordinatorInv /\ [RunNext]_runVars => [TerminalWasVerifiedStep]_runVars
  <2> SUFFICES ASSUME CoordinatorInv, [RunNext]_runVars, checkpoint'.state = "terminal",
                      checkpoint.state # "terminal"
               PROVE  /\ checkpoint.state \in {"verifying", "compensating"}
                      /\ \A r \in checkpoint'.result : r.dry \/ r.by \in started
    BY DEF TerminalWasVerifiedStep
  <2>1. PICK p \in Procs : End(p)
    BY OnlyEndEnds
  <2> QED
    BY <2>1, EndFacts
<1> QED
  BY <1>1, CoordinatorInvHolds, PTL DEF RunSpec, TerminalWasVerified


-----------------------------------------------------------------------------
(* The engineering review.                                                  *)
ReviewTypes ==
    /\ phase \in {"load", "run", "render", "done"}
    /\ exit \in {-1, 0, 1, 2}
    /\ (phase = "done") = (exit # -1)
    /\ DOMAIN payload = DOMAIN state /\ DOMAIN seen = DOMAIN state
    /\ \A a \in DOMAIN state :
        state[a] \in {"PLANNED", "VERIFIED", "FAILED", "INDETERMINATE", "SKIPPED"}

\* What is reported on is what the configuration that loaded plans.
PlanIsLoaded ==
    /\ (phase \in {"run", "render"} \/ bundle # None) =>
          settings \in Configurations /\ SettingsLoad(settings) /\ DOMAIN state = Planned
    /\ WorldKnown(world)

\* What is still to do was not done before.
TodoIsPlanned ==
    /\ todo \in Seq(DOMAIN state) /\ IsInjective(todo)
    /\ (phase = "run") = (todo # <<>>)
    /\ \A k \in DOMAIN todo : state[todo[k]] = "PLANNED"

DependenciesVerified(a) == \A d \in Dependency(a) : d \in DOMAIN state /\ state[d] = "VERIFIED"

\* The answer in hand is that of the first read of the action at hand.
HeldWasRead ==
    held # None =>
        /\ todo # <<>>
        /\ seen[Action] = <<seen[Action][1]>> /\ held = Answer(Action, seen[Action][1])
        /\ WorldKnown(seen[Action][1])
        /\ DependenciesVerified(Action)

\* A verified action was answered alike twice, after what it depends on.
ReadTwice(a) ==
    /\ seen[a] = <<seen[a][1], seen[a][2]>> /\ WorldKnown(seen[a][1])
    /\ payload[a] = Answer(a, seen[a][1]) /\ payload[a] = Answer(a, seen[a][2])
    /\ DependenciesVerified(a)
VerifiedWasRead == \A a \in DOMAIN state : state[a] = "VERIFIED" => ReadTwice(a)

\* The bundle is what the report renders to, and it stays so.
BundleIsRendered ==
    /\ bundle # None => phase = "done" /\ bundle = Rendered
    /\ exit = 0 => bundle # None /\ ClassifyOutcome = "complete"

ReviewInv ==
    /\ ReviewTypes /\ PlanIsLoaded /\ TodoIsPlanned /\ HeldWasRead /\ VerifiedWasRead
    /\ BundleIsRendered

LEMMA InjectiveConcat ==
    ASSUME NEW S, NEW s \in Seq(S), NEW t \in Seq(S), IsInjective(s), IsInjective(t),
           Range(s) \cap Range(t) = {}
    PROVE  /\ s \o t \in Seq(S) /\ IsInjective(s \o t) /\ Range(s \o t) = Range(s) \cup Range(t)
<1> DEFINE u == s \o t
<1>1. /\ u \in Seq(S) /\ Len(u) = Len(s) + Len(t) /\ Len(s) \in Nat /\ Len(t) \in Nat
      /\ \A k \in 1 .. (Len(s) + Len(t)) : u[k] = IF k <= Len(s) THEN s[k] ELSE t[k - Len(s)]
  BY ConcatProperties
<1>2. DOMAIN u = 1 .. (Len(s) + Len(t)) /\ DOMAIN s = 1 .. Len(s) /\ DOMAIN t = 1 .. Len(t)
  BY <1>1
<1> HIDE DEF u
<1>3. IsInjective(u)
  <2> SUFFICES ASSUME NEW a \in DOMAIN u, NEW b \in DOMAIN u, u[a] = u[b] PROVE a = b
    BY DEF IsInjective
  <2>1. CASE a <= Len(s) /\ b <= Len(s) BY <1>1, <1>2, <2>1 DEF IsInjective
  <2>2. CASE a > Len(s) /\ b > Len(s)
    <3>1. u[a] = t[a - Len(s)] /\ u[b] = t[b - Len(s)] BY <1>1, <1>2, <2>2
    <3>2. a - Len(s) \in DOMAIN t /\ b - Len(s) \in DOMAIN t BY <1>1, <1>2, <2>2
    <3>3. a - Len(s) = b - Len(s) BY <3>1, <3>2 DEF IsInjective
    <3> QED BY <1>1, <1>2, <3>3
  <2>3. CASE a <= Len(s) /\ b > Len(s)
    <3>1. u[a] \in Range(s) BY <1>1, <1>2, <2>3 DEF Range
    <3>2. u[b] = t[b - Len(s)] /\ b - Len(s) \in DOMAIN t BY <1>1, <1>2, <2>3
    <3>3. u[b] \in Range(t) BY <3>2 DEF Range
    <3> QED BY <3>1, <3>3
  <2>4. CASE a > Len(s) /\ b <= Len(s)
    <3>1. u[b] \in Range(s) BY <1>1, <1>2, <2>4 DEF Range
    <3>2. u[a] = t[a - Len(s)] /\ a - Len(s) \in DOMAIN t BY <1>1, <1>2, <2>4
    <3>3. u[a] \in Range(t) BY <3>2 DEF Range
    <3> QED BY <3>1, <3>3
  <2> QED BY <1>1, <1>2, <2>1, <2>2, <2>3, <2>4
<1>4. Range(u) \subseteq Range(s) \cup Range(t)
  <2> SUFFICES ASSUME NEW k \in DOMAIN u PROVE u[k] \in Range(s) \cup Range(t) BY DEF Range
  <2>1. CASE k <= Len(s) BY <1>1, <1>2, <2>1 DEF Range
  <2>2. CASE k > Len(s)
    <3>1. u[k] = t[k - Len(s)] /\ k - Len(s) \in DOMAIN t BY <1>1, <1>2, <2>2
    <3> QED BY <3>1 DEF Range
  <2> QED BY <1>1, <1>2, <2>1, <2>2
<1>5. Range(s) \subseteq Range(u)
  <2> SUFFICES ASSUME NEW k \in DOMAIN s PROVE s[k] \in Range(u) BY DEF Range
  <2>1. k \in DOMAIN u /\ u[k] = s[k] BY <1>1, <1>2
  <2> QED BY <2>1 DEF Range
<1>6. Range(t) \subseteq Range(u)
  <2> SUFFICES ASSUME NEW k \in DOMAIN t PROVE t[k] \in Range(u) BY DEF Range
  <2>1. k + Len(s) \in DOMAIN u /\ k + Len(s) > Len(s) /\ (k + Len(s)) - Len(s) = k BY <1>1, <1>2
  <2>2. u[k + Len(s)] = t[k] BY <1>1, <1>2, <2>1
  <2> QED BY <2>1, <2>2 DEF Range
<1> QED BY <1>1, <1>3, <1>4, <1>5, <1>6 DEF u

\* _workflow_actions plans every read once.
LEMMA ActionsArePlannedOnce ==
    ASSUME ReviewAssumption, NEW s \in Configurations, SettingsLoad(s)
    PROVE  /\ WorkflowActions(s) \in Seq(Range(WorkflowActions(s)))
           /\ WorkflowActions(s) # <<>>
           /\ IsInjective(WorkflowActions(s))
           /\ Range(WorkflowActions(s)) =
                  Core \cup (IF s.diffstat THEN {"diffstat"} ELSE {}) \cup Range(s.pages)
           /\ Range(s.pages) \cap (Core \cup {"diffstat"}) = {}
<1> DEFINE S == Core \cup {"diffstat"} \cup PageIds
           c == <<"jira", "repository", "pull_request", "build">>
           d == IF s.diffstat THEN <<"diffstat">> ELSE <<>>
<1>1. c \in Seq(S) /\ IsInjective(c) /\ Range(c) = Core /\ Len(c) = 4
  BY DEF Core, IsInjective, Range
<1>2. /\ d \in Seq(S) /\ IsInjective(d)
      /\ Range(d) = IF s.diffstat THEN {"diffstat"} ELSE {}
  <2>1. CASE s.diffstat BY <2>1 DEF IsInjective, Range
  <2>2. CASE ~s.diffstat BY <2>2 DEF IsInjective, Range
  <2> QED BY <2>1, <2>2
<1>3. s.pages \in Seq(S) /\ IsInjective(s.pages)
  <2>1. s.pages \in Seq(PageIds) /\ IsInjective(s.pages) BY DEF ReviewAssumption, SettingsLoad
  <2>2. PageIds \subseteq S OBVIOUS
  <2> HIDE DEF S
  <2> QED BY <2>1, <2>2
<1>4. Range(s.pages) \subseteq PageIds BY DEF ReviewAssumption, Range
<1>5. Range(s.pages) \cap (Core \cup {"diffstat"}) = {} BY <1>4 DEF ReviewAssumption, Core
<1>6. Range(c) \cap Range(d) = {} BY <1>1, <1>2 DEF Core
<1>7. WorkflowActions(s) = (c \o d) \o s.pages BY DEF WorkflowActions
<1> HIDE DEF c, d, S
<1>8. /\ c \o d \in Seq(S) /\ IsInjective(c \o d) /\ Range(c \o d) = Range(c) \cup Range(d)
  BY <1>1, <1>2, <1>6, InjectiveConcat
<1>9. Range(c \o d) \cap Range(s.pages) = {} BY <1>1, <1>2, <1>5, <1>8
<1>10. /\ WorkflowActions(s) \in Seq(S) /\ IsInjective(WorkflowActions(s))
       /\ Range(WorkflowActions(s)) = Range(c \o d) \cup Range(s.pages)
  <2> DEFINE e == c \o d
             t == s.pages
  <2>1. /\ e \in Seq(S) /\ IsInjective(e) /\ Range(e) \cap Range(t) = {} /\ WorkflowActions(s) = e \o t
        /\ t \in Seq(S) /\ IsInjective(t)
    BY <1>3, <1>7, <1>8, <1>9
  <2> HIDE DEF e, t
  <2>2. /\ e \o t \in Seq(S) /\ IsInjective(e \o t) /\ Range(e \o t) = Range(e) \cup Range(t)
    BY <2>1, InjectiveConcat
  <2> QED BY <2>1, <2>2 DEF e, t
<1>11. WorkflowActions(s) # <<>>
  <2>1. "jira" \in Range(WorkflowActions(s)) BY <1>1, <1>8, <1>10 DEF Core
  <2> QED BY <2>1 DEF Range
<1>12. WorkflowActions(s) \in Seq(Range(WorkflowActions(s)))
  <2> DEFINE u == WorkflowActions(s)
  <2>1. u \in Seq(S) BY <1>10
  <2> HIDE DEF u
  <2>2. \A k \in 1 .. Len(u) : u[k] \in Range(u) BY <2>1 DEF Range
  <2>3. u \in Seq(Range(u)) BY <2>1, <2>2
  <2> QED BY <2>3 DEF u
<1> QED BY <1>1, <1>2, <1>5, <1>8, <1>10, <1>11, <1>12

LEMMA AnswerIsSome == \A a, w : Answer(a, w) # None
<1> SUFFICES ASSUME NEW a, NEW w PROVE Answer(a, w) # None OBVIOUS
<1>1. "none" \notin DOMAIN Answer(a, w)
  <2>1. CASE a = "jira" BY <2>1 DEF Answer
  <2>2. CASE a = "repository" BY <2>2 DEF Answer
  <2>3. CASE a = "pull_request" BY <2>3 DEF Answer
  <2>4. CASE a = "build" BY <2>4 DEF Answer
  <2>5. CASE a = "diffstat" BY <2>5 DEF Answer
  <2>6. CASE a \notin {"jira", "repository", "pull_request", "build", "diffstat"} BY <2>6 DEF Answer
  <2> QED BY <2>1, <2>2, <2>3, <2>4, <2>5, <2>6
<1> QED BY <1>1 DEF None

\* The action at hand, which was not reported on before.
LEMMA AtHand ==
    ASSUME ReviewInv, phase = "run"
    PROVE  /\ Action \in DOMAIN state /\ state[Action] = "PLANNED" /\ Action = todo[1]
           /\ Tail(todo) \in Seq(DOMAIN state) /\ IsInjective(Tail(todo))
           /\ (Tail(todo) = <<>>) = (Len(todo) = 1)
           /\ \A k \in DOMAIN Tail(todo) : /\ Tail(todo)[k] # Action
                                           /\ state[Tail(todo)[k]] = "PLANNED"
<1>1. todo \in Seq(DOMAIN state) /\ todo # <<>> /\ IsInjective(todo)
  BY DEF ReviewInv, TodoIsPlanned
<1>2. Len(todo) \in Nat /\ Len(todo) > 0 /\ DOMAIN todo = 1 .. Len(todo) BY <1>1
<1>3. 1 \in DOMAIN todo /\ Action = todo[1] BY <1>1, <1>2 DEF Action
<1> DEFINE t == Tail(todo)
<1>4. /\ t \in Seq(DOMAIN state) /\ Len(t) = Len(todo) - 1
      /\ \A k \in 1 .. Len(t) : t[k] = todo[k + 1]
  BY <1>1, HeadTailProperties
<1> HIDE DEF t
<1>5. DOMAIN t = 1 .. Len(t) /\ (t = <<>>) = (Len(todo) = 1) BY <1>2, <1>4
<1>6. \A k \in DOMAIN t : k + 1 \in DOMAIN todo /\ k + 1 # 1 BY <1>2, <1>4, <1>5
<1>7. \A k \in DOMAIN t : t[k] # Action BY <1>1, <1>3, <1>4, <1>5, <1>6 DEF IsInjective
<1>8. IsInjective(t)
  <2> SUFFICES ASSUME NEW a \in DOMAIN t, NEW b \in DOMAIN t, t[a] = t[b] PROVE a = b
    BY DEF IsInjective
  <2>1. todo[a + 1] = todo[b + 1] BY <1>4, <1>5
  <2>2. a + 1 = b + 1 BY <1>1, <1>6, <2>1 DEF IsInjective
  <2> QED BY <1>4, <1>5, <2>2
<1>9. \A k \in DOMAIN t : state[t[k]] = "PLANNED"
  BY <1>4, <1>5, <1>6 DEF ReviewInv, TodoIsPlanned
<1>10. Action \in DOMAIN state /\ state[Action] = "PLANNED"
  BY <1>1, <1>2, <1>3 DEF ReviewInv, TodoIsPlanned
<1> QED BY <1>3, <1>4, <1>5, <1>7, <1>8, <1>9, <1>10 DEF t

LEMMA ReportingKeeps ==
    ASSUME ReviewInv, phase = "run", NEW a, a = Action, NEW st, NEW result, Report(st, result),
           UNCHANGED <<world, settings, bundle, exit>>,
           DOMAIN seen' = DOMAIN seen, \A b \in DOMAIN seen \ {a} : seen'[b] = seen[b],
           st \in {"VERIFIED", "FAILED", "INDETERMINATE", "SKIPPED"},
           st = "VERIFIED" =>
              /\ seen'[a] = <<seen'[a][1], seen'[a][2]>> /\ WorldKnown(seen'[a][1])
              /\ result = Answer(a, seen'[a][1]) /\ result = Answer(a, seen'[a][2])
              /\ DependenciesVerified(a)
    PROVE  ReviewInv'
<1>1. /\ a \in DOMAIN state /\ state[a] = "PLANNED"
      /\ Tail(todo) \in Seq(DOMAIN state) /\ IsInjective(Tail(todo))
      /\ (Tail(todo) = <<>>) = (Len(todo) = 1)
      /\ \A k \in DOMAIN Tail(todo) : Tail(todo)[k] # a /\ state[Tail(todo)[k]] = "PLANNED"
  BY AtHand
<1>2. /\ state' = [state EXCEPT ![a] = st] /\ payload' = [payload EXCEPT ![a] = result]
      /\ held' = None /\ todo' = Tail(todo)
      /\ phase' = IF Len(todo) = 1 THEN "render" ELSE "run"
  BY DEF Report
<1>3. bundle = None /\ exit = -1 BY DEF ReviewInv, BundleIsRendered, ReviewTypes
<1>4. /\ DOMAIN payload = DOMAIN state /\ DOMAIN seen = DOMAIN state
      /\ \A b \in DOMAIN state :
            state[b] \in {"PLANNED", "VERIFIED", "FAILED", "INDETERMINATE", "SKIPPED"}
  BY DEF ReviewInv, ReviewTypes
<1>5. /\ DOMAIN state' = DOMAIN state /\ DOMAIN payload' = DOMAIN state /\ DOMAIN seen' = DOMAIN state
      /\ state'[a] = st /\ payload'[a] = result
      /\ \A b \in DOMAIN state \ {a} : state'[b] = state[b] /\ payload'[b] = payload[b]
                                       /\ seen'[b] = seen[b]
  BY <1>1, <1>2, <1>4
<1>6. ReviewTypes' BY <1>2, <1>3, <1>4, <1>5 DEF ReviewTypes
<1>7. PlanIsLoaded' BY <1>5 DEF ReviewInv, PlanIsLoaded, Planned
<1>8. TodoIsPlanned'
  <2>1. \A k \in DOMAIN todo' : state'[todo'[k]] = "PLANNED"
    <3> SUFFICES ASSUME NEW k \in DOMAIN Tail(todo) PROVE state'[Tail(todo)[k]] = "PLANNED" BY <1>2
    <3>1. Tail(todo)[k] \in DOMAIN state BY <1>1
    <3> QED BY <1>1, <1>5, <3>1
  <2> QED BY <1>1, <1>2, <1>5, <2>1 DEF TodoIsPlanned
<1>9. HeldWasRead' BY <1>2 DEF HeldWasRead
<1>10. ASSUME NEW b, DependenciesVerified(b) PROVE DependenciesVerified(b)'
  BY <1>1, <1>5, <1>10 DEF DependenciesVerified
<1>11. ASSUME NEW b \in DOMAIN state, state'[b] = "VERIFIED" PROVE ReadTwice(b)'
  <2>1. CASE b = a BY <1>5, <1>10, <1>11, <2>1 DEF ReadTwice
  <2>2. CASE b # a BY <1>5, <1>10, <1>11, <2>2 DEF ReviewInv, VerifiedWasRead, ReadTwice
  <2> QED BY <2>1, <2>2
<1>12. VerifiedWasRead' BY <1>5, <1>11 DEF VerifiedWasRead
<1>13. BundleIsRendered' BY <1>3 DEF BundleIsRendered
<1> QED BY <1>6, <1>7, <1>8, <1>9, <1>12, <1>13 DEF ReviewInv

LEMMA InitIsReview == ASSUME ReviewAssumption, ReviewInit PROVE ReviewInv
<1> USE DEF ReviewInit
<1>1. ReviewTypes BY DEF ReviewTypes
<1>2. PlanIsLoaded BY DEF PlanIsLoaded, ReviewAssumption
<1>3. TodoIsPlanned BY DEF TodoIsPlanned, IsInjective
<1>4. HeldWasRead /\ VerifiedWasRead /\ BundleIsRendered
  BY DEF HeldWasRead, VerifiedWasRead, BundleIsRendered
<1> QED BY <1>1, <1>2, <1>3, <1>4 DEF ReviewInv

LEMMA LoadKeeps == ASSUME ReviewAssumption, ReviewInv, Load PROVE ReviewInv'
<1>0. /\ phase = "load" /\ world' = world /\ held' = held /\ bundle' = bundle BY DEF Load
<1>1. exit = -1 /\ bundle = None /\ held = None
  BY <1>0 DEF ReviewInv, ReviewTypes, BundleIsRendered, HeldWasRead, TodoIsPlanned
<1>2. PICK s \in Configurations, i \in Integrations :
        /\ settings' = s
        /\ IF SettingsLoad(s) /\ IntegrationsMatch(s, i)
           THEN /\ todo' = WorkflowActions(s)
                /\ state' = [a \in Range(WorkflowActions(s)) |-> "PLANNED"]
                /\ payload' = [a \in Range(WorkflowActions(s)) |-> None]
                /\ seen' = [a \in Range(WorkflowActions(s)) |-> <<>>]
                /\ phase' = "run" /\ UNCHANGED exit
           ELSE Stop(2) /\ UNCHANGED <<todo, state, payload, seen>>
  BY DEF Load
<1>3. CASE SettingsLoad(s) /\ IntegrationsMatch(s, i)
  <2> DEFINE W == WorkflowActions(s)
  <2>1. /\ W \in Seq(Range(W)) /\ W # <<>> /\ IsInjective(W)
    BY <1>3, ActionsArePlannedOnce
  <2>2. /\ todo' = W /\ settings' = s
        /\ DOMAIN state' = Range(W) /\ DOMAIN payload' = Range(W) /\ DOMAIN seen' = Range(W)
        /\ \A a \in Range(W) : state'[a] = "PLANNED"
        /\ phase' = "run" /\ exit' = exit
    BY <1>2, <1>3
  <2> HIDE DEF W
  <2>3. ReviewTypes' BY <1>1, <2>2 DEF ReviewTypes
  <2>4. PlanIsLoaded' BY <1>0, <1>3, <2>2 DEF ReviewInv, PlanIsLoaded, Planned, W
  <2>5. TodoIsPlanned'
    <3>1. \A k \in DOMAIN W : W[k] \in Range(W) BY DEF Range
    <3> QED BY <2>1, <2>2, <3>1 DEF TodoIsPlanned
  <2>6. HeldWasRead' /\ BundleIsRendered' BY <1>0, <1>1, <2>2 DEF HeldWasRead, BundleIsRendered
  <2>7. VerifiedWasRead' BY <2>2 DEF VerifiedWasRead
  <2> QED BY <2>3, <2>4, <2>5, <2>6, <2>7 DEF ReviewInv
<1>4. CASE ~(SettingsLoad(s) /\ IntegrationsMatch(s, i))
  <2>1. /\ phase' = "done" /\ exit' = 2 /\ todo' = todo /\ state' = state /\ payload' = payload
        /\ seen' = seen
    BY <1>2, <1>4 DEF Stop
  <2>2. ReviewTypes' BY <2>1 DEF ReviewInv, ReviewTypes
  <2>3. PlanIsLoaded' BY <1>0, <1>1, <2>1 DEF ReviewInv, PlanIsLoaded
  <2>4. TodoIsPlanned' BY <1>0, <2>1 DEF ReviewInv, TodoIsPlanned
  <2>5. HeldWasRead' /\ BundleIsRendered' BY <1>0, <1>1, <2>1 DEF HeldWasRead, BundleIsRendered
  <2>6. VerifiedWasRead'
    BY <2>1 DEF ReviewInv, VerifiedWasRead, ReadTwice, DependenciesVerified
  <2> QED BY <2>2, <2>3, <2>4, <2>5, <2>6 DEF ReviewInv
<1> QED BY <1>3, <1>4

LEMMA SkipKeeps == ASSUME ReviewInv, Skip PROVE ReviewInv'
BY ReportingKeeps DEF Skip

LEMMA ExecuteFailsKeeps == ASSUME ReviewInv, ExecuteFails PROVE ReviewInv'
BY ReportingKeeps DEF ExecuteFails

LEMMA VerifyFailsKeeps == ASSUME ReviewInv, VerifyFails PROVE ReviewInv'
BY ReportingKeeps DEF VerifyFails

LEMMA CoreIsPlanned ==
    ASSUME ReviewAssumption, ReviewInv, phase \in {"run", "render"} \/ bundle # None
    PROVE  /\ Core \subseteq DOMAIN state /\ DOMAIN state = Planned
           /\ Planned = Core \cup (IF settings.diffstat THEN {"diffstat"} ELSE {}) \cup PageActions
           /\ PageActions \cap (Core \cup {"diffstat"}) = {}
           /\ \A a : Dependency(a) \subseteq Core
<1>1. settings \in Configurations /\ SettingsLoad(settings) /\ DOMAIN state = Planned
  BY DEF ReviewInv, PlanIsLoaded
<1>2. /\ Planned = Core \cup (IF settings.diffstat THEN {"diffstat"} ELSE {}) \cup PageActions
      /\ PageActions \cap (Core \cup {"diffstat"}) = {}
  BY <1>1, ActionsArePlannedOnce DEF Planned, PageActions
<1>3. ASSUME NEW a PROVE Dependency(a) \subseteq Core
  <2>1. CASE a = "jira" BY <2>1 DEF Dependency
  <2>2. CASE a = "repository" BY <2>2 DEF Dependency, Core
  <2>3. CASE a = "pull_request" BY <2>3 DEF Dependency, Core
  <2>4. CASE a \in {"build", "diffstat"} BY <2>4 DEF Dependency, Core
  <2>5. CASE a \notin {"jira", "repository", "pull_request", "build", "diffstat"}
    BY <2>5 DEF Dependency, Core
  <2> QED BY <2>1, <2>2, <2>3, <2>4, <2>5
<1> QED BY <1>1, <1>2, <1>3

LEMMA ExecuteKeeps == ASSUME ReviewAssumption, ReviewInv, Execute PROVE ReviewInv'
<1>0. /\ phase = "run" /\ held' = Answer(Action, world)
      /\ seen' = [seen EXCEPT ![Action] = <<world>>]
      /\ \A d \in Dependency(Action) : state[d] = "VERIFIED"
      /\ UNCHANGED <<world, phase, settings, todo, state, payload, bundle, exit>>
  BY DEF Execute
<1>1. Action \in DOMAIN state /\ state[Action] = "PLANNED" BY <1>0, AtHand
<1>2. DOMAIN seen = DOMAIN state BY DEF ReviewInv, ReviewTypes
<1>3. /\ DOMAIN seen' = DOMAIN state /\ seen'[Action] = <<world>>
      /\ \A a \in DOMAIN state \ {Action} : seen'[a] = seen[a]
  BY <1>0, <1>1, <1>2
<1>4. Action' = Action /\ todo # <<>> BY <1>0 DEF Action, ReviewInv, TodoIsPlanned
<1>5. ReviewTypes' BY <1>0, <1>3 DEF ReviewInv, ReviewTypes
<1>6. PlanIsLoaded' /\ TodoIsPlanned' BY <1>0 DEF ReviewInv, PlanIsLoaded, TodoIsPlanned, Planned
<1>7. bundle = None /\ exit = -1 BY <1>0 DEF ReviewInv, BundleIsRendered, ReviewTypes
<1>8. BundleIsRendered' BY <1>0, <1>7 DEF BundleIsRendered
<1>9. \A a : DependenciesVerified(a) => DependenciesVerified(a)' BY <1>0 DEF DependenciesVerified
<1>10. HeldWasRead'
  <2>1. WorldKnown(world) BY DEF ReviewInv, PlanIsLoaded
  <2>2. DependenciesVerified(Action) BY <1>0, CoreIsPlanned DEF DependenciesVerified
  <2>3. ASSUME NEW a, a = Action
        PROVE  /\ seen'[a] = <<seen'[a][1]>> /\ held' = Answer(a, seen'[a][1])
               /\ WorldKnown(seen'[a][1]) /\ DependenciesVerified(a)'
    BY <1>0, <1>3, <1>9, <2>1, <2>2, <2>3
  <2> QED BY <1>0, <1>4, <2>3 DEF HeldWasRead
<1>11. VerifiedWasRead'
  <2> SUFFICES ASSUME NEW a \in DOMAIN state, state[a] = "VERIFIED" PROVE ReadTwice(a)'
    BY <1>0 DEF VerifiedWasRead
  <2>1. ReadTwice(a) BY DEF ReviewInv, VerifiedWasRead
  <2>2. a # Action BY <1>1
  <2> QED BY <1>0, <1>3, <1>9, <2>1, <2>2 DEF ReadTwice
<1> QED BY <1>5, <1>6, <1>8, <1>10, <1>11 DEF ReviewInv

LEMMA VerifyKeeps == ASSUME ReviewInv, Verify PROVE ReviewInv'
<1>0. /\ phase = "run" /\ held # None
      /\ \/ Answer(Action, world) = held /\ Report("VERIFIED", held)
         \/ Report("INDETERMINATE", None)
      /\ seen' = [seen EXCEPT ![Action] = Append(@, world)]
      /\ UNCHANGED <<world, settings, bundle, exit>>
  BY DEF Verify
<1>1. Action \in DOMAIN state BY <1>0, AtHand
<1>2. DOMAIN seen = DOMAIN state BY DEF ReviewInv, ReviewTypes
<1> DEFINE a == Action
           v == seen[a][1]
<1>3. /\ seen[a] = <<v>> /\ held = Answer(a, v) /\ WorldKnown(v) /\ DependenciesVerified(a)
  BY <1>0 DEF ReviewInv, HeldWasRead
<1> HIDE DEF v
<1>4. /\ DOMAIN seen' = DOMAIN seen /\ seen'[a] = <<v, world>>
      /\ \A b \in DOMAIN seen \ {a} : seen'[b] = seen[b]
  <2>1. /\ DOMAIN seen' = DOMAIN seen /\ seen'[a] = Append(seen[a], world)
        /\ \A b \in DOMAIN seen \ {a} : seen'[b] = seen[b]
    <3>1. seen' = [seen EXCEPT ![a] = Append(seen[a], world)] BY <1>0
    <3>2. a \in DOMAIN seen BY <1>1, <1>2
    <3> HIDE DEF a
    <3> QED BY <3>1, <3>2
  <2>2. \A x, y : Append(<<x>>, y) = <<x, y>>
    <3> SUFFICES ASSUME NEW x, NEW y PROVE Append(<<x>>, y) = <<x, y>> OBVIOUS
    <3>1. <<x>> \in Seq({x, y}) /\ <<x, y>> \in Seq({x, y}) /\ y \in {x, y} OBVIOUS
    <3>2. /\ Append(<<x>>, y) \in Seq({x, y}) /\ Len(Append(<<x>>, y)) = 2
          /\ Append(<<x>>, y)[1] = x /\ Append(<<x>>, y)[2] = y
      BY <3>1, AppendProperties
    <3>3. Len(<<x, y>>) = 2 /\ \A k \in 1 .. 2 : Append(<<x>>, y)[k] = <<x, y>>[k] BY <3>2
    <3> QED BY <3>1, <3>2, <3>3, SeqEqual
  <2> HIDE DEF a
  <2> QED BY <1>3, <2>1, <2>2
<1>5. /\ seen'[a] = <<seen'[a][1], seen'[a][2]>> /\ seen'[a][1] = v /\ seen'[a][2] = world
  BY <1>4
<1> HIDE DEF a
<1>6. a = Action BY DEF a
<1>7. CASE Answer(a, world) = held /\ Report("VERIFIED", held)
  BY <1>0, <1>3, <1>4, <1>5, <1>6, <1>7, ReportingKeeps
<1>8. CASE Report("INDETERMINATE", None) BY <1>0, <1>4, <1>6, <1>8, ReportingKeeps
<1> QED BY <1>0, <1>6, <1>7, <1>8

LEMMA SameRendering ==
    ASSUME UNCHANGED <<settings, state, payload>>
    PROVE  Rendered' = Rendered /\ ClassifyOutcome' = ClassifyOutcome
<1>0. settings' = settings /\ state' = state /\ payload' = payload OBVIOUS
<1>1. Planned' = Planned /\ PageActions' = PageActions BY <1>0 DEF Planned, PageActions
<1>2. Verified' = Verified BY <1>0, <1>1 DEF Verified
<1>3. EvidenceStaleness' = EvidenceStaleness
  BY <1>0, <1>1, <1>2 DEF EvidenceStaleness, IssueIsExact, RepositoryIsExact, PullRequestIsExact,
     BuildIsExact, DiffstatIsExact, PageIsExact, BuildIsOfHead, DiffstatIsOfRange
<1>4. Reportable' = Reportable BY <1>2, <1>3 DEF Reportable
<1>5. RelationAmbiguities' = RelationAmbiguities BY <1>0, <1>1, <1>4 DEF RelationAmbiguities
<1>6. FailureRecords' = FailureRecords BY <1>0, <1>1, <1>2, <1>3 DEF FailureRecords
<1>7. ClassifyOutcome' = ClassifyOutcome
  BY <1>0, <1>1, <1>2, <1>3, <1>5 DEF ClassifyOutcome, IsStale
<1>8. Findings' = Findings BY <1>0, <1>1, <1>3, <1>4, <1>5 DEF Findings
<1>9. RenderMarkdown' = RenderMarkdown BY <1>4 DEF RenderMarkdown
<1> QED BY <1>0, <1>4, <1>5, <1>6, <1>7, <1>8, <1>9 DEF Rendered

\* A step that leaves the report alone and does not publish.
LEMMA FinishingKeeps ==
    ASSUME ReviewInv, phase \in {"render", "done"}, phase' = "done", exit' \in {0, 1, 2},
           UNCHANGED <<world, settings, todo, held, state, payload, seen>>,
           bundle' \in {bundle, Rendered},
           phase = "render" /\ bundle' = bundle => exit' # 0, phase = "done" => exit' = exit,
           phase = "render" /\ exit' = 0 => bundle' # None /\ ClassifyOutcome = "complete",
           phase = "done" => bundle' = bundle
    PROVE  ReviewInv'
<1>1. ReviewTypes' BY DEF ReviewInv, ReviewTypes
<1>2. PlanIsLoaded' BY DEF ReviewInv, PlanIsLoaded, Planned
<1>3. TodoIsPlanned' /\ HeldWasRead'
  BY DEF ReviewInv, TodoIsPlanned, HeldWasRead, Action, DependenciesVerified
<1>4. VerifiedWasRead' BY DEF ReviewInv, VerifiedWasRead, ReadTwice, DependenciesVerified
<1>5. BundleIsRendered'
  <2>1. Rendered' = Rendered /\ ClassifyOutcome' = ClassifyOutcome BY SameRendering
  <2> QED BY <2>1 DEF ReviewInv, BundleIsRendered
<1> QED BY <1>1, <1>2, <1>3, <1>4, <1>5 DEF ReviewInv

LEMMA PublishKeeps == ASSUME ReviewInv, Publish \/ PublishFails PROVE ReviewInv'
<1>1. Rendered # None
  <2>1. "none" \notin DOMAIN Rendered BY DEF Rendered
  <2> QED BY <2>1 DEF None
<1>2. CASE Publish
  <2>1. ExitStatus(Rendered, Successful) \in {0, 2} BY DEF ExitStatus
  <2>2. ExitStatus(Rendered, Successful) = 0 => Rendered.outcome = "complete" BY DEF ExitStatus
  <2>3. Rendered.outcome = ClassifyOutcome BY DEF Rendered
  <2>4. bundle = None BY <1>2 DEF Publish, ReviewInv, BundleIsRendered
  <2> QED BY <1>1, <1>2, <2>1, <2>2, <2>3, <2>4, FinishingKeeps DEF Publish, Stop
<1>3. CASE PublishFails BY <1>3, FinishingKeeps DEF PublishFails, Stop
<1> QED BY <1>2, <1>3

LEMMA EditKeeps == ASSUME ReviewInv, Edit PROVE ReviewInv'
<1>0. /\ phase = "run"
      /\ UNCHANGED <<phase, settings, todo, held, state, payload, bundle, exit, seen>>
  BY DEF Edit
<1>1. WorldKnown(world')
  <2>0. WorldKnown(world) BY DEF ReviewInv, PlanIsLoaded
  <2>1. DOMAIN world' = DOMAIN world /\ world'.relations = world.relations
    BY <2>0 DEF Edit, WorldKnown
  <2> QED BY <2>0, <2>1 DEF WorldKnown
<1>2. ReviewTypes' BY <1>0 DEF ReviewInv, ReviewTypes
<1>3. PlanIsLoaded' BY <1>0, <1>1 DEF ReviewInv, PlanIsLoaded, Planned
<1>4. TodoIsPlanned' /\ HeldWasRead'
  BY <1>0 DEF ReviewInv, TodoIsPlanned, HeldWasRead, Action, DependenciesVerified
<1>5. VerifiedWasRead' BY <1>0 DEF ReviewInv, VerifiedWasRead, ReadTwice, DependenciesVerified
<1>6. bundle = None /\ exit = -1 BY <1>0 DEF ReviewInv, BundleIsRendered, ReviewTypes
<1>7. BundleIsRendered' BY <1>0, <1>6 DEF BundleIsRendered
<1> QED BY <1>2, <1>3, <1>4, <1>5, <1>7 DEF ReviewInv

LEMMA StutterReview == ASSUME ReviewInv, UNCHANGED reviewVars PROVE ReviewInv'
<1>0. UNCHANGED <<world, phase, settings, todo, held, state, payload, bundle, exit, seen>>
  BY DEF reviewVars
<1>2. ReviewTypes' BY <1>0 DEF ReviewInv, ReviewTypes
<1>3. PlanIsLoaded' BY <1>0 DEF ReviewInv, PlanIsLoaded, Planned
<1>4. TodoIsPlanned' /\ HeldWasRead'
  BY <1>0 DEF ReviewInv, TodoIsPlanned, HeldWasRead, Action, DependenciesVerified
<1>5. VerifiedWasRead' BY <1>0 DEF ReviewInv, VerifiedWasRead, ReadTwice, DependenciesVerified
<1>6. Rendered' = Rendered /\ ClassifyOutcome' = ClassifyOutcome BY <1>0, SameRendering
<1>7. BundleIsRendered' BY <1>0, <1>6 DEF ReviewInv, BundleIsRendered
<1> QED BY <1>2, <1>3, <1>4, <1>5, <1>7 DEF ReviewInv

\* What is reportable was read twice and is of the configured resource.
LEMMA ReportableIsExact ==
    ASSUME ReviewAssumption, ReviewInv, bundle # None
    PROVE  /\ Reportable \subseteq Verified /\ Verified \subseteq Planned
           /\ \A a \in Verified : ReadTwice(a)
           /\ \A a \in Verified : Dependency(a) \subseteq Verified
           /\ "jira" \in Reportable => payload["jira"].key = IssueKey
           /\ "repository" \in Reportable => payload["repository"].owner = Owner(settings)
           /\ "pull_request" \in Verified => PullRequestIsExact
           /\ "build" \in Reportable => payload["build"].commit = payload["pull_request"].source
           /\ "diffstat" \in Reportable =>
                 /\ payload["diffstat"].source = payload["pull_request"].source
                 /\ payload["diffstat"].destination = payload["pull_request"].destination
           /\ \A p \in PageActions \cap Reportable : payload[p].space = settings.space
<1>1. DOMAIN state = Planned /\ \A a : Dependency(a) \subseteq Core BY CoreIsPlanned
<1>2. Reportable \subseteq Verified /\ Verified \subseteq Planned BY DEF Reportable, Verified
<1>3. \A a \in Verified : ReadTwice(a) BY <1>1 DEF Verified, ReviewInv, VerifiedWasRead
<1>4. \A a \in Verified : Dependency(a) \subseteq Verified
  BY <1>1, <1>3 DEF ReadTwice, DependenciesVerified, Verified
<1>5. "pull_request" \in Verified => PullRequestIsExact
  <2>1. \A w : Answer("pull_request", w).id = PullRequestId BY DEF Answer
  <2> QED BY <1>3, <2>1 DEF ReadTwice, PullRequestIsExact
<1>6. "jira" \in Reportable => payload["jira"].key = IssueKey
  BY DEF Reportable, EvidenceStaleness, IssueIsExact
<1>7. "repository" \in Reportable => payload["repository"].owner = Owner(settings)
  BY DEF Reportable, EvidenceStaleness, RepositoryIsExact
<1>8. "build" \in Reportable => payload["build"].commit = payload["pull_request"].source
  <2> SUFFICES ASSUME "build" \in Reportable
               PROVE  payload["build"].commit = payload["pull_request"].source
    OBVIOUS
  <2>1. "pull_request" \in Verified BY <1>2, <1>4 DEF Dependency
  <2> QED BY <1>5, <2>1 DEF Reportable, EvidenceStaleness, BuildIsOfHead
<1>9. "diffstat" \in Reportable =>
         /\ payload["diffstat"].source = payload["pull_request"].source
         /\ payload["diffstat"].destination = payload["pull_request"].destination
  BY DEF Reportable, EvidenceStaleness, DiffstatIsOfRange
<1>10. \A p \in PageActions \cap Reportable : payload[p].space = settings.space
  BY DEF Reportable, EvidenceStaleness, PageIsExact
<1> QED BY <1>2, <1>3, <1>4, <1>5, <1>6, <1>7, <1>8, <1>9, <1>10

LEMMA BundleFields ==
    ASSUME ReviewInv, bundle # None
    PROVE  /\ bundle.outcome = ClassifyOutcome /\ bundle.complete = (ClassifyOutcome = "complete")
           /\ bundle.evidence = [a \in Reportable |-> payload[a]]
           /\ DOMAIN bundle.evidence = Reportable
           /\ \A a \in Reportable : bundle.evidence[a] = payload[a]
           /\ bundle.failures = FailureRecords /\ bundle.ambiguities = RelationAmbiguities
           /\ bundle.findings = Findings /\ bundle.markdown = RenderMarkdown
<1>1. bundle = Rendered BY DEF ReviewInv, BundleIsRendered
<1> QED BY <1>1 DEF Rendered

LEMMA CompleteMeans ==
    ASSUME ClassifyOutcome = "complete"
    PROVE  /\ EvidenceStaleness = {} /\ RelationAmbiguities = {} /\ Planned \subseteq Verified
           /\ Reportable = Planned
<1>1. EvidenceStaleness = {} /\ RelationAmbiguities = {} /\ Planned \ Verified = {}
  BY DEF ClassifyOutcome
<1>2. Verified \subseteq Planned BY DEF Verified
<1> QED BY <1>1, <1>2 DEF Reportable

LEMMA CompleteIsOne == ASSUME ReviewAssumption, ReviewInv PROVE CompleteIsOneReview
<1> SUFFICES ASSUME bundle # None, bundle.complete
             PROVE  LET e == bundle.evidence
                    IN  /\ DOMAIN e = Planned
                        /\ e["jira"].key = IssueKey
                        /\ e["repository"].owner = Owner(settings)
                        /\ e["build"].commit = e["pull_request"].source
                        /\ settings.diffstat =>
                              /\ e["diffstat"].source = e["pull_request"].source
                              /\ e["diffstat"].destination = e["pull_request"].destination
                        /\ \A p \in PageActions : e[p].space = settings.space
                        /\ \A r \in e["jira"].relations :
                              \/ r.target = <<Owner(settings), PullRequestId>>
                              \/ r.target[2] \in PageActions
  BY DEF CompleteIsOneReview
<1> DEFINE e == bundle.evidence
<1>1. /\ DOMAIN e = Reportable /\ \A a \in Reportable : e[a] = payload[a]
      /\ ClassifyOutcome = "complete"
  BY BundleFields
<1>2. Reportable = Planned /\ RelationAmbiguities = {} BY <1>1, CompleteMeans
<1>3. /\ Core \subseteq Planned /\ (settings.diffstat => "diffstat" \in Planned)
      /\ PageActions \subseteq Planned
  BY CoreIsPlanned
<1>4. {"jira", "repository", "pull_request", "build"} \subseteq Reportable BY <1>2, <1>3 DEF Core
<1> HIDE DEF e
<1>5. e["jira"].key = IssueKey BY <1>1, <1>4, ReportableIsExact
<1>6. e["repository"].owner = Owner(settings) BY <1>1, <1>4, ReportableIsExact
<1>7. e["build"].commit = e["pull_request"].source BY <1>1, <1>4, ReportableIsExact
<1>8. settings.diffstat => /\ e["diffstat"].source = e["pull_request"].source
                           /\ e["diffstat"].destination = e["pull_request"].destination
  BY <1>1, <1>2, <1>3, <1>4, ReportableIsExact
<1>9. \A p \in PageActions : e[p].space = settings.space
  BY <1>1, <1>2, <1>3, ReportableIsExact
<1>10. ASSUME NEW r \in e["jira"].relations
       PROVE  r.target = <<Owner(settings), PullRequestId>> \/ r.target[2] \in PageActions
  <2>1. r \in payload["jira"].relations BY <1>1, <1>4, <1>10
  <2>2. r.provider \in {"bitbucket", "confluence"}
    <3>1. ReadTwice("jira") BY <1>4, ReportableIsExact
    <3>2. \A w : Answer("jira", w).relations = w.relations BY DEF Answer
    <3> QED BY <2>1, <3>1, <3>2 DEF ReadTwice, WorldKnown
  <2>3. r.provider \notin RelationAmbiguities BY <1>2
  <2> QED BY <1>4, <2>1, <2>2, <2>3 DEF RelationAmbiguities
<1> QED BY <1>1, <1>2, <1>5, <1>6, <1>7, <1>8, <1>9, <1>10 DEF e

LEMMA ReportedWasTrue == ASSUME ReviewAssumption, ReviewInv PROVE ReportedWasTrueTwice
<1> SUFFICES ASSUME bundle # None
             PROVE  /\ \A a \in DOMAIN bundle.evidence :
                        /\ Len(seen[a]) = 2
                        /\ \A i \in 1..2 : Answer(a, seen[a][i]) = bundle.evidence[a]
                        /\ a = "jira" => bundle.evidence[a].key = IssueKey
                        /\ a \in PageActions => bundle.evidence[a].space = settings.space
                        /\ a = "build" => bundle.evidence[a].commit = payload["pull_request"].source
                    /\ \A f \in bundle.findings : f.citations \subseteq DOMAIN bundle.evidence
                    /\ \A s \in bundle.markdown : s.citation \in DOMAIN bundle.evidence
                    /\ (\E f \in bundle.findings : f.kind = "failing_build") =>
                            seen["pull_request"][2].head \in seen["build"][1].failed
  BY DEF ReportedWasTrueTwice
<1>1. /\ DOMAIN bundle.evidence = Reportable /\ \A a \in Reportable : bundle.evidence[a] = payload[a]
      /\ bundle.findings = Findings /\ bundle.markdown = RenderMarkdown
  BY BundleFields
<1>2. ASSUME NEW a \in Reportable
      PROVE  /\ Len(seen[a]) = 2
             /\ \A i \in 1..2 : Answer(a, seen[a][i]) = bundle.evidence[a]
             /\ a = "jira" => bundle.evidence[a].key = IssueKey
             /\ a \in PageActions => bundle.evidence[a].space = settings.space
             /\ a = "build" => bundle.evidence[a].commit = payload["pull_request"].source
  <2>1. ReadTwice(a) BY ReportableIsExact
  <2>2. Len(seen[a]) = 2
    <3>1. \A v, w : Len(<<v, w>>) = 2 OBVIOUS
    <3> QED BY <2>1, <3>1 DEF ReadTwice
  <2>3. \A i \in 1..2 : Answer(a, seen[a][i]) = bundle.evidence[a]
    <3>1. Answer(a, seen[a][1]) = payload[a] /\ Answer(a, seen[a][2]) = payload[a]
      BY <2>1 DEF ReadTwice
    <3>2. \A i \in 1..2 : i = 1 \/ i = 2 OBVIOUS
    <3> QED BY <1>1, <3>1, <3>2, Zenon
  <2> QED BY <1>1, <2>2, <2>3, ReportableIsExact
<1>3. \A f \in Findings : f.citations \subseteq Reportable
  <2>1. RelationAmbiguities # {} => "jira" \in Reportable BY DEF RelationAmbiguities
  <2> QED BY <2>1 DEF Findings, Finding
<1>4. \A s \in RenderMarkdown : s.citation \in Reportable BY DEF RenderMarkdown
<1>5. ASSUME \E f \in Findings : f.kind = "failing_build"
      PROVE  seen["pull_request"][2].head \in seen["build"][1].failed
  <2>1. "build" \in Reportable /\ payload["build"].failed BY <1>5 DEF Findings, Finding
  <2>2. "pull_request" \in Verified BY <2>1, ReportableIsExact DEF Dependency
  <2>3. ReadTwice("build") /\ ReadTwice("pull_request") BY <2>1, <2>2, ReportableIsExact
  <2>4. payload["build"].commit = payload["pull_request"].source BY <2>1, ReportableIsExact
  <2>5. /\ \A w : Answer("build", w).commit = w.head /\ Answer("build", w).failed = (w.head \in w.failed)
        /\ \A w : Answer("pull_request", w).source = w.head
    BY DEF Answer
  <2>6. /\ payload["build"] = Answer("build", seen["build"][1])
        /\ payload["pull_request"] = Answer("pull_request", seen["pull_request"][2])
    BY <2>3 DEF ReadTwice
  <2>7. /\ payload["build"].commit = seen["build"][1].head
        /\ payload["pull_request"].source = seen["pull_request"][2].head
    BY <2>5, <2>6
  <2>8. seen["build"][1].head \in seen["build"][1].failed BY <2>1, <2>5, <2>6
  <2> QED BY <2>4, <2>7, <2>8
<1> QED BY <1>1, <1>2, <1>3, <1>4, <1>5

LEMMA GapsAreSeen == ASSUME ReviewAssumption, ReviewInv PROVE GapsAreVisible
<1> SUFFICES ASSUME bundle # None
             PROVE  /\ \A a \in Planned :
                        (a \in DOMAIN bundle.evidence) # (\E f \in bundle.failures : f.action = a)
                    /\ bundle.complete => bundle.failures = {} /\ bundle.ambiguities = {}
                    /\ bundle.outcome = "partial" => Core \subseteq DOMAIN bundle.evidence
  BY DEF GapsAreVisible
<1>1. /\ DOMAIN bundle.evidence = Reportable /\ bundle.failures = FailureRecords
      /\ bundle.ambiguities = RelationAmbiguities /\ bundle.outcome = ClassifyOutcome
      /\ bundle.complete = (ClassifyOutcome = "complete")
  BY BundleFields
<1>2. ASSUME NEW a \in Planned PROVE (a \in Reportable) # (\E f \in FailureRecords : f.action = a)
  <2>1. (\E f \in FailureRecords : f.action = a) <=>
            (a \in Planned \ Verified \/ a \in EvidenceStaleness)
    <3>1. ASSUME a \in Planned \ Verified PROVE \E f \in FailureRecords : f.action = a
      <4>1. [action |-> a, state |-> state[a]] \in FailureRecords BY <3>1 DEF FailureRecords
      <4> QED BY <4>1
    <3>2. ASSUME a \in EvidenceStaleness PROVE \E f \in FailureRecords : f.action = a
      <4>1. [action |-> a, state |-> "quarantined"] \in FailureRecords BY <3>2 DEF FailureRecords
      <4> QED BY <4>1
    <3>3. ASSUME NEW f \in FailureRecords, f.action = a
          PROVE  a \in Planned \ Verified \/ a \in EvidenceStaleness
      BY <3>3 DEF FailureRecords
    <3> QED BY <3>1, <3>2, <3>3
  <2>2. EvidenceStaleness \subseteq Verified BY DEF EvidenceStaleness
  <2> QED BY <2>1, <2>2 DEF Reportable
<1>3. ClassifyOutcome = "complete" => FailureRecords = {} /\ RelationAmbiguities = {}
  BY CompleteMeans DEF FailureRecords
<1>4. ClassifyOutcome = "partial" => Core \subseteq Reportable
  BY DEF ClassifyOutcome, Reportable
<1> QED BY <1>1, <1>2, <1>3, <1>4

LEMMA ReviewInvIsEnough == ASSUME ReviewAssumption, ReviewInv PROVE ReviewsAreCoherent
<1>1. ReviewTypeOK BY DEF ReviewInv, ReviewTypes, TodoIsPlanned, ReviewTypeOK
<1>2. SuccessIsComplete BY BundleFields DEF ReviewInv, BundleIsRendered, SuccessIsComplete
<1> QED BY <1>1, <1>2, CompleteIsOne, ReportedWasTrue, GapsAreSeen DEF ReviewsAreCoherent

\* Whatever the configurations, the answers and the outages, and however the issue, the branches, the
\* builds and the pages move between any two reads: a complete review is about one state of the work
\* item, what is reported, cited or found was true at both reads of its action, every configured read
\* is evidence or a recorded failure, and the command succeeds only with a complete bundle
\* (engineering_work_item_review.py).
THEOREM ReviewsStayCoherent ==
    ASSUME ReviewAssumption
    PROVE  ReviewSpec => []ReviewsAreCoherent
<1>1. ReviewInit => ReviewInv BY InitIsReview
<1>2. ReviewInv /\ [ReviewNext]_reviewVars => ReviewInv'
  BY LoadKeeps, SkipKeeps, ExecuteKeeps, ExecuteFailsKeeps, VerifyKeeps, VerifyFailsKeeps,
     PublishKeeps, EditKeeps, StutterReview
  DEF ReviewNext, Done
<1>3. ReviewInv => ReviewsAreCoherent BY ReviewInvIsEnough
<1> QED BY <1>1, <1>2, <1>3, PTL DEF ReviewSpec
=============================================================================
