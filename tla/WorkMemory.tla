----------------------------- MODULE WorkMemory -----------------------------
(***************************************************************************)
(* work_memory.py and the work-memory command of cli.py: one journal of    *)
(* work events in a private SQLite file, shared by commands of several     *)
(* processes.  The first command to find no file creates it, empty, and    *)
(* writes the schema in a later transaction; every other command waits for *)
(* a complete journal a bounded number of times.  Opening the file and     *)
(* each transaction hold the directory lock (StateDatabase) and are one    *)
(* step here.  A hash is the tuple it is taken over, so it has no          *)
(* collisions.                                                             *)
(***************************************************************************)
EXTENDS Integers, Sequences, SequencesExt

CONSTANTS Procs, Works, Outs,   \* processes, work IDs, output names
          NoOut,                \* a command without --output
          LastStage,            \* the stages are 0 (issue) to LastStage (merged)
          MaxEvents,            \* _MAX_EVENTS
          MaxShown,             \* events of one work that fit an output file
          Attempts,             \* _INITIALIZATION_RACE_ATTEMPTS
          MaxCommands, MaxDamage, MaxFaults   \* bounds of the model

\* What the constants are.
MemoryAssumption ==
    /\ LastStage \in Nat /\ MaxEvents \in Nat /\ MaxShown \in Nat /\ Attempts \in Nat
    /\ MaxCommands \in Nat /\ MaxDamage \in Nat /\ MaxFaults \in Nat

VARIABLES journal,   \* the database file, or Absent
          proc,      \* process -> its command
          out,       \* output name -> free, reserved or the history published in it
          told,      \* what the last successful command or inspection told its caller
          hist,      \* ghost: the events committed, in order
          serial, damage, faults

memVars == <<journal, proc, out, told, hist, serial, damage, faults>>

Stages == 0 .. LastStage
Genesis == <<>>
Empty(g) == [gen |-> g, init |-> FALSE, ev |-> <<>>, cnt |-> 0, head |-> Genesis]
Absent == Empty(0)
Idle == [pc |-> "idle", op |-> "none", w |-> "none", st |-> 0, out |-> NoOut, mk |-> FALSE,
         made |-> FALSE, pin |-> 0, tries |-> 0, id |-> 0]
FreeOutput == [by |-> 0, ev |-> <<>>]

MemoryInit ==
    /\ journal = Absent /\ proc = [p \in Procs |-> Idle] /\ out = [o \in Outs |-> FreeOutput]
    /\ told = <<>> /\ hist = <<>> /\ serial = 0 /\ damage = 0 /\ faults = 0

-----------------------------------------------------------------------------
(* Replay *)

\* _event_hash
Hash(e) == <<e.seq, e.id, e.w, e.kind, e.st, e.prev>>

EventsOf(ev, w) == SelectSeq(ev, LAMBDA e : e.w = w)

\* _validate_lifecycle_event
LawfulNext(before, e) ==
    IF before = <<>> THEN e.kind = "started" /\ e.st = 0
    ELSE /\ e.kind # "started"
         /\ Last(before).st # LastStage
         /\ e.st - Last(before).st \in {0, 1}

\* _replay, with _validate_schema
Replays(j) ==
    /\ j.init
    /\ \A i \in 1 .. Len(j.ev) :
          /\ j.ev[i].seq = i
          /\ \A k \in 1 .. i - 1 : j.ev[k].id # j.ev[i].id
          /\ j.ev[i].prev = IF i = 1 THEN Genesis ELSE j.ev[i - 1].hash
          /\ j.ev[i].hash = Hash(j.ev[i])
          /\ LawfulNext(EventsOf(SubSeq(j.ev, 1, i - 1), j.ev[i].w), j.ev[i])
    /\ j.cnt = Len(j.ev)
    /\ j.head = IF j.ev = <<>> THEN Genesis ELSE Last(j.ev).hash

-----------------------------------------------------------------------------
At(p, pc) == proc[p].pc = pc
Goto(p, pc) == proc' = [proc EXCEPT ![p].pc = pc]
\* The command ends; its reservation, not committed, is withdrawn.
Withdrawn(p) ==
    [o \in Outs |-> IF out[o].by = proc[p].id /\ out[o].ev = <<>> THEN FreeOutput ELSE out[o]]
Fail(p) ==
    /\ proc' = [proc EXCEPT ![p] = Idle] /\ out' = Withdrawn(p)
    /\ UNCHANGED <<told, hist, serial, damage>>
Fault == faults < MaxFaults /\ faults' = faults + 1
\* After the output name: start looks for the file, record opens it.
Entry(c) == IF c.op = "start" THEN "exists" ELSE "open"

\* The command as given; start validates its fields before it touches anything.
Begin(p, op, w, st, o) ==
    /\ At(p, "idle") /\ serial < MaxCommands
    /\ op = "start" => st = 0
    /\ serial' = serial + 1
    /\ LET c == [Idle EXCEPT !.op = op, !.w = w, !.st = st, !.out = o, !.id = serial + 1]
       IN  proc' = [proc EXCEPT ![p] = [c EXCEPT !.pc = IF o = NoOut THEN Entry(c) ELSE "preflight"]]
    /\ UNCHANGED <<journal, out, told, hist, damage, faults>>

\* _preflight_work_memory_output
Preflight(p) ==
    /\ At(p, "preflight")
    /\ IF out[proc[p].out] # FreeOutput THEN Fail(p)
       ELSE Goto(p, "reserve") /\ UNCHANGED <<out, told, hist, serial, damage>>
    /\ UNCHANGED <<journal, faults>>

\* RestrictedJSONReservation: the name is created exclusively.
Reserve(p) ==
    /\ At(p, "reserve")
    /\ IF out[proc[p].out] # FreeOutput THEN Fail(p)
       ELSE /\ out' = [out EXCEPT ![proc[p].out] = [by |-> proc[p].id, ev |-> <<>>]]
            /\ Goto(p, Entry(proc[p]))
            /\ UNCHANGED <<told, hist, serial, damage>>
    /\ UNCHANGED <<journal, faults>>

\* __init__: path_entry_exists decides whether to create.
Exists(p) ==
    /\ At(p, "exists")
    /\ proc' = [proc EXCEPT ![p].pc = "open", ![p].mk = journal = Absent]
    /\ UNCHANGED <<journal, out, told, hist, serial, damage, faults>>

\* PinnedSQLiteDatabase(create=True): the file is made empty, or the name was taken meanwhile.
OpenCreating(p) ==
    /\ At(p, "open") /\ proc[p].mk
    /\ IF journal = Absent
       THEN /\ journal' = Empty(proc[p].id)
            /\ proc' = [proc EXCEPT ![p].pc = "init", ![p].made = TRUE, ![p].pin = proc[p].id]
       ELSE Goto(p, "wait") /\ UNCHANGED journal
    /\ UNCHANGED <<out, told, hist, serial, damage, faults>>

\* PinnedSQLiteDatabase(create=False): record, or a start that saw the file.
OpenExisting(p) ==
    /\ At(p, "open") /\ ~proc[p].mk
    /\ IF journal = Absent THEN Fail(p)
       ELSE /\ proc' = [proc EXCEPT ![p].pc = "init", ![p].pin = journal.gen]
            /\ UNCHANGED <<out, told, hist, serial, damage>>
    /\ UNCHANGED <<journal, faults>>

\* close(remove_created=True) removes a file this command made, while it is the same.
Undone(p) == IF proc[p].made /\ journal.gen = proc[p].pin /\ ~journal.init THEN Absent ELSE journal

\* _initialize by the command that made the file.
InitCreate(p) ==
    /\ At(p, "init") /\ journal.gen = proc[p].pin /\ ~journal.init /\ proc[p].made
    /\ journal' = [journal EXCEPT !.init = TRUE] /\ Goto(p, "append")
    /\ UNCHANGED <<out, told, hist, serial, damage, faults>>

\* _initialize of a file with a schema.
InitExisting(p) ==
    /\ At(p, "init") /\ journal.gen = proc[p].pin /\ journal.init
    /\ IF Replays(journal) THEN Goto(p, "append") /\ UNCHANGED <<out, told, hist, serial, damage>>
       ELSE Fail(p)
    /\ UNCHANGED <<journal, faults>>

\* _initialize of another command's file that has no schema yet: start waits, record gives up.
InitEmpty(p) ==
    /\ At(p, "init") /\ journal.gen = proc[p].pin /\ ~journal.init /\ ~proc[p].made
    /\ IF proc[p].op = "start" THEN Goto(p, "wait") /\ UNCHANGED <<out, told, hist, serial, damage>>
       ELSE Fail(p)
    /\ UNCHANGED <<journal, faults>>

\* The path no longer names the pinned file, or the transaction fails.
InitFails(p) ==
    /\ At(p, "init") /\ Fail(p)
    /\ \/ journal.gen # proc[p].pin /\ UNCHANGED faults
       \/ journal.gen = proc[p].pin /\ Fault
    /\ journal' = Undone(p)

\* _wait_for_concurrent_initialization: a try that found no complete journal.
Retry(p) ==
    /\ IF proc[p].tries + 1 < Attempts
       THEN /\ proc' = [proc EXCEPT ![p].pc = "wait", ![p].tries = @ + 1]
            /\ UNCHANGED <<out, told, hist, serial, damage>>
       ELSE Fail(p)
    /\ UNCHANGED faults

\* One try: open the file...
WaitOpen(p) ==
    /\ At(p, "wait")
    /\ IF journal = Absent THEN Retry(p)
       ELSE /\ proc' = [proc EXCEPT ![p].pc = "waitinit", ![p].pin = journal.gen]
            /\ UNCHANGED <<out, told, hist, serial, damage, faults>>
    /\ UNCHANGED journal

\* ... and require its schema; any other failure ends the command.
WaitInit(p) ==
    /\ At(p, "waitinit")
    /\ \/ journal.gen = proc[p].pin /\ ~journal.init /\ Retry(p)
       \/ journal.gen = proc[p].pin /\ Replays(journal) /\ Goto(p, "append")
          /\ UNCHANGED <<out, told, hist, serial, damage, faults>>
       \/ /\ journal.gen # proc[p].pin \/ (journal.init /\ ~Replays(journal))
          /\ Fail(p) /\ UNCHANGED faults
    /\ UNCHANGED journal

-----------------------------------------------------------------------------
(* The append transaction *)

\* start, record: the conditions on the history of the work
Admits(c, mine) ==
    IF c.op = "start" THEN mine = <<>>
    ELSE /\ mine # <<>>
         /\ Last(mine).st # LastStage
         /\ c.st \in {Last(mine).st, Last(mine).st + 1}

\* _append_event
Event(c) ==
    LET base == [seq |-> Len(journal.ev) + 1, id |-> c.id, w |-> c.w, st |-> c.st,
                 kind |-> IF c.op = "start" THEN "started" ELSE "checkpoint",
                 prev |-> journal.head]
    IN  [seq |-> base.seq, id |-> base.id, w |-> base.w, st |-> base.st, kind |-> base.kind,
         prev |-> base.prev, hash |-> Hash(base)]
Appended(c) ==
    LET e == Event(c)
    IN  [journal EXCEPT !.ev = Append(@, e), !.cnt = @ + 1, !.head = e.hash]

\* _validate_work_memory_output_payload, called inside the transaction
Fits(c, j) == c.out = NoOut \/ Len(EventsOf(j.ev, c.w)) <= MaxShown

\* Faulty variant: the history was judged before the transaction, not in it.
AppendableStale(p) ==
    journal.gen = proc[p].pin /\ Len(journal.ev) < MaxEvents /\ Fits(proc[p], Appended(proc[p]))

\* The transaction goes through; it replays the history before and after the append.
Appendable(p) ==
    /\ journal.gen = proc[p].pin /\ Replays(journal)
    /\ Admits(proc[p], EventsOf(journal.ev, proc[p].w))
    /\ Len(journal.ev) < MaxEvents
    /\ Replays(Appended(proc[p]))
    /\ Fits(proc[p], Appended(proc[p]))

\* start, record: replay, check, append and commit in one transaction.
AppendEvent(p) ==
    /\ At(p, "append")
    /\ IF Appendable(p)
       THEN /\ journal' = Appended(proc[p]) /\ hist' = Append(hist, Event(proc[p]))
            /\ IF proc[p].out = NoOut
               THEN proc' = [proc EXCEPT ![p] = Idle] /\ told' = journal'.ev
               ELSE Goto(p, "publish") /\ UNCHANGED told
            /\ UNCHANGED <<out, serial, damage>>
       ELSE Fail(p) /\ UNCHANGED journal
    /\ UNCHANGED faults

\* The commit raises although the generation was replaced, or nothing was.
AppendUnsure(p) ==
    /\ At(p, "append") /\ Fault
    /\ \/ /\ Appendable(p)
          /\ journal' = Appended(proc[p]) /\ hist' = Append(hist, Event(proc[p]))
       \/ UNCHANGED <<journal, hist>>
    /\ proc' = [proc EXCEPT ![p] = Idle] /\ out' = Withdrawn(p)
    /\ UNCHANGED <<told, serial, damage>>

\* RestrictedJSONReservation.commit: the snapshot the transaction returned, up to its own event.
Publish(p) ==
    /\ At(p, "publish")
    /\ LET seen == SelectSeq(hist, LAMBDA e : \A i \in 1 .. Len(hist) :
                                 hist[i].id = proc[p].id => e.seq <= hist[i].seq)
       IN  /\ out' = [out EXCEPT ![proc[p].out] = [by |-> proc[p].id, ev |-> seen]]
           /\ told' = seen
    /\ proc' = [proc EXCEPT ![p] = Idle]
    /\ UNCHANGED <<journal, hist, serial, damage, faults>>

\* The write of the output fails; the reserved name is removed, the event stays.
PublishFails(p) ==
    /\ At(p, "publish") /\ Fault /\ Fail(p) /\ UNCHANGED journal

\* The process is killed: its reserved name stays.
Kill(p) ==
    /\ ~At(p, "idle") /\ Fault
    /\ proc' = [proc EXCEPT ![p] = Idle]
    /\ UNCHANGED <<journal, out, told, hist, serial, damage>>

\* show_existing, verify_existing: a verified snapshot or a refusal.
Inspect ==
    /\ journal # Absent /\ Replays(journal) /\ journal.ev # <<>>
    /\ told' = journal.ev
    /\ UNCHANGED <<journal, proc, out, hist, serial, damage, faults>>

\* One accidental change to a row or to the checkpoint (external).
Rows(ev) == journal' = [journal EXCEPT !.ev = ev]
Damage ==
    /\ damage < MaxDamage /\ journal # Absent /\ journal.init
    /\ \/ \E i \in 1 .. Len(journal.ev) : \E s \in Stages \ {journal.ev[i].st} :
            Rows([journal.ev EXCEPT ![i].st = s])
       \/ \E i \in 1 .. Len(journal.ev) : \E w \in Works \ {journal.ev[i].w} :
            Rows([journal.ev EXCEPT ![i].w = w])
       \/ \E i \in 1 .. Len(journal.ev) : Rows(RemoveAt(journal.ev, i))
       \/ \E i \in 1 .. Len(journal.ev) - 1 :
            Rows([journal.ev EXCEPT ![i] = [journal.ev[i + 1] EXCEPT !.seq = i],
                                    ![i + 1] = [journal.ev[i] EXCEPT !.seq = i + 1]])
       \/ \E n \in 0 .. MaxEvents : n # journal.cnt /\ journal' = [journal EXCEPT !.cnt = n]
    /\ damage' = damage + 1
    /\ UNCHANGED <<proc, out, told, hist, serial, faults>>

Step(p) ==
    \/ Preflight(p) \/ Reserve(p) \/ Exists(p) \/ OpenCreating(p) \/ OpenExisting(p)
    \/ InitCreate(p) \/ InitExisting(p) \/ InitEmpty(p) \/ InitFails(p)
    \/ WaitOpen(p) \/ WaitInit(p) \/ AppendEvent(p) \/ AppendUnsure(p)
    \/ Publish(p) \/ PublishFails(p)

MemoryNext ==
    \/ \E p \in Procs, op \in {"start", "record"}, w \in Works, st \in Stages,
          o \in Outs \cup {NoOut} : Begin(p, op, w, st, o)
    \/ \E p \in Procs : Step(p) \/ Kill(p)
    \/ Inspect \/ Damage

MemorySpec == MemoryInit /\ [][MemoryNext]_memVars
FairMemorySpec == MemorySpec /\ \A p \in Procs : WF_memVars(Step(p))

-----------------------------------------------------------------------------
Pcs == {"idle", "preflight", "reserve", "exists", "open", "init", "wait", "waitinit", "append",
        "publish"}

(* Type invariant of the journal file, the commands and the output names. *)
MemoryTypeOK ==
    /\ journal.gen \in 0 .. MaxCommands
    /\ journal # Absent => journal.init \in BOOLEAN /\ journal.cnt \in 0 .. MaxEvents
                           /\ Len(journal.ev) <= MaxEvents
    /\ \A p \in Procs : proc[p].pc \in Pcs /\ proc[p].tries \in 0 .. Attempts
                        /\ proc[p].pin \in 0 .. MaxCommands
    /\ \A o \in Outs : out[o].by \in 0 .. MaxCommands

(* Commands that overlap, create the journal at the same time, are killed or fail, never lose or
   reorder a committed event: WorkMemory.__init__ and _append_event. *)
NoEventIsLost == damage = 0 /\ hist # <<>> => journal # Absent /\ journal.ev = hist

(* What start, record, show and verify tell is the committed history up to some event, also when
   a row or the checkpoint was changed in between: _replay. *)
ToldIsTheHistory == IsPrefix(told, hist)

(* Records of one work that race still leave a lifecycle in order: it starts once at the issue,
   advances a stage at a time and ends at the merge; record, _validate_lifecycle_event. *)
LifecycleInOrder ==
    \A i \in 1 .. Len(hist) : LawfulNext(EventsOf(SubSeq(hist, 1, i - 1), hist[i].w), hist[i])

(* An output file is written by one command only, holds the event of that command, and is never
   overwritten: the reservation of cli._work_memory. *)
OutputIsItsCommands ==
    /\ \A o \in Outs : out[o].ev # <<>> => Last(out[o].ev).id = out[o].by
    /\ \A p \in Procs : At(p, "publish") => out[proc[p].out] = [by |-> proc[p].id, ev |-> <<>>]

(* Every command ends, also one that waits for a journal whose creator was killed. *)
CommandsEnd == \A p \in Procs : ~At(p, "idle") ~> At(p, "idle")
=============================================================================
