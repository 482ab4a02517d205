--------------------------- MODULE PinnedDirectory ---------------------------
(***************************************************************************)
(* Descriptor-pinned directories (master_agent/directory_safety.py, POSIX) *)
(* as two threads of one process use them: one opens a path component by   *)
(* component, pins a child, duplicates and reads; another closes pins and  *)
(* opens files of its own, so descriptor numbers are reused; and other     *)
(* programs move directories in and out of the path.                       *)
(* The path is root/a/b; the file read is root/a/b/f.                      *)
(***************************************************************************)
EXTENDS Naturals, FiniteSets, Sequences, FiniteSetsExt

CONSTANTS
    TopDirs,    \* directories that may be at root/a
    LeafDirs,   \* directories that may be at b in one of TopDirs
    Approved,   \* the approved identities, <<root/a, root/a/b>>
    Free,       \* an unused descriptor
    Operations, \* the operations the using thread performs
    Nothing,
    MaxFd, MaxMoves, MaxEdits, MaxForeign  \* bounds

Dirs == TopDirs \cup LeafDirs
Parents == {"root"} \cup TopDirs

(* The pins: top is PinnedDirectory.open(root/a), leaf its pin_child(b),   *)
(* copy a duplicate of leaf.                                               *)
Pins == {"top", "leaf", "copy"}

\* What the constants are.
PinAssumption ==
    /\ Approved \in TopDirs \X LeafDirs
    /\ TopDirs \cap LeafDirs = {} /\ "root" \notin TopDirs
    /\ Free \notin Dirs \cup {"file"} /\ "file" \notin Dirs
    /\ Nothing \notin Pins \cup Dirs \cup {"user"}
    /\ Nothing \notin {"open", "child", "copy", "read", "list", "inspect", "lock", "unlock", "valid",
                     "dup", "detach", "walk", "edge", "expect", "final", "adopt", "scan", "stat",
                     "openat", "rest", "public", "return"}
    /\ Operations \subseteq {"open", "child", "copy", "read", "list", "inspect"}
    /\ MaxFd \in Nat /\ MaxMoves \in Nat /\ MaxEdits \in Nat /\ MaxForeign \in Nat

VARIABLES
    at,       \* parent -> the directory its name leads to now
    stamps,   \* leaf directory -> stamp of its file f; stamp is the content
    fds,      \* descriptor table of the process
    pin,      \* pin -> descriptors, identities, finalizer, descriptors open
    locks,    \* pin -> thread that holds its RLock
    user,     \* the using thread: operation, step, descriptors in hand
    closer,   \* the closing thread: the pin it closes
    foreign,  \* descriptors the other thread opened for itself
    lost,     \* descriptors a pin that failed its first validation will have
              \* closed again; observation: whether that hit another's
    held,     \* observation: edges that led to the pinned directories at
              \* some moment since the operation began
    result,   \* observation: what the last operation returned
    spent     \* moves, edits and foreign opens so far

pinVars == <<at, stamps, fds, pin, locks, user, closer, foreign, lost, held, result, spent>>

NoPin == [fds |-> <<>>, ids |-> <<>>, alive |-> FALSE, open |-> FALSE]
Idle == [op |-> Nothing, on |-> Nothing, step |-> 1, index |-> 0, fds |-> <<>>, ids |-> <<>>,
         file |-> 0, dir |-> Nothing, half |-> Nothing, whole |-> FALSE]

PinInit ==
    /\ at = [p \in Parents |-> IF p = "root" THEN Approved[1]
                               ELSE IF p = Approved[1] THEN Approved[2]
                               ELSE CHOOSE d \in LeafDirs : d # Approved[2]]
    /\ stamps = [d \in LeafDirs |-> 0]
    /\ fds = [n \in 1..MaxFd |-> Free]
    /\ pin = [p \in Pins |-> NoPin]
    /\ locks = [p \in Pins |-> Nothing]
    /\ user = Idle
    /\ closer = Nothing
    /\ foreign = {}
    /\ lost = [fds |-> {}, hit |-> FALSE]
    /\ held = {}
    /\ result = Nothing
    /\ spent = [moves |-> 0, edits |-> 0, foreign |-> 0]

-----------------------------------------------------------------------------
(* The parent of edge i of a chain of directories. *)
ParentOf(ids, i) == IF i = 1 THEN "root" ELSE ids[i - 1]
EdgeHolds(ids, i) == at[ParentOf(ids, i)] = ids[i]

(* open and dup return the lowest free descriptor. *)
FreeFds == {n \in 1..MaxFd : fds[n] = Free}
NextFd == Min(FreeFds)

CloseAll(owned) == [n \in 1..MaxFd |-> IF n \in owned THEN Free ELSE fds[n]]
RangeOf(s) == {s[i] : i \in 1..Len(s)}

-----------------------------------------------------------------------------
(* Other programs and the other thread.                                    *)

MoveDirectory(p) ==
    /\ spent.moves < MaxMoves
    /\ spent' = [spent EXCEPT !.moves = @ + 1]
    /\ \E d \in (IF p = "root" THEN TopDirs ELSE LeafDirs) \ {at[p]} :
         at' = [at EXCEPT ![p] = d]
    /\ held' = IF user.op = Nothing THEN held
               ELSE held \cup {i \in 1..2 : at'[ParentOf(Approved, i)] = Approved[i]}
    /\ UNCHANGED <<stamps, fds, pin, locks, user, closer, foreign, lost, result>>

EditFile(d) ==
    /\ spent.edits < MaxEdits
    /\ spent' = [spent EXCEPT !.edits = @ + 1]
    /\ stamps' = [stamps EXCEPT ![d] = @ + 1]
    /\ UNCHANGED <<at, fds, pin, locks, user, closer, foreign, lost, held, result>>

(* The other thread opens some directory: a closed number is used again. *)
ForeignOpen ==
    /\ spent.foreign < MaxForeign /\ FreeFds # {}
    /\ spent' = [spent EXCEPT !.foreign = @ + 1]
    /\ \E d \in LeafDirs : fds' = [fds EXCEPT ![NextFd] = d]
    /\ foreign' = foreign \cup {NextFd}
    /\ UNCHANGED <<at, stamps, pin, locks, user, closer, lost, held, result>>

(* close(): the finalizer is marked dead, then waits for the lock. *)
CloseBegin(p) ==
    /\ closer = Nothing /\ pin[p].alive
    /\ pin' = [pin EXCEPT ![p].alive = FALSE]
    /\ closer' = p
    /\ UNCHANGED <<at, stamps, fds, locks, user, foreign, lost, held, result, spent>>

(* _close_descriptors under the lock. *)
CloseEnd ==
    /\ closer # Nothing /\ locks[closer] = Nothing
    /\ fds' = CloseAll(RangeOf(pin[closer].fds))
    /\ pin' = [pin EXCEPT ![closer].open = FALSE]
    /\ closer' = Nothing
    /\ UNCHANGED <<at, stamps, locks, user, foreign, lost, held, result, spent>>

-----------------------------------------------------------------------------
(* The using thread.  An operation is a sequence of steps; "valid" stands  *)
(* for a whole validate(), which is one step per component of the chain.   *)
Program ==
    [open  |-> <<"walk", "edge", "expect", "final", "adopt">>,
     child |-> <<"lock", "valid", "dup", "unlock", "detach", "walk", "edge",
                 "expect", "final", "adopt">>,
     copy  |-> <<"lock", "valid", "dup", "unlock", "adopt">>,
     list  |-> <<"lock", "valid", "scan", "valid", "unlock", "return">>,
     inspect |-> <<"valid", "valid", "stat", "valid", "return">>,
     read  |-> <<"valid", "openat", "read", "rest", "valid", "public", "valid",
                 "return">>]

Instr == IF user.op = Nothing THEN Nothing ELSE Program[user.op][user.step]

Advance(u) == user' = [u EXCEPT !.step = @ + 1, !.index = 0]

BeginOperation(op, p) ==
    /\ user.op = Nothing /\ op \in Operations
    /\ user' = [Idle EXCEPT !.op = op, !.on = p]
    /\ held' = {i \in 1..2 : EdgeHolds(Approved, i)}
    /\ result' = Nothing
    /\ UNCHANGED <<at, stamps, fds, pin, locks, closer, foreign, lost, spent>>

BeginAny ==
    \/ ~pin["top"].open /\ ~pin["leaf"].open /\ BeginOperation("open", "top")
    \/ pin["top"].open /\ ~pin["leaf"].open /\ BeginOperation("child", "top")
    \/ pin["leaf"].open /\ ~pin["copy"].open /\ BeginOperation("copy", "leaf")
    \/ \E p \in {"leaf", "copy"} : /\ pin[p].open
                                   /\ \E op \in {"read", "list", "inspect"} : BeginOperation(op, p)

(* The except and finally clauses close what the operation opened. *)
OwnedByOperation == RangeOf(user.fds) \cup ({user.file} \ {0})

GiveUp ==
    /\ fds' = CloseAll(OwnedByOperation)
    /\ locks' = [p \in Pins |-> IF locks[p] = "user" THEN Nothing ELSE locks[p]]
    /\ user' = Idle
    /\ UNCHANGED <<at, stamps, pin, closer, foreign, held, result, spent>>

Fail == GiveUp /\ UNCHANGED lost

(* The same after the new pin was built: its finalizer is armed and not    *)
(* detached, so the numbers just closed are closed again when the object   *)
(* goes with the exception.                                                *)
FailBuilt == GiveUp /\ lost' = [lost EXCEPT !.fds = @ \cup RangeOf(user.fds)]

(* _close_descriptors of the object that was given up, whatever the        *)
(* numbers name by then.  After a hit the process goes on with a           *)
(* descriptor missing, and nothing is claimed of it any more.              *)
FinalizeLost ==
    /\ lost.fds # {}
    /\ fds' = CloseAll(lost.fds)
    /\ lost' = [fds |-> {}, hit |-> lost.hit \/ \E n \in lost.fds : fds[n] # Free]
    /\ UNCHANGED <<at, stamps, pin, locks, user, closer, foreign, held, result, spent>>

Acquire ==
    /\ Instr = "lock" /\ locks[user.on] = Nothing
    /\ locks' = [locks EXCEPT ![user.on] = "user"]
    /\ Advance(user)
    /\ UNCHANGED <<at, stamps, fds, pin, closer, foreign, lost, held, result, spent>>

Release ==
    /\ Instr = "unlock"
    /\ locks' = [locks EXCEPT ![user.on] = Nothing]
    /\ Advance(user)
    /\ UNCHANGED <<at, stamps, fds, pin, closer, foreign, lost, held, result, spent>>

(* One round of validate(): the descriptor is still the directory, and its *)
(* name in the parent descriptor still leads to it.                        *)
ComponentStands(i) ==
    /\ fds[pin[user.on].fds[i]] = pin[user.on].ids[i]
    /\ EdgeHolds(pin[user.on].ids, i)

(* The finalizer is checked once the lock is held. *)
FinalizerAlive(p) == pin[p].alive

(* validate() holds the lock, so no close completes inside it. *)
ValidateBegin ==
    /\ Instr = "valid" /\ user.index = 0
    /\ locks[user.on] \in {Nothing, "user"}
    /\ IF FinalizerAlive(user.on)
       THEN /\ user' = [user EXCEPT !.index = 1]
            /\ locks' = [locks EXCEPT ![user.on] = "user"]
            /\ UNCHANGED <<at, stamps, fds, pin, closer, foreign, lost, held, result, spent>>
       ELSE Fail

(* The lock is kept when the operation itself holds it (RLock). *)
ValidateStep ==
    /\ Instr = "valid" /\ user.index > 0
    /\ IF ~ComponentStands(user.index) THEN Fail
       ELSE /\ IF user.index < Len(pin[user.on].fds)
               THEN /\ user' = [user EXCEPT !.index = @ + 1]
                    /\ UNCHANGED locks
               ELSE /\ Advance(user)
                    /\ locks' = IF user.op \in {"read", "inspect"}
                                THEN [locks EXCEPT ![user.on] = Nothing] ELSE locks
            /\ UNCHANGED <<at, stamps, fds, pin, closer, foreign, lost, held, result, spent>>

-----------------------------------------------------------------------------
(* _open_directory_component of the next component and its identity. *)
Walk ==
    /\ Instr = "walk" /\ FreeFds # {}
    /\ LET d == at[ParentOf(user.ids, Len(user.ids) + 1)]
       IN /\ fds' = [fds EXCEPT ![NextFd] = d]
          /\ Advance([user EXCEPT !.fds = Append(@, NextFd), !.ids = Append(@, d)])
    /\ UNCHANGED <<at, stamps, pin, locks, closer, foreign, lost, held, result, spent>>

(* _validate_public_component of the component just opened. *)
CheckEdge ==
    /\ Instr = "edge"
    /\ IF EdgeHolds(user.ids, Len(user.ids))
       THEN /\ Advance(user)
            /\ UNCHANGED <<at, stamps, fds, pin, locks, closer, foreign, lost, held, result, spent>>
       ELSE Fail

(* expected_identity of open and pin_child. *)
ExpectedIdentity(ids) == ids[Len(ids)] = Approved[Len(ids)]

CheckExpected ==
    /\ Instr = "expect"
    /\ IF ExpectedIdentity(user.ids)
       THEN /\ Advance(user)
            /\ UNCHANGED <<at, stamps, fds, pin, locks, closer, foreign, lost, held, result, spent>>
       ELSE Fail

(* The same round for the pin just built. *)
NewComponentStands(i) ==
    fds[user.fds[i]] = user.ids[i] /\ EdgeHolds(user.ids, i)

(* pinned.validate() of the new pin, one component at a time. *)
ValidateNew ==
    /\ Instr = "final"
    /\ LET i == user.index + 1
       IN IF ~NewComponentStands(i) THEN FailBuilt
          ELSE /\ IF i = Len(user.ids) THEN Advance(user)
                  ELSE user' = [user EXCEPT !.index = i]
               /\ UNCHANGED <<at, stamps, fds, pin, locks, closer, foreign, lost, held, result, spent>>

(* duplicate(): every descriptor is duplicated and compared. *)
Duplicate ==
    /\ Instr = "dup" /\ FreeFds # {}
    /\ LET k == Len(user.fds) + 1
           d == fds[pin[user.on].fds[k]]
           u == [user EXCEPT !.fds = Append(@, NextFd), !.ids = Append(@, d)]
       IN IF d # pin[user.on].ids[k] THEN Fail
          ELSE /\ fds' = [fds EXCEPT ![NextFd] = d]
               /\ IF k = Len(pin[user.on].fds) THEN Advance(u) ELSE user' = u
               /\ UNCHANGED <<at, stamps, pin, locks, closer, foreign, lost, held, result, spent>>

(* Faulty variant: the duplicate keeps its finalizer, which closes         *)
(* descriptors the child pin goes on using.                                *)
FinalizeDuplicate ==
    /\ fds' = CloseAll(RangeOf(user.fds))
    /\ Advance(user)
    /\ UNCHANGED <<at, stamps, pin, locks, closer, foreign, lost, held, result, spent>>

(* pin_child takes the duplicate's descriptors over: the finalizer is      *)
(* detached and the object is garbage.                                     *)
TakeOverDuplicate ==
    /\ Advance(user)
    /\ UNCHANGED <<at, stamps, fds, pin, locks, closer, foreign, lost, held, result, spent>>

Detach == Instr = "detach" /\ TakeOverDuplicate

(* PinnedDirectory(...): the new pin owns the descriptors. *)
NewPin == [fds |-> user.fds, ids |-> user.ids, alive |-> TRUE, open |-> TRUE]

Adopt ==
    /\ Instr = "adopt"
    /\ LET p == CASE user.op = "open" -> "top" [] user.op = "child" -> "leaf"
                  [] OTHER -> "copy"
       IN pin' = [pin EXCEPT ![p] = NewPin]
    /\ user' = Idle
    /\ UNCHANGED <<at, stamps, fds, locks, closer, foreign, lost, held, result, spent>>

(* list_children: listdir of the last descriptor. *)
Scan ==
    /\ Instr = "scan"
    /\ LET d == fds[pin[user.on].fds[Len(pin[user.on].fds)]]
       IN IF d \in LeafDirs
          THEN /\ Advance([user EXCEPT !.dir = d, !.whole = TRUE])
               /\ UNCHANGED <<at, stamps, fds, pin, locks, closer, foreign, lost, held, result, spent>>
          ELSE Fail

(* inspect_child: stat of the child by the borrowed number; every         *)
(* validate() in it takes the lock anew.                                   *)
InspectChild ==
    /\ Instr = "stat"
    /\ LET d == fds[pin[user.on].fds[Len(pin[user.on].fds)]]
       IN IF d \in LeafDirs
          THEN /\ Advance([user EXCEPT !.dir = d, !.whole = TRUE])
               /\ UNCHANGED <<at, stamps, fds, pin, locks, closer, foreign, lost, held, result, spent>>
          ELSE Fail

(* read_child_bytes opens the file relative to the number fileno()         *)
(* returned, which is borrowed: the lock is not held.                      *)
OpenFile ==
    /\ Instr = "openat" /\ FreeFds # {}
    /\ LET d == fds[pin[user.on].fds[Len(pin[user.on].fds)]]
       IN IF d \in LeafDirs
          THEN /\ fds' = [fds EXCEPT ![NextFd] = "file"]
               /\ Advance([user EXCEPT !.dir = d, !.file = NextFd])
               /\ UNCHANGED <<at, stamps, pin, locks, closer, foreign, lost, held, result, spent>>
          ELSE Fail

ReadFirst ==
    /\ Instr = "read"
    /\ Advance([user EXCEPT !.half = stamps[user.dir]])
    /\ UNCHANGED <<at, stamps, fds, pin, locks, closer, foreign, lost, held, result, spent>>

ReadRest ==
    /\ Instr = "rest"
    /\ Advance([user EXCEPT !.whole = stamps[user.dir] = user.half])
    /\ UNCHANGED <<at, stamps, fds, pin, locks, closer, foreign, lost, held, result, spent>>

(* The final fstat and the stat of the public name, by the number again. *)
SameFile ==
    LET d == fds[pin[user.on].fds[Len(pin[user.on].fds)]]
    IN d = user.dir /\ stamps[user.dir] = user.half

CheckFile ==
    /\ Instr = "public"
    /\ IF SameFile
       THEN /\ Advance(user)
            /\ UNCHANGED <<at, stamps, fds, pin, locks, closer, foreign, lost, held, result, spent>>
       ELSE Fail

Return ==
    /\ Instr = "return"
    /\ result' = [dir |-> user.dir, whole |-> user.whole, held |-> held]
    /\ fds' = CloseAll(OwnedByOperation)
    /\ user' = Idle
    /\ UNCHANGED <<at, stamps, pin, locks, closer, foreign, lost, held, spent>>

UserStep ==
    \/ Acquire \/ Release \/ ValidateBegin \/ ValidateStep
    \/ Walk \/ CheckEdge \/ CheckExpected \/ ValidateNew \/ Duplicate \/ Detach \/ Adopt
    \/ Scan \/ InspectChild \/ OpenFile \/ ReadFirst \/ ReadRest \/ CheckFile \/ Return

PinNext ==
    \/ \E p \in Parents : MoveDirectory(p)
    \/ \E d \in LeafDirs : EditFile(d)
    \/ ForeignOpen
    \/ \E p \in Pins : CloseBegin(p)
    \/ CloseEnd
    \/ FinalizeLost
    \/ BeginAny
    \/ UserStep

PinSpec == PinInit /\ [][PinNext]_pinVars

(* Neither thread is suspended for ever. *)
FairPinSpec == PinSpec /\ WF_pinVars(UserStep) /\ WF_pinVars(CloseEnd)

-----------------------------------------------------------------------------
(* Every variable keeps the shape the code gives it. *)
PinTypeOK ==
    /\ fds \in [1..MaxFd -> Dirs \cup {"file", Free}]
    /\ \A p \in Pins : /\ Len(pin[p].fds) = Len(pin[p].ids)
                       /\ RangeOf(pin[p].ids) \subseteq Dirs
                       /\ pin[p].alive => pin[p].open
    /\ locks \in [Pins -> {"user", Nothing}]
    /\ closer \in Pins \cup {Nothing}

(* What a read or a listing returns is whole and comes from the approved   *)
(* directory, though the directories were moved, the file was rewritten,   *)
(* the pin was closed by another thread and its number was used again.     *)
ResultIsPinned ==
    result # Nothing => result.dir = Approved[2] /\ result.whole

(* A component that was somewhere else from the beginning of the operation *)
(* to its end is noticed: each edge of the path led to its pinned          *)
(* directory at some moment of the operation.                              *)
ReplacedIsNoticed == result # Nothing => result.held = {1, 2}

(* The descriptors of a pin that is not closed are its own: each number    *)
(* still names the pinned directory and belongs to no other pin, operation *)
(* or thread.                                                              *)
DescriptorsAreOwned ==
    \A p \in Pins : pin[p].open =>
      /\ \A i \in 1..Len(pin[p].fds) : fds[pin[p].fds[i]] = pin[p].ids[i]
      /\ RangeOf(pin[p].fds) \cap (foreign \cup OwnedByOperation) = {}
      /\ \A q \in Pins \ {p} : pin[q].open =>
           RangeOf(pin[p].fds) \cap RangeOf(pin[q].fds) = {}

(* No descriptor outlives its owner: with no operation under way, only the *)
(* open pins and the other thread have descriptors.                        *)
NothingLeaks ==
    user.op = Nothing =>
      (1..MaxFd) \ FreeFds =
        foreign \cup UNION {RangeOf(pin[p].fds) : p \in {q \in Pins : pin[q].open}}

\* Until the second close of a pin that failed its first validation hits a
\* number another owner has by then (FinalizeLost), and for ever if it never
\* does: what an operation on a pin returns is whole and comes from the
\* approved directory, though directories are moved, files rewritten, the pin
\* closed by another thread and its numbers reused; a component that was
\* elsewhere all the time is noticed; an open pin's descriptors are its own;
\* and no descriptor outlives its owner (directory_safety.py).
PinsHold ==
    \/ lost.hit
    \/ PinTypeOK /\ ResultIsPinned /\ ReplacedIsNoticed /\ DescriptorsAreOwned /\ NothingLeaks

(* Not so: a pin that fails its first validation closes only descriptors   *)
(* of its own.                                                             *)
SecondCloseIsHarmless == ~lost.hit

(* Every operation ends: the locks it takes inside one another, and the    *)
(* close that waits for them, never stop it for ever.                      *)
OperationsEnd == []<>(user.op = Nothing)
=============================================================================
