------------------------- MODULE CredentialCustody -------------------------
(***************************************************************************)
(* Credentials at rest and in use: the two Windows stores                  *)
(* (platform_runtime/windows/credentials.py), Credential Manager with one  *)
(* entry per name and DPAPI with one document, and the broker that lends a *)
(* stored secret for one provider operation (credential_broker.py).        *)
(***************************************************************************)
EXTENDS Integers, Sequences, FiniteSets, SequencesExt

CONSTANTS
  Provider,    \* "manager" or "dpapi"
  Names,       \* credential names, a sequence: the order of the mapping
  Updaters,    \* processes that store or remove credentials
  Handles,     \* handles the broker may issue
  Bindings,    \* capsule, principal and operation, as one digest
  Ttl,         \* ttl_seconds of a handle
  MaxActive,   \* _MAX_ACTIVE_HANDLES
  MaxClock,    \* bound of the clock
  None

\* What the constants are.
CustodyAssumption ==
  /\ Provider \in {"manager", "dpapi"}
  /\ {Ttl, MaxActive, MaxClock} \subseteq Nat
  /\ None \notin Updaters

Name == ToSet(Names)
\* A secret is known by who stored it; Updaters' own, or the one set up first.
Secret == Updaters \cup {"first"}
Lease == [binding : Bindings, name : Name, secret : Secret, expires : Nat]

VARIABLES
  entry,     \* the stored secret of each name
  lock,      \* the DPAPI document's transaction lock
  upd,       \* the state of each updater
  clock,
  lease,     \* CredentialBroker._leases
  issued,    \* what each handle was issued for
  uses,      \* observes what adapters were given
  lastHeld   \* observes when a name last held a secret it no longer holds

vars == <<entry, lock, upd, clock, lease, issued, uses, lastHeld>>
store == <<entry, lock, upd, lastHeld>>
broker == <<lease, issued, uses>>

NewUpdate == [pc |-> "idle", op |-> "store", at |-> 1, prev |-> [n \in Name |-> None],
              done |-> << >>, ok |-> TRUE, before |-> [n \in Name |-> None], alone |-> TRUE]

CustodyInit ==
  /\ entry \in {[n \in Name |-> IF n \in S THEN "first" ELSE None] : S \in SUBSET Name}
  /\ lock = None
  /\ upd = [u \in Updaters |-> NewUpdate]
  /\ clock = 0
  /\ lease = [h \in Handles |-> None]
  /\ issued = [h \in Handles |-> None]
  /\ uses = {}
  /\ lastHeld = [n \in Name |-> [s \in Secret |-> -MaxClock]]

Active(u) == upd[u].pc \notin {"idle", "done", "failed", "killed"}

\* The store changes, and the observer notes what was replaced when.
SetEntries(new) ==
  /\ entry' = new
  /\ lastHeld' = [n \in Name |-> [s \in Secret |->
       IF entry[n] = s /\ new[n] # s THEN clock ELSE lastHeld[n][s]]]

Value(u) == IF upd[u].op = "store" THEN u ELSE None

\* store_credentials or remove_credentials is called.
Begin(u, op) ==
  /\ upd[u].pc = "idle"
  /\ upd' = [v \in Updaters |->
       IF v = u
         THEN [NewUpdate EXCEPT !.pc = IF Provider = "manager" THEN "read" ELSE "open",
                                !.op = op, !.before = entry,
                                !.alone = \A w \in Updaters : ~Active(w)]
         ELSE [upd[v] EXCEPT !.alone = @ /\ ~Active(v)]]
  /\ UNCHANGED <<entry, lock, clock, lastHeld, broker>>

-----------------------------------------------------------------------------
(* Credential Manager: read, then write or delete, one entry after another. *)

InHand(u) == Names[upd[u].at]

ReadEntry(u) ==
  /\ upd[u].pc = "read"
  /\ \/ upd' = [upd EXCEPT ![u].pc = "write", ![u].prev[InHand(u)] = entry[InHand(u)]]
     \/ upd' = [upd EXCEPT ![u].pc = "rollback"]
  /\ UNCHANGED <<entry, lock, clock, lastHeld, broker>>

WriteEntry(u) ==
  /\ upd[u].pc = "write"
  /\ SetEntries([entry EXCEPT ![InHand(u)] = Value(u)])
  /\ upd' = [upd EXCEPT ![u].done = Append(@, InHand(u)),
                        ![u].at = @ + 1,
                        ![u].pc = IF upd[u].at = Len(Names) THEN "done" ELSE "read"]
  /\ UNCHANGED <<lock, clock, broker>>

WriteFails(u) ==
  /\ upd[u].pc = "write"
  /\ upd' = [upd EXCEPT ![u].pc = "rollback"]
  /\ UNCHANGED <<entry, lock, clock, lastHeld, broker>>

\* An entry that did not exist is deleted, another is written back.
Restored(u) == [entry EXCEPT ![Last(upd[u].done)] = upd[u].prev[Last(upd[u].done)]]

RollbackEntry(u) ==
  /\ upd[u].pc = "rollback"
  /\ upd[u].done # << >>
  /\ \/ /\ SetEntries(Restored(u))
        /\ upd' = [upd EXCEPT ![u].done = Front(@)]
     \/ /\ upd' = [upd EXCEPT ![u].done = Front(@), ![u].ok = FALSE]
        /\ UNCHANGED <<entry, lastHeld>>
  /\ UNCHANGED <<lock, clock, broker>>

RollbackEnds(u) ==
  /\ upd[u].pc = "rollback"
  /\ upd[u].done = << >>
  /\ upd' = [upd EXCEPT ![u].pc = "failed"]
  /\ UNCHANGED <<entry, lock, clock, lastHeld, broker>>

-----------------------------------------------------------------------------
(* DPAPI: one document, read and published inside one transaction. *)

\* Faulty variant: the document is read before the transaction is open.
OpensUnlocked(u) ==
  /\ upd[u].pc = "open"
  /\ upd' = [upd EXCEPT ![u].pc = "publish", ![u].prev = entry]
  /\ UNCHANGED <<entry, lock, clock, lastHeld, broker>>

OpenTransaction(u) ==
  /\ upd[u].pc = "open"
  /\ lock = None
  /\ lock' = u
  /\ upd' = [upd EXCEPT ![u].pc = "publish", ![u].prev = entry]
  /\ UNCHANGED <<entry, clock, lastHeld, broker>>

\* A store replaces the document by the credentials it was given; a removal
\* publishes what is left of it, or removes the file.
Document(u, S) ==
  [n \in Name |-> IF upd[u].op = "store" THEN (IF n \in S THEN u ELSE None)
                  ELSE IF n \in S THEN None ELSE upd[u].prev[n]]

PublishDocument(u) ==
  /\ upd[u].pc = "publish"
  /\ \E S \in SUBSET Name \ {{}} :
       /\ SetEntries(Document(u, S))
       /\ upd' = [upd EXCEPT ![u].pc = "done"]
  /\ lock' = None
  /\ UNCHANGED <<clock, broker>>

\* Decryption, protection or publication fails: nothing is replaced.
TransactionFails(u) ==
  /\ upd[u].pc = "publish"
  /\ upd' = [upd EXCEPT ![u].pc = "failed"]
  /\ lock' = None
  /\ UNCHANGED <<entry, clock, lastHeld, broker>>

Kill(u) ==
  /\ Active(u)
  /\ upd' = [upd EXCEPT ![u].pc = "killed"]
  /\ lock' = IF lock = u THEN None ELSE lock
  /\ UNCHANGED <<entry, clock, lastHeld, broker>>

-----------------------------------------------------------------------------
(* CredentialBroker: issue a handle, redeem it once. *)

\* Leases that _purge keeps.
Unexpired == {h \in Handles : lease[h] # None /\ clock < lease[h].expires}
Purged == [h \in Handles |-> IF h \in Unexpired THEN lease[h] ELSE None]

\* The provider loads the account's names and picks one; a value must exist.
Resolve(n) == entry[n]

\* The principal, name and operation are within the capsule and the secret
\* resolves; otherwise the call raises and only the purge remains.
Issue(h, b, n) ==
  /\ issued[h] = None
  /\ Cardinality(Unexpired) < MaxActive
  /\ Resolve(n) # None
  /\ LET new == [binding |-> b, name |-> n, secret |-> Resolve(n), expires |-> clock + Ttl]
     IN  /\ lease' = [Purged EXCEPT ![h] = new]
         /\ issued' = [issued EXCEPT ![h] = new]
  /\ UNCHANGED <<store, clock, uses>>

\* The lease is popped before anything is compared.
Popped(h) == [Purged EXCEPT ![h] = None]

Redeemable(h, b) == h \in Unexpired /\ lease[h].binding = b

\* A holder presents its handle with some capsule binding and operation.
Invoke(h, b) ==
  /\ issued[h] # None
  /\ lease' = Popped(h)
  /\ uses' = IF ~Redeemable(h, b) THEN uses
             ELSE uses \cup {[handle |-> h, binding |-> b, first |-> \A x \in uses : x.handle # h,
                              age |-> IF entry[lease[h].name] = lease[h].secret THEN 0
                                      ELSE clock - lastHeld[lease[h].name][lease[h].secret]]}
  /\ UNCHANGED <<store, clock, issued>>

Tick ==
  /\ clock < MaxClock
  /\ clock' = clock + 1
  /\ UNCHANGED <<store, broker>>

Next ==
  \/ \E u \in Updaters :
       \/ \E op \in {"store", "remove"} : Begin(u, op)
       \/ ReadEntry(u) \/ WriteEntry(u) \/ WriteFails(u) \/ RollbackEntry(u) \/ RollbackEnds(u)
       \/ OpenTransaction(u) \/ PublishDocument(u) \/ TransactionFails(u) \/ Kill(u)
  \/ \E h \in Handles, b \in Bindings :
       \/ \E n \in Name : Issue(h, b, n)
       \/ Invoke(h, b)
  \/ Tick

CustodySpec == CustodyInit /\ [][Next]_vars

-----------------------------------------------------------------------------
(* Types; the lock belongs to the updater inside its transaction. *)
CustodyTypeOK ==
  /\ entry \in [Name -> Secret \cup {None}]
  /\ lease \in [Handles -> Lease \cup {None}]
  /\ clock \in 0..MaxClock
  /\ \A u \in Updaters : (upd[u].pc = "publish") <=> (lock = u)

(* An update of Credential Manager that fails and does not report an incomplete
   rollback leaves every entry as it was, unless another update overlapped it
   (_store_credential_manager, _remove_credential_manager). *)
FailedUpdateRestores ==
  \A u \in Updaters :
    (/\ upd[u].pc = "failed" /\ upd[u].ok /\ upd[u].alone
     /\ \A v \in Updaters \ {u} : upd[v].pc = "idle")
      => entry = upd[u].before

RemovedStaysRemovedStep ==
    Provider = "dpapi" =>
      \A n \in Name : (entry[n] = None /\ entry'[n] # None)
        => \E u \in Updaters : entry'[n] = u /\ upd[u].op = "store" /\ upd[u].pc = "publish"

(* A removal from the DPAPI document is not undone by a concurrent update that
   read the document before it: a name that reappears was stored anew. *)
RemovedStaysRemoved == [][RemovedStaysRemovedStep]_vars

(* A handle gives out its secret at most once, and only for the binding it was
   issued for (CredentialBroker.invoke). *)
UsesAreExact ==
  \A x \in uses : x.first /\ issued[x.handle].binding = x.binding

(* A secret that was replaced or removed is used less than the handle's lifetime
   afterwards, however handles, updates and rollbacks interleave. *)
RotatedSecretsExpire == \A x \in uses : x.age < Ttl
=============================================================================
