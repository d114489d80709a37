-------------------------- MODULE LedgerMaintenance --------------------------
(***************************************************************************)
(* The administrator's tools of ledger-service beside the wallet commands: *)
(* rebuildAllBalanceProjections, which repairs rows of the table           *)
(* wallet_balance_projection that do not match their event streams, and    *)
(* reconcileWallet, which reports them.                                    *)
(*                                                                         *)
(* A stream is the aggregate it replays to (a balance and a version), and  *)
(* a row has these two columns for all of its columns.  What matters is    *)
(* when transactions read and write: commands and reconciliation are READ  *)
(* COMMITTED, a rebuild is SERIALIZABLE, and TypeORM's save reads the row  *)
(* and then inserts it, updates the columns that differ, or does nothing.  *)
(* The commands themselves are the subject of WalletLedger.                *)
(***************************************************************************)
EXTENDS Integers

CONSTANTS
    Wallets,      \* positions in the order of the wallet ids
    Rebuilds,     \* slots for rebuilds
    Readers,      \* slots for reconciliations
    Amounts,      \* deposits (positive) and withdrawals (negative)
    Balances,     \* what a damaged row may contain
    MaxVersion,   \* bound on the length of a stream
    MaxDamages    \* bound on the rows changed by hand

ASSUME MaintenanceAssumption ==
    /\ Wallets \subseteq Nat
    /\ Amounts \subseteq Int
    /\ Balances \subseteq Nat
    /\ MaxVersion \in Nat /\ MaxDamages \in Nat

VARIABLES
    stream,     \* wallet |-> the aggregate of its committed events
    row,        \* wallet |-> its committed projection
    command,    \* wallet |-> the transaction that has appended an event to it
    rebuild,    \* the local state of each rebuild
    reader,     \* the local state of each reconciliation
    damages,    \* number of rows changed by hand
    intact      \* the wallets whose row never was

vars == <<stream, row, command, rebuild, reader, damages, intact>>

Columns == {"balance", "version"}
State == [balance: Nat, version: Nat]

\* A wallet after openWallet, and a row that is not there: the table has a CHECK
\* that versions of rows are positive.
Opened == [balance |-> 0, version |-> 1]
NoRow == [balance |-> 0, version |-> 0]

CommandState == [pc: {"none", "save"}, new: State, found: State]
RebuildState == [pc: {"none", "save"}, streams: [Wallets -> State], rows: [Wallets -> State],
                 todo: SUBSET Wallets, wrote: SUBSET Wallets, changed: SUBSET Wallets]
ReaderState == [pc: {"none", "loaded", "consistent", "alarm"}, wallet: Nat,
                derived: State, materialized: State]

Matches(w) == row[w] = stream[w]

NoCommand == [pc |-> "none", new |-> NoRow, found |-> NoRow]
NoRebuild == [pc |-> "none", streams |-> [w \in Wallets |-> NoRow],
              rows |-> [w \in Wallets |-> NoRow], todo |-> {}, wrote |-> {}, changed |-> {}]
NoReader == [pc |-> "none", wallet |-> 0, derived |-> NoRow, materialized |-> NoRow]

Init ==
    /\ stream = [w \in Wallets |-> Opened]
    /\ row = [w \in Wallets |-> Opened]
    /\ command = [w \in Wallets |-> NoCommand]
    /\ rebuild = [r \in Rebuilds |-> NoRebuild]
    /\ reader = [k \in Readers |-> NoReader]
    /\ damages = 0
    /\ intact = Wallets

-----------------------------------------------------------------------------
(* Rows and their locks *)

\* Mutant: save does not touch the version.
SaveBalance(old, found, new) == [old EXCEPT !.balance = new.balance]

\* save: an INSERT if it found no row, or an UPDATE of the columns in which the
\* row found differs from the new one, which finds nothing to update if the row
\* is gone by then.
Save(old, found, new) ==
    CASE found = NoRow -> new
      [] found # NoRow /\ old = NoRow -> NoRow
      [] found # NoRow /\ old # NoRow ->
            [c \in Columns |-> IF found[c] # new[c] THEN new[c] ELSE old[c]]

\* save issues a statement: nothing is sent when no column differs.
Issues(found, new) == found # new

\* The statement touches a row: an INSERT does, an UPDATE if the row is there.
Touches(old, found, new) == Issues(found, new) /\ (found = NoRow \/ old # NoRow)

\* The primary key refuses an INSERT of a row that is there by then.
Refused(old, found) == found = NoRow /\ old # NoRow

\* A rebuild has updated or inserted the row and not committed.
LockedByRebuild(w) == \E r \in Rebuilds : w \in rebuild[r].wrote

\* A committed change of a row is a conflict for every snapshot taken before it.
Changed(ws) ==
    [r \in Rebuilds |-> IF rebuild[r].pc = "none" THEN rebuild[r]
                        ELSE [rebuild[r] EXCEPT !.changed = @ \cup ws]]

\* The row is deleted, edited or restored by hand: it may be behind its stream or
\* ahead of it.
Damage(w) ==
    /\ damages < MaxDamages
    /\ ~LockedByRebuild(w)
    /\ \E d \in {NoRow} \cup [balance: Balances, version: 1..MaxVersion] :
          d # row[w] /\ row' = [row EXCEPT ![w] = d]
    /\ rebuild' = Changed({w})
    /\ damages' = damages + 1
    /\ intact' = intact \ {w}
    /\ UNCHANGED <<stream, command, reader>>

-----------------------------------------------------------------------------
(* Commands *)

\* Mutant: an overdraft.
ProjectOverdraft(w) ==
    /\ command[w].pc = "none"
    /\ stream[w].version < MaxVersion
    /\ \E a \in Amounts :
          command' = [command EXCEPT ![w] =
                [pc |-> "save", found |-> row[w],
                 new |-> [balance |-> stream[w].balance + a,
                          version |-> stream[w].version + 1]]]
    /\ UNCHANGED <<stream, row, rebuild, reader, damages, intact>>

\* The command has appended its event, and project reads the row.  A second
\* command waits for the version that the first one has taken.
Project(w) ==
    /\ command[w].pc = "none"
    /\ stream[w].version < MaxVersion
    /\ \E a \in Amounts :
          /\ stream[w].balance + a >= 0
          /\ command' = [command EXCEPT ![w] =
                [pc |-> "save", found |-> row[w],
                 new |-> [balance |-> stream[w].balance + a,
                          version |-> stream[w].version + 1]]]
    /\ UNCHANGED <<stream, row, rebuild, reader, damages, intact>>

\* Mutant: the projection is left to a later transaction.
CommitEventOnly(w) ==
    /\ command[w].pc = "save"
    /\ stream' = [stream EXCEPT ![w] = command[w].new]
    /\ command' = [command EXCEPT ![w] = NoCommand]
    /\ UNCHANGED <<row, rebuild, reader, damages, intact>>

\* The statement, if save issues one, waits for a rebuild that has locked the row.
\* What it touches is a change for the rebuilds under way.
Commit(w) ==
    LET c == command[w]
    IN  /\ c.pc = "save"
        /\ Issues(c.found, c.new) => ~LockedByRebuild(w) /\ ~Refused(row[w], c.found)
        /\ stream' = [stream EXCEPT ![w] = c.new]
        /\ row' = [row EXCEPT ![w] = Save(row[w], c.found, c.new)]
        /\ rebuild' = IF Touches(row[w], c.found, c.new) THEN Changed({w}) ELSE rebuild
        /\ command' = [command EXCEPT ![w] = NoCommand]
        /\ UNCHANGED <<reader, damages, intact>>

\* An error, a refused INSERT among them, or a crash.
Rollback(w) ==
    /\ command[w].pc = "save"
    /\ command' = [command EXCEPT ![w] = NoCommand]
    /\ UNCHANGED <<stream, row, rebuild, reader, damages, intact>>

-----------------------------------------------------------------------------
(* rebuildAllBalanceProjections *)

\* The first statement takes the snapshot for the whole transaction.
Snapshot(r) ==
    /\ rebuild[r].pc = "none"
    /\ rebuild' = [rebuild EXCEPT ![r] =
          [pc |-> "save", streams |-> stream, rows |-> row, todo |-> Wallets, wrote |-> {},
           changed |-> {}]]
    /\ UNCHANGED <<stream, row, command, reader, damages, intact>>

Forget(r) == rebuild' = [rebuild EXCEPT ![r] = NoRebuild]

\* Mutant: READ COMMITTED, an UPDATE overwrites what was committed meanwhile.
ConflictsNever(r, w) == FALSE

\* could not serialize access due to concurrent update, or delete; an INSERT is
\* refused by the primary key
Conflicts(r, w) == w \in rebuild[r].changed

\* The wallets in the order of their ids.  A row that matches in the snapshot is
\* left alone; the statement waits for another rebuild's lock.
SaveRow(r) ==
    \E w \in rebuild[r].todo :
        /\ \A v \in rebuild[r].todo : w <= v
        /\ LET next == [rebuild[r] EXCEPT !.todo = @ \ {w}]
           IN  IF ~Issues(rebuild[r].rows[w], rebuild[r].streams[w])
               THEN rebuild' = [rebuild EXCEPT ![r] = next]
               ELSE /\ ~LockedByRebuild(w)
                    /\ IF Conflicts(r, w) THEN Forget(r)
                       ELSE rebuild' = [rebuild EXCEPT ![r] =
                                [next EXCEPT !.wrote = @ \cup {w}]]
        /\ UNCHANGED <<stream, row, command, reader, damages, intact>>

CommitRebuild(r) ==
    /\ rebuild[r].pc = "save"
    /\ rebuild[r].todo = {}
    /\ row' = [w \in Wallets |->
          IF w \in rebuild[r].wrote
          THEN Save(row[w], rebuild[r].rows[w], rebuild[r].streams[w]) ELSE row[w]]
    /\ rebuild' = [Changed(rebuild[r].wrote) EXCEPT ![r] = NoRebuild]
    /\ UNCHANGED <<stream, command, reader, damages, intact>>

\* An error (a stream of another wallet, a statement that fails), or a crash.
AbortRebuild(r) ==
    /\ rebuild[r].pc = "save"
    /\ Forget(r)
    /\ UNCHANGED <<stream, row, command, reader, damages, intact>>

-----------------------------------------------------------------------------
(* reconcileWallet *)

LoadStream(k, w) ==
    /\ reader[k].pc # "loaded"
    /\ reader' = [reader EXCEPT ![k] =
          [pc |-> "loaded", wallet |-> w, derived |-> stream[w], materialized |-> NoRow]]
    /\ UNCHANGED <<stream, row, command, rebuild, damages, intact>>

\* The projection is read by a statement of its own; a missing one is not
\* consistent with anything.
Compare(k) ==
    /\ reader[k].pc = "loaded"
    /\ reader' = [reader EXCEPT ![k].materialized = row[reader[k].wallet],
                                ![k].pc = IF row[reader[k].wallet] = reader[k].derived
                                          THEN "consistent" ELSE "alarm"]
    /\ UNCHANGED <<stream, row, command, rebuild, damages, intact>>

-----------------------------------------------------------------------------

Next ==
    \/ \E w \in Wallets : Damage(w) \/ Project(w) \/ Commit(w) \/ Rollback(w)
    \/ \E r \in Rebuilds : Snapshot(r) \/ SaveRow(r) \/ CommitRebuild(r) \/ AbortRebuild(r)
    \/ \E k \in Readers : (\E w \in Wallets : LoadStream(k, w)) \/ Compare(k)

Spec == Init /\ [][Next]_vars

-----------------------------------------------------------------------------
(* Properties *)

\* Every variable has its type.
TypeOK ==
    /\ stream \in [Wallets -> State]
    /\ row \in [Wallets -> State]
    /\ command \in [Wallets -> CommandState]
    /\ rebuild \in [Rebuilds -> RebuildState]
    /\ reader \in [Readers -> ReaderState]
    /\ damages \in 0..MaxDamages
    /\ intact \subseteq Wallets

\* The step commits a command whose save has read another row than the one that
\* it updates.
StaleSave(w) == stream'[w] # stream[w] /\ command[w].found # row[w]

\* The step commits a rebuild in whose snapshot the row is ahead of its stream.  A
\* command that then makes the stream catch up changes no column of the row.
AheadInSnapshot(w) ==
    \E r \in Rebuilds : /\ w \in rebuild[r].wrote \ rebuild'[r].wrote
                        /\ rebuild[r].rows[w].version > rebuild[r].streams[w].version

\* A projection that matches its stream stays so through all commands and rebuilds,
\* however they overlap, unless it is damaged now or has been: then a command may
\* lose it whose save has read the row before a repair, and a rebuild that has seen
\* the row ahead of its stream.
MatchStays ==
    [][\A w \in Wallets :
          Matches(w) => \/ Matches(w)' \/ damages' # damages
                        \/ w \notin intact /\ (StaleSave(w) \/ AheadInSnapshot(w))]_vars

\* Rebuild r commits.
Commits(r) == rebuild[r].pc = "save" /\ rebuild[r].todo = {} /\ rebuild'[r].pc = "none"
                  /\ row' # row

\* A rebuild that commits has repaired all rows, missing ones included, but those
\* that others have touched since its snapshot, and those of wallets with a newer
\* event whose command has touched no row.
RebuildRepairs ==
    [][\A r \in Rebuilds : Commits(r) =>
          \A w \in Wallets \ rebuild[r].changed :
              Matches(w)' \/ stream[w] # rebuild[r].streams[w]]_vars

\* README, Outbox and consistency: "strong inside one service transaction -- ledger
\* event/postings/projection": a command commits its event with its projection, and a
\* row that matched still matches.
CommandsKeepMatch ==
    [][\A w \in Wallets :
          Matches(w) /\ stream'[w] # stream[w] => Matches(w)']_vars

\* README, Event sourcing: "Projections can be rebuilt deterministically": a rebuild
\* never takes a row that matches its stream away from it.
RebuildsKeepMatch ==
    [][\A r \in Rebuilds : Commits(r) =>
          \A w \in Wallets : Matches(w) => Matches(w)']_vars

\* An alarm about a row that was never damaged is false, and shows itself as
\* such: the projection is newer than the events compared with it.
FalseAlarmsShow ==
    \A k \in Readers :
        reader[k].pc = "alarm" /\ reader[k].wallet \in intact
        => reader[k].materialized.version > reader[k].derived.version
=============================================================================
