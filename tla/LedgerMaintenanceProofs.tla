----------------------- MODULE LedgerMaintenanceProofs -----------------------
(***************************************************************************)
(* Theorems about LedgerMaintenance, for any number of wallets, rebuilds   *)
(* and reconciliations.  The invariant behind them says what a rebuild may *)
(* rely on: a row that nobody has touched since its snapshot is still as   *)
(* the snapshot shows it, and what it has written nobody has touched.  Of  *)
(* a stream it knows less: it may have grown without the row, unless the   *)
(* row was never damaged.                                                  *)
(***************************************************************************)
EXTENDS LedgerMaintenance, TLAPS

\* The rows in the snapshot of a rebuild are current except where others have
\* touched them.
SnapshotCurrent ==
    \A r \in Rebuilds : rebuild[r].pc = "save" =>
        \A w \in Wallets \ rebuild[r].changed : row[w] = rebuild[r].rows[w]

\* Streams only grow: the snapshot has the stream, or a shorter one; and a newer
\* event of a wallet whose row was never damaged has touched its row.
SnapshotBehind ==
    \A r \in Rebuilds : rebuild[r].pc = "save" =>
        \A w \in Wallets :
            \/ rebuild[r].streams[w] = stream[w]
            \/ /\ rebuild[r].streams[w].version < stream[w].version
               /\ w \notin intact \/ w \in rebuild[r].changed

\* A rebuild has written the rows that it has passed and that did not match, and
\* holds their locks.
RebuildProgress ==
    \A r \in Rebuilds :
        /\ rebuild[r].pc = "none" => rebuild[r].wrote = {} /\ rebuild[r].todo = {}
        /\ \A w \in rebuild[r].wrote :
              w \notin rebuild[r].changed /\ rebuild[r].rows[w] # rebuild[r].streams[w]
        /\ rebuild[r].pc = "save" =>
              \A w \in Wallets \ rebuild[r].todo :
                  rebuild[r].rows[w] = rebuild[r].streams[w] \/ w \in rebuild[r].wrote

\* Two rebuilds never lock one row.
LocksExclude ==
    \A r, q \in Rebuilds : r # q => rebuild[r].wrote \cap rebuild[q].wrote = {}

\* A row that was never damaged matches its stream, and so does what a command
\* has read of it.
IntactMatches ==
    \A w \in intact : /\ Matches(w)
                      /\ command[w].pc = "save" => command[w].found = row[w]

\* A command is one event ahead of its stream.
CommandsAhead ==
    \A w \in Wallets : command[w].pc = "save" =>
        command[w].new.version = stream[w].version + 1

\* Every stream begins with the event of openWallet.
StreamsOpened == \A w \in Wallets : stream[w].version > 0

\* Streams only grow: what a reconciliation has loaded is the stream, or shorter.
ReadersBehind ==
    \A k \in Readers : reader[k].pc = "loaded" =>
        /\ reader[k].wallet \in Wallets
        /\ \/ reader[k].derived = stream[reader[k].wallet]
           \/ reader[k].derived.version < stream[reader[k].wallet].version

IInv ==
    /\ TypeOK
    /\ SnapshotCurrent
    /\ SnapshotBehind
    /\ RebuildProgress
    /\ LocksExclude
    /\ IntactMatches
    /\ CommandsAhead
    /\ StreamsOpened
    /\ ReadersBehind
    /\ FalseAlarmsShow

-----------------------------------------------------------------------------

LEMMA ChangedType ==
    ASSUME TypeOK, NEW ws \in SUBSET Wallets
    PROVE  /\ Changed(ws) \in [Rebuilds -> RebuildState]
           /\ \A r \in Rebuilds :
                 /\ Changed(ws)[r].pc = rebuild[r].pc
                 /\ Changed(ws)[r].streams = rebuild[r].streams
                 /\ Changed(ws)[r].rows = rebuild[r].rows
                 /\ Changed(ws)[r].todo = rebuild[r].todo
                 /\ Changed(ws)[r].wrote = rebuild[r].wrote
                 /\ rebuild[r].pc = "none" => Changed(ws)[r] = rebuild[r]
                 /\ rebuild[r].pc = "save" => Changed(ws)[r].changed = rebuild[r].changed \cup ws
  <1> SUFFICES ASSUME NEW r \in Rebuilds
               PROVE  /\ Changed(ws)[r] \in RebuildState
                      /\ Changed(ws)[r].pc = rebuild[r].pc
                      /\ Changed(ws)[r].streams = rebuild[r].streams
                      /\ Changed(ws)[r].rows = rebuild[r].rows
                      /\ Changed(ws)[r].todo = rebuild[r].todo
                      /\ Changed(ws)[r].wrote = rebuild[r].wrote
                      /\ rebuild[r].pc = "none" => Changed(ws)[r] = rebuild[r]
                      /\ rebuild[r].pc = "save" =>
                            Changed(ws)[r].changed = rebuild[r].changed \cup ws
    BY DEF Changed
  <1>1. rebuild[r] \in RebuildState
    BY DEF TypeOK
  <1>2. CASE rebuild[r].pc = "none"
    BY <1>1, <1>2 DEF Changed, RebuildState
  <1>3. CASE rebuild[r].pc # "none"
    BY <1>1, <1>3 DEF Changed, RebuildState
  <1> QED
    BY <1>2, <1>3

LEMMA SaveType ==
    ASSUME NEW old \in State, NEW found \in State, NEW new \in State
    PROVE  /\ Save(old, found, new) \in State
           /\ old = found => Save(old, found, new) = new
<1>1. NoRow \in State
  BY DEF NoRow, State
<1>2. [c \in Columns |-> IF found[c] # new[c] THEN new[c] ELSE old[c]] \in State
  BY DEF State, Columns
<1>3. old = found => [c \in Columns |-> IF found[c] # new[c] THEN new[c] ELSE old[c]] = new
  BY DEF State, Columns
<1> QED
  BY <1>1, <1>2, <1>3 DEF Save

\* A command that leaves its row untouched leaves it as it is.
LEMMA UntouchedSave ==
    ASSUME NEW old \in State, NEW found \in State, NEW new \in State,
           ~Touches(old, found, new), found = NoRow => found # new
    PROVE  Save(old, found, new) = old
<1>1. [c \in Columns |-> old[c]] = old
  BY DEF State, Columns
<1> QED
  BY <1>1 DEF Save, Touches, Issues

LEMMA IdleTypes ==
    /\ NoRow \in State /\ Opened \in State /\ Opened.version > 0 /\ NoRow.version = 0
    /\ NoCommand \in CommandState
    /\ NoRebuild \in RebuildState
    /\ NoReader \in ReaderState
    /\ NoRebuild.pc = "none" /\ NoRebuild.wrote = {} /\ NoRebuild.todo = {}
    /\ NoCommand.pc = "none"
  BY DEF NoRow, Opened, NoCommand, NoRebuild, NoReader, State, CommandState, RebuildState, ReaderState

LEMMA InitIInv == Init => IInv
  BY IdleTypes, MaintenanceAssumption DEF Init, IInv, TypeOK, SnapshotCurrent, SnapshotBehind,
     RebuildProgress, LocksExclude, IntactMatches, CommandsAhead, StreamsOpened, ReadersBehind, FalseAlarmsShow, Matches, NoReader

\* Every step keeps the types.
LEMMA NextTypeOK == TypeOK /\ ReadersBehind /\ [Next]_vars => TypeOK'
  <1> SUFFICES ASSUME TypeOK, ReadersBehind, [Next]_vars PROVE TypeOK'
    OBVIOUS
  <1> USE MaintenanceAssumption
  <1>1. CASE UNCHANGED vars
    BY <1>1 DEF TypeOK, vars
  <1>2. ASSUME NEW w \in Wallets, Damage(w) PROVE TypeOK'
    <2>1. PICK d \in {NoRow} \cup [balance: Balances, version: 1..MaxVersion] :
             row' = [row EXCEPT ![w] = d]
      BY <1>2 DEF Damage
    <2>2. ASSUME NEW e \in [balance: Balances, version: 1..MaxVersion] PROVE e \in State
      <3> DEFINE versions == 1..MaxVersion
      <3>1. versions \subseteq Nat
        OBVIOUS
      <3> HIDE DEF versions
      <3>2. ASSUME NEW f \in [balance: Balances, version: versions] PROVE f \in State
        BY <3>1, <3>2 DEF State
      <3> QED
        BY <3>2 DEF versions
    <2>3. d \in State
      BY <2>2, IdleTypes
    <2> QED
      BY <1>2, <2>1, <2>3, ChangedType, damages + 1 \in 0..MaxDamages DEF Damage, TypeOK
  <1>3. ASSUME NEW w \in Wallets, Project(w) PROVE TypeOK'
    <2>1. PICK a \in Amounts :
             /\ stream[w].balance + a >= 0
             /\ command' = [command EXCEPT ![w] =
                   [pc |-> "save", found |-> row[w],
                    new |-> [balance |-> stream[w].balance + a,
                             version |-> stream[w].version + 1]]]
      BY <1>3 DEF Project
    <2>2. /\ stream[w].balance + a \in Nat
          /\ stream[w].version + 1 \in Nat
      BY <2>1 DEF TypeOK, State
    <2> QED
      BY <1>3, <2>1, <2>2 DEF Project, TypeOK, State, CommandState
  <1>4. ASSUME NEW w \in Wallets, Commit(w) PROVE TypeOK'
    <2>1. command[w].found \in State /\ command[w].new \in State /\ row[w] \in State
      BY DEF TypeOK, CommandState
    <2>2. Save(row[w], command[w].found, command[w].new) \in State
      BY <2>1, SaveType
    <2>3. Changed({w}) \in [Rebuilds -> RebuildState]
      BY ChangedType
    <2> QED
      BY <1>4, <2>1, <2>2, <2>3, IdleTypes DEF Commit, TypeOK
  <1>5. ASSUME NEW w \in Wallets, Rollback(w) PROVE TypeOK'
    BY <1>5, IdleTypes DEF Rollback, TypeOK
  <1>6. ASSUME NEW r \in Rebuilds, Snapshot(r) PROVE TypeOK'
    BY <1>6 DEF Snapshot, TypeOK, RebuildState
  <1>7. ASSUME NEW r \in Rebuilds, SaveRow(r) PROVE TypeOK'
    <2>1. PICK w \in rebuild[r].todo :
             \/ rebuild' = [rebuild EXCEPT ![r] = [rebuild[r] EXCEPT !.todo = @ \ {w}]]
             \/ rebuild' = [rebuild EXCEPT ![r] = NoRebuild]
             \/ rebuild' = [rebuild EXCEPT ![r] =
                   [[rebuild[r] EXCEPT !.todo = @ \ {w}] EXCEPT !.wrote = @ \cup {w}]]
      BY <1>7 DEF SaveRow, Forget
    <2>2. rebuild[r] \in RebuildState /\ w \in Wallets
      BY DEF TypeOK, RebuildState
    <2>3. /\ [rebuild[r] EXCEPT !.todo = @ \ {w}] \in RebuildState
          /\ [[rebuild[r] EXCEPT !.todo = @ \ {w}] EXCEPT !.wrote = @ \cup {w}] \in RebuildState
      BY <2>2 DEF RebuildState
    <2>4. rebuild' \in [Rebuilds -> RebuildState]
      BY <2>1, <2>3, IdleTypes DEF TypeOK
    <2> QED
      BY <1>7, <2>4 DEF SaveRow, TypeOK
  <1>8. ASSUME NEW r \in Rebuilds, CommitRebuild(r) PROVE TypeOK'
    <2>1. ASSUME NEW w \in Wallets
          PROVE  Save(row[w], rebuild[r].rows[w], rebuild[r].streams[w]) \in State
      BY SaveType DEF TypeOK, RebuildState
    <2>2. rebuild[r].wrote \in SUBSET Wallets
      BY DEF TypeOK, RebuildState
    <2> QED
      BY <1>8, <2>1, <2>2, ChangedType, IdleTypes DEF CommitRebuild, TypeOK
  <1>9. ASSUME NEW r \in Rebuilds, AbortRebuild(r) PROVE TypeOK'
    BY <1>9, IdleTypes DEF AbortRebuild, Forget, TypeOK
  <1>10. ASSUME NEW k \in Readers, NEW w \in Wallets, LoadStream(k, w) PROVE TypeOK'
    BY <1>10, IdleTypes DEF LoadStream, TypeOK, ReaderState
  <1>11. ASSUME NEW k \in Readers, Compare(k) PROVE TypeOK'
    <2>1. reader[k] \in ReaderState /\ row[reader[k].wallet] \in State
      BY <1>11 DEF Compare, TypeOK, ReadersBehind
    <2> QED
      BY <1>11, <2>1 DEF Compare, TypeOK, ReaderState
  <1> QED
    BY <1>1, <1>2, <1>3, <1>4, <1>5, <1>6, <1>7, <1>8, <1>9, <1>10, <1>11 DEF Next

\* The step changes rows of ws, which are then changed for all other rebuilds;
\* no other rebuild had written them.
LEMMA OthersChange ==
    ASSUME IInv, TypeOK', NEW ws \in SUBSET Wallets, rebuild' = Changed(ws),
           \A r \in Rebuilds : rebuild[r].wrote \cap ws = {},
           \A w \in Wallets \ ws : row'[w] = row[w]
    PROVE  SnapshotCurrent' /\ RebuildProgress' /\ LocksExclude'
  <1> USE DEF IInv
  <1>1. SnapshotCurrent'
    BY ChangedType DEF SnapshotCurrent
  <1>2. RebuildProgress'
    <2> SUFFICES ASSUME NEW r \in Rebuilds
                 PROVE  /\ rebuild'[r].pc = "none" => rebuild'[r].wrote = {} /\ rebuild'[r].todo = {}
                        /\ \A w \in rebuild'[r].wrote :
                              /\ w \notin rebuild'[r].changed
                              /\ rebuild'[r].rows[w] # rebuild'[r].streams[w]
                        /\ rebuild'[r].pc = "save" =>
                              \A w \in Wallets \ rebuild'[r].todo :
                                  \/ rebuild'[r].rows[w] = rebuild'[r].streams[w]
                                  \/ w \in rebuild'[r].wrote
      BY DEF RebuildProgress
    <2>1. rebuild[r].pc \in {"none", "save"}
      BY DEF TypeOK, RebuildState
    <2> QED
      BY <2>1, ChangedType DEF RebuildProgress
  <1>3. LocksExclude'
    BY ChangedType DEF LocksExclude
  <1> QED
    BY <1>1, <1>2, <1>3

\* Every step keeps the invariant.
LEMMA NextIInv == IInv /\ [Next]_vars => IInv'
  <1> SUFFICES ASSUME IInv, [Next]_vars PROVE IInv'
    OBVIOUS
  <1> USE MaintenanceAssumption DEF IInv
  <1>0. TypeOK'
    BY NextTypeOK
  <1>1. CASE UNCHANGED vars
    BY <1>1, <1>0 DEF vars, SnapshotCurrent, SnapshotBehind, RebuildProgress, LocksExclude,
       IntactMatches, CommandsAhead, StreamsOpened, ReadersBehind, FalseAlarmsShow, Matches
  <1>2. ASSUME NEW w \in Wallets, Damage(w) PROVE IInv'
    <2>1. /\ stream' = stream /\ command' = command /\ reader' = reader
          /\ intact' = intact \ {w}
          /\ \A v \in Wallets \ {w} : row'[v] = row[v]
      BY <1>2 DEF Damage, TypeOK
    <2>2. SnapshotCurrent' /\ RebuildProgress' /\ LocksExclude'
      <3>1. \A r \in Rebuilds : rebuild[r].wrote \cap {w} = {}
        BY <1>2 DEF Damage, LockedByRebuild
      <3> QED
        BY <1>0, <1>2, <2>1, <3>1, OthersChange DEF Damage
    <2>3. IntactMatches'
      BY <2>1 DEF IntactMatches, Matches, TypeOK
    <2>4. SnapshotBehind'
      BY <1>2, <2>1, ChangedType DEF Damage, SnapshotBehind
    <2> QED
      BY <1>0, <2>1, <2>2, <2>3, <2>4 DEF CommandsAhead, StreamsOpened, ReadersBehind,
         FalseAlarmsShow
  <1>3. ASSUME NEW w \in Wallets, Project(w) PROVE IInv'
    <2>1. /\ UNCHANGED <<stream, row, rebuild, reader, intact>>
          /\ \A v \in Wallets \ {w} : command'[v] = command[v]
          /\ command'[w].found = row[w]
          /\ command'[w].new.version = stream[w].version + 1
      BY <1>3 DEF Project, TypeOK
    <2> QED
      BY <1>0, <2>1 DEF SnapshotCurrent, SnapshotBehind, RebuildProgress, LocksExclude,
         IntactMatches, CommandsAhead, StreamsOpened, ReadersBehind, FalseAlarmsShow, Matches,
         TypeOK
  <1>4. ASSUME NEW w \in Wallets, Commit(w) PROVE IInv'
    <2> DEFINE touches == Touches(row[w], command[w].found, command[w].new)
    <2>0. /\ row[w] \in State /\ command[w].found \in State /\ command[w].new \in State
          /\ command[w].new.version = stream[w].version + 1 /\ stream[w].version \in Nat
          /\ stream[w].version > 0
          /\ command[w].new # NoRow
      <3>1. /\ row[w] \in State /\ command[w].found \in State /\ command[w].new \in State
            /\ stream[w] \in State
        BY DEF TypeOK, CommandState
      <3>2. command[w].new.version = stream[w].version + 1 /\ stream[w].version > 0
        BY <1>4 DEF Commit, CommandsAhead, StreamsOpened
      <3> QED
        BY <3>1, <3>2 DEF State, NoRow
    <2>1. /\ stream' = [stream EXCEPT ![w] = command[w].new]
          /\ row' = [row EXCEPT ![w] = Save(row[w], command[w].found, command[w].new)]
          /\ command' = [command EXCEPT ![w] = NoCommand]
          /\ reader' = reader /\ intact' = intact
          /\ rebuild' = IF touches THEN Changed({w}) ELSE rebuild
          /\ command[w].pc = "save"
      BY <1>4 DEF Commit
    <2>2. SnapshotCurrent' /\ RebuildProgress' /\ LocksExclude'
      <3>1. CASE touches
        <4>1. \A r \in Rebuilds : rebuild[r].wrote \cap {w} = {}
          BY <1>4, <3>1 DEF Commit, LockedByRebuild, Touches
        <4>2. \A v \in Wallets \ {w} : row'[v] = row[v]
          BY <2>1 DEF TypeOK
        <4>3. rebuild' = Changed({w})
          BY <2>1, <3>1
        <4> QED
          BY <1>0, <4>1, <4>2, <4>3, OthersChange
      <3>2. CASE ~touches
        <4>1. Save(row[w], command[w].found, command[w].new) = row[w]
          BY <2>0, <3>2, UntouchedSave
        <4>2. row' = row /\ rebuild' = rebuild
          BY <2>1, <3>2, <4>1 DEF TypeOK
        <4> QED
          BY <4>2 DEF SnapshotCurrent, RebuildProgress, LocksExclude
      <3> QED
        BY <3>1, <3>2
    <2>7. SnapshotBehind'
      <3>1. w \in intact => touches
        <4> SUFFICES ASSUME w \in intact PROVE touches
          OBVIOUS
        <4>1. command[w].found = row[w] /\ row[w] = stream[w]
          BY <2>1 DEF IntactMatches, Matches
        <4> QED
          BY <2>0, <4>1 DEF Touches, Issues, NoRow
      <3> SUFFICES ASSUME NEW r \in Rebuilds, rebuild'[r].pc = "save", NEW v \in Wallets
                   PROVE  \/ rebuild'[r].streams[v] = stream'[v]
                          \/ /\ rebuild'[r].streams[v].version < stream'[v].version
                             /\ v \notin intact' \/ v \in rebuild'[r].changed
        BY DEF SnapshotBehind
      <3>2. /\ rebuild'[r].streams = rebuild[r].streams /\ rebuild[r].pc = "save"
            /\ rebuild[r].changed \subseteq rebuild'[r].changed
            /\ touches => w \in rebuild'[r].changed
        BY <2>1, ChangedType
      <3>3. rebuild[r].streams[v].version \in Nat
        BY DEF TypeOK, RebuildState, State
      <3>4. \/ rebuild[r].streams[v] = stream[v]
            \/ /\ rebuild[r].streams[v].version < stream[v].version
               /\ v \notin intact \/ v \in rebuild[r].changed
        BY <3>2 DEF SnapshotBehind
      <3>5. CASE v = w
        <4>1. stream'[v].version = stream[v].version + 1
          BY <2>0, <2>1, <3>5 DEF TypeOK
        <4>2. rebuild[r].streams[v].version < stream'[v].version
          BY <2>0, <3>3, <3>4, <3>5, <4>1
        <4> QED
          BY <2>1, <3>1, <3>2, <3>5, <4>2
      <3>6. CASE v # w
        <4>1. stream'[v] = stream[v]
          BY <2>1, <3>6 DEF TypeOK
        <4> QED
          BY <2>1, <3>2, <3>4, <4>1
      <3> QED
        BY <3>5, <3>6
    <2>8. StreamsOpened'
      <3>1. command[w].new.version > 0
        BY <2>0
      <3>2. \A v \in Wallets : stream'[v] = IF v = w THEN command[w].new ELSE stream[v]
        BY <2>1 DEF TypeOK
      <3> QED
        BY <3>1, <3>2 DEF StreamsOpened
    <2>3. IntactMatches'
      <3>1. w \in intact => Save(row[w], command[w].found, command[w].new) = command[w].new
        BY <1>4, SaveType DEF Commit, IntactMatches, TypeOK, CommandState
      <3> QED
        BY <2>1, <3>1, IdleTypes DEF IntactMatches, Matches, TypeOK
    <2>4. CommandsAhead'
      BY <2>1, IdleTypes DEF CommandsAhead, TypeOK
    <2>5. ReadersBehind'
      <3>1. /\ command[w].new.version = stream[w].version + 1
            /\ stream[w].version \in Nat
        BY <1>4 DEF CommandsAhead, Commit, TypeOK, State
      <3>2. \A k \in Readers : reader[k].derived.version \in Nat
        BY DEF TypeOK, ReaderState, State
      <3> QED
        BY <2>1, <3>1, <3>2 DEF ReadersBehind, TypeOK
    <2> QED
      BY <1>0, <2>1, <2>2, <2>3, <2>4, <2>5, <2>7, <2>8 DEF FalseAlarmsShow
  <1>5. ASSUME NEW w \in Wallets, Rollback(w) PROVE IInv'
    <2>1. /\ UNCHANGED <<stream, row, rebuild, reader, intact>>
          /\ command' = [command EXCEPT ![w] = NoCommand]
      BY <1>5 DEF Rollback
    <2> QED
      BY <1>0, <2>1, IdleTypes DEF SnapshotCurrent, SnapshotBehind, RebuildProgress, LocksExclude,
         IntactMatches, CommandsAhead, StreamsOpened, ReadersBehind, FalseAlarmsShow, Matches,
         TypeOK
  <1>6. ASSUME NEW r \in Rebuilds, UNCHANGED <<stream, row, command, reader, intact>>,
               SnapshotCurrent', SnapshotBehind', RebuildProgress', LocksExclude'
        PROVE  IInv'
    BY <1>0, <1>6 DEF IntactMatches, CommandsAhead, StreamsOpened, ReadersBehind, FalseAlarmsShow,
       Matches
  <1>7. ASSUME NEW r \in Rebuilds, Snapshot(r) PROVE IInv'
    <2>1. /\ \A q \in Rebuilds \ {r} : rebuild'[q] = rebuild[q]
          /\ rebuild'[r] = [pc |-> "save", streams |-> stream, rows |-> row, todo |-> Wallets,
                            wrote |-> {}, changed |-> {}]
          /\ UNCHANGED <<stream, row, command, reader, intact>>
      BY <1>7 DEF Snapshot, TypeOK
    <2>2. SnapshotCurrent'
      <3> SUFFICES ASSUME NEW q \in Rebuilds, rebuild'[q].pc = "save",
                          NEW w \in Wallets \ rebuild'[q].changed
                   PROVE  row[w] = rebuild'[q].rows[w]
        BY <2>1 DEF SnapshotCurrent
      <3>1. CASE q = r
        BY <2>1, <3>1
      <3>2. CASE q # r
        BY <2>1, <3>2 DEF SnapshotCurrent
      <3> QED
        BY <3>1, <3>2
    <2>3. RebuildProgress'
      BY <2>1 DEF RebuildProgress
    <2>4. LocksExclude'
      BY <2>1 DEF LocksExclude
    <2>5. SnapshotBehind'
      BY <2>1 DEF SnapshotBehind
    <2> QED
      BY <1>6, <2>1, <2>2, <2>3, <2>4, <2>5
  <1>8. ASSUME NEW r \in Rebuilds, rebuild' = [rebuild EXCEPT ![r] = NoRebuild],
               UNCHANGED <<stream, row, command, reader, intact>>
        PROVE  IInv'
    BY <1>6, <1>8, IdleTypes DEF SnapshotCurrent, SnapshotBehind, RebuildProgress, LocksExclude, TypeOK
  <1>9. ASSUME NEW r \in Rebuilds, SaveRow(r) PROVE IInv'
    <2>1. UNCHANGED <<stream, row, command, reader, intact>>
      BY <1>9 DEF SaveRow
    <2>2. PICK w \in rebuild[r].todo :
             \/ /\ rebuild[r].rows[w] = rebuild[r].streams[w]
                /\ rebuild' = [rebuild EXCEPT ![r] = [rebuild[r] EXCEPT !.todo = @ \ {w}]]
             \/ rebuild' = [rebuild EXCEPT ![r] = NoRebuild]
             \/ /\ rebuild[r].rows[w] # rebuild[r].streams[w]
                /\ ~LockedByRebuild(w)
                /\ w \notin rebuild[r].changed
                /\ rebuild' = [rebuild EXCEPT ![r] =
                      [[rebuild[r] EXCEPT !.todo = @ \ {w}] EXCEPT !.wrote = @ \cup {w}]]
      BY <1>9 DEF SaveRow, Forget, Conflicts, Issues
    <2>3. CASE rebuild' = [rebuild EXCEPT ![r] = NoRebuild]
      BY <2>1, <2>3, <1>8
    <2>4. ASSUME NEW written \in SUBSET {w},
                 w \in written => /\ rebuild[r].rows[w] # rebuild[r].streams[w]
                                  /\ ~LockedByRebuild(w)
                                  /\ w \notin rebuild[r].changed,
                 w \notin written => rebuild[r].rows[w] = rebuild[r].streams[w],
                 \A q \in Rebuilds \ {r} : rebuild'[q] = rebuild[q],
                 rebuild'[r].pc = rebuild[r].pc,
                 rebuild'[r].rows = rebuild[r].rows,
                 rebuild'[r].streams = rebuild[r].streams,
                 rebuild'[r].changed = rebuild[r].changed,
                 rebuild'[r].todo = rebuild[r].todo \ {w},
                 rebuild'[r].wrote = rebuild[r].wrote \cup written
          PROVE  IInv'
      <3>1. SnapshotCurrent'
        BY <2>1, <2>4 DEF SnapshotCurrent
      <3>2. RebuildProgress'
        BY <2>4 DEF RebuildProgress
      <3>3. LocksExclude'
        BY <2>4 DEF LocksExclude, LockedByRebuild
      <3>4. SnapshotBehind'
        BY <2>1, <2>4 DEF SnapshotBehind
      <3> QED
        BY <1>6, <2>1, <3>1, <3>2, <3>3, <3>4
    <2>5. CASE /\ rebuild[r].rows[w] = rebuild[r].streams[w]
               /\ rebuild' = [rebuild EXCEPT ![r] = [rebuild[r] EXCEPT !.todo = @ \ {w}]]
      <3>1. rebuild[r] \in RebuildState
        BY DEF TypeOK
      <3>2. /\ \A q \in Rebuilds \ {r} : rebuild'[q] = rebuild[q]
            /\ rebuild'[r] = [rebuild[r] EXCEPT !.todo = @ \ {w}]
        BY <2>5 DEF TypeOK
      <3> QED
        <4>1. /\ rebuild'[r].pc = rebuild[r].pc
              /\ rebuild'[r].rows = rebuild[r].rows
              /\ rebuild'[r].streams = rebuild[r].streams
              /\ rebuild'[r].changed = rebuild[r].changed
              /\ rebuild'[r].todo = rebuild[r].todo \ {w}
              /\ rebuild'[r].wrote = rebuild[r].wrote \cup {}
          BY <3>1, <3>2 DEF RebuildState
        <4>2. {} \in SUBSET {w}
          OBVIOUS
        <4> QED
          BY <2>4, <2>5, <3>2, <4>1, <4>2
    <2>6. CASE /\ rebuild[r].rows[w] # rebuild[r].streams[w]
               /\ ~LockedByRebuild(w)
               /\ w \notin rebuild[r].changed
               /\ rebuild' = [rebuild EXCEPT ![r] =
                     [[rebuild[r] EXCEPT !.todo = @ \ {w}] EXCEPT !.wrote = @ \cup {w}]]
      <3>1. rebuild[r] \in RebuildState
        BY DEF TypeOK
      <3>2. /\ \A q \in Rebuilds \ {r} : rebuild'[q] = rebuild[q]
            /\ rebuild'[r] = [[rebuild[r] EXCEPT !.todo = @ \ {w}] EXCEPT !.wrote = @ \cup {w}]
        BY <2>6 DEF TypeOK
      <3> QED
        <4>1. /\ rebuild'[r].pc = rebuild[r].pc
              /\ rebuild'[r].rows = rebuild[r].rows
              /\ rebuild'[r].streams = rebuild[r].streams
              /\ rebuild'[r].changed = rebuild[r].changed
              /\ rebuild'[r].todo = rebuild[r].todo \ {w}
              /\ rebuild'[r].wrote = rebuild[r].wrote \cup {w}
          BY <3>1, <3>2 DEF RebuildState
        <4>2. {w} \in SUBSET {w}
          OBVIOUS
        <4> QED
          BY <2>4, <2>6, <3>2, <4>1, <4>2
    <2> QED
      BY <2>2, <2>3, <2>5, <2>6
  <1>10. ASSUME NEW r \in Rebuilds, CommitRebuild(r) PROVE IInv'
    <2> DEFINE ws == rebuild[r].wrote
    <2>1. /\ UNCHANGED <<stream, command, reader, intact>>
          /\ row' = [w \in Wallets |->
                IF w \in ws THEN Save(row[w], rebuild[r].rows[w], rebuild[r].streams[w])
                ELSE row[w]]
          /\ rebuild' = [Changed(ws) EXCEPT ![r] = NoRebuild]
          /\ ws \in SUBSET Wallets
          /\ rebuild[r].pc = "save"
      BY <1>10 DEF CommitRebuild, TypeOK, RebuildState
    <2>2. /\ rebuild'[r] = NoRebuild
          /\ \A q \in Rebuilds \ {r} : rebuild'[q] = Changed(ws)[q]
      BY <2>1, ChangedType
    <2>3. \A w \in Wallets \ ws : row'[w] = row[w]
      BY <2>1
    <2>4. SnapshotCurrent'
      BY <2>1, <2>2, <2>3, ChangedType, IdleTypes DEF SnapshotCurrent
    <2>5. LocksExclude'
      BY <2>1, <2>2, ChangedType, IdleTypes DEF LocksExclude
    <2>6. RebuildProgress'
      <3>1. \A q \in Rebuilds : rebuild[q].pc \in {"none", "save"}
        BY DEF TypeOK, RebuildState
      <3>2. \A q \in Rebuilds \ {r} : rebuild[q].wrote \cap ws = {}
        BY DEF LocksExclude
      <3> QED
        BY <2>1, <2>2, <3>1, <3>2, ChangedType, IdleTypes DEF RebuildProgress
    <2>7. ws \cap intact = {}
      <3> SUFFICES ASSUME NEW w \in ws, w \in intact PROVE FALSE
        OBVIOUS
      <3>1. /\ w \in Wallets \ rebuild[r].changed
            /\ rebuild[r].rows[w] # rebuild[r].streams[w]
        BY <2>1 DEF RebuildProgress
      <3>2. row[w] = rebuild[r].rows[w] /\ stream[w] = rebuild[r].streams[w]
        BY <2>1, <3>1 DEF SnapshotCurrent, SnapshotBehind
      <3> QED
        BY <3>1, <3>2 DEF IntactMatches, Matches
    <2>9. SnapshotBehind'
      BY <2>1, <2>2, ChangedType, IdleTypes DEF SnapshotBehind
    <2>8. IntactMatches'
      BY <2>1, <2>3, <2>7 DEF IntactMatches, Matches, TypeOK
    <2> QED
      BY <1>0, <2>1, <2>4, <2>5, <2>6, <2>8, <2>9 DEF CommandsAhead, StreamsOpened, ReadersBehind,
         FalseAlarmsShow
  <1>11. ASSUME NEW r \in Rebuilds, AbortRebuild(r) PROVE IInv'
    BY <1>8, <1>11 DEF AbortRebuild, Forget
  <1>12. ASSUME NEW k \in Readers, UNCHANGED <<stream, row, command, rebuild, intact>>,
                ReadersBehind', FalseAlarmsShow'
         PROVE  IInv'
    BY <1>0, <1>12 DEF SnapshotCurrent, SnapshotBehind, RebuildProgress, LocksExclude,
       IntactMatches, CommandsAhead, StreamsOpened, Matches
  <1>13. ASSUME NEW k \in Readers, NEW w \in Wallets, LoadStream(k, w) PROVE IInv'
    BY <1>12, <1>13 DEF LoadStream, ReadersBehind, FalseAlarmsShow, TypeOK
  <1>14. ASSUME NEW k \in Readers, Compare(k) PROVE IInv'
    <2> DEFINE w == reader[k].wallet
    <2>1. /\ \A j \in Readers \ {k} : reader'[j] = reader[j]
          /\ reader'[k].wallet = w
          /\ reader'[k].derived = reader[k].derived
          /\ reader'[k].materialized = row[w]
          /\ reader'[k].pc = IF row[w] = reader[k].derived THEN "consistent" ELSE "alarm"
      <3>1. reader[k] \in ReaderState
        BY DEF TypeOK
      <3> QED
        BY <1>14, <3>1 DEF Compare, TypeOK, ReaderState
    <2>2. UNCHANGED <<stream, row, command, rebuild, intact>> /\ reader[k].pc = "loaded"
      BY <1>14 DEF Compare
    <2>3. ReadersBehind'
      BY <2>1, <2>2 DEF ReadersBehind
    <2>4. FalseAlarmsShow'
      <3>1. w \in intact /\ row[w] # reader[k].derived
            => row[w].version > reader[k].derived.version
        <4>1. /\ row[w] = stream[w] \/ w \notin intact
              /\ reader[k].derived = stream[w] \/ reader[k].derived.version < stream[w].version
              /\ w \in Wallets
          BY <2>2 DEF IntactMatches, Matches, ReadersBehind
        <4>2. stream[w].version \in Nat /\ reader[k].derived.version \in Nat
          BY <4>1 DEF TypeOK, State, ReaderState
        <4> QED
          BY <4>1, <4>2
      <3> QED
        BY <2>1, <2>2, <3>1 DEF FalseAlarmsShow
    <2> QED
      BY <1>12, <2>2, <2>3, <2>4
  <1> QED
    BY <1>1, <1>2, <1>3, <1>4, <1>5, <1>7, <1>9, <1>10, <1>11, <1>13, <1>14 DEF Next

-----------------------------------------------------------------------------

LEMMA SpecIInv == Spec => []IInv
  BY InitIInv, NextIInv, PTL DEF Spec

\* Every variable always has its type.
THEOREM TypesHold == Spec => []TypeOK
  <1>1. IInv => TypeOK
    BY DEF IInv
  <1> QED
    BY <1>1, SpecIInv, PTL

\* An alarm of reconcileWallet about a row that was never damaged always shows a
\* projection that is newer than the events it was compared with.
THEOREM AlarmsExplained == Spec => []FalseAlarmsShow
  <1>1. IInv => FalseAlarmsShow
    BY DEF IInv
  <1> QED
    BY <1>1, SpecIInv, PTL

\* Damage apart, only two things make a projection differ from its stream, both on
\* wallets whose row has been damaged: a save that reads its row before a repair and
\* updates it after, and a rebuild that has seen the row ahead of the stream.
THEOREM MatchesStay == Spec => MatchStays
  <1> DEFINE Keeps == \A w \in Wallets :
          Matches(w) => \/ Matches(w)' \/ damages' # damages
                        \/ w \notin intact /\ (StaleSave(w) \/ AheadInSnapshot(w))
  <1>1. IInv /\ [Next]_vars => [Keeps]_vars
    <2> SUFFICES ASSUME IInv, Next, NEW w \in Wallets, Matches(w), damages' = damages,
                        w \in intact \/ (~StaleSave(w) /\ ~AheadInSnapshot(w))
                 PROVE  Matches(w)'
      BY DEF vars
    <2> USE DEF IInv
    <2>1. ASSUME NEW v \in Wallets, Commit(v) PROVE Matches(w)'
      <3>1. CASE v = w
        <4>1. stream'[w] = command[w].new /\ command[w].found = row[w]
          <5>1. stream'[w] = command[w].new
            BY <2>1, <3>1 DEF Commit, TypeOK
          <5>2. command[w].new # stream[w]
            BY <2>1, <3>1 DEF CommandsAhead, Commit, TypeOK, State
          <5> QED
            BY <2>1, <3>1, <5>1, <5>2 DEF StaleSave, IntactMatches, Commit
        <4>2. Save(row[w], command[w].found, command[w].new) = command[w].new
          BY <4>1, SaveType DEF TypeOK, CommandState
        <4> QED
          BY <2>1, <3>1, <4>1, <4>2 DEF Commit, Matches, TypeOK
      <3>2. CASE v # w
        BY <2>1, <3>2 DEF Commit, Matches, TypeOK
      <3> QED
        BY <3>1, <3>2
    <2>2. ASSUME NEW r \in Rebuilds, CommitRebuild(r) PROVE Matches(w)'
      <3>1. w \notin rebuild[r].wrote
        <4> SUFFICES ASSUME w \in rebuild[r].wrote PROVE FALSE
          OBVIOUS
        <4>1. /\ rebuild[r].pc = "save" /\ w \notin rebuild[r].changed
              /\ rebuild[r].rows[w] # rebuild[r].streams[w]
          BY <2>2 DEF CommitRebuild, RebuildProgress
        <4>2. rebuild[r].rows[w] = stream[w]
          BY <4>1 DEF SnapshotCurrent, Matches
        <4>3. rebuild[r].streams[w].version < stream[w].version /\ w \notin intact
          BY <4>1, <4>2 DEF SnapshotBehind
        <4>4. rebuild'[r] = NoRebuild
          <5>1. rebuild[r].wrote \in SUBSET Wallets
            BY DEF TypeOK, RebuildState
          <5> QED
            BY <2>2, <5>1, ChangedType DEF CommitRebuild
        <4>5. rebuild[r].rows[w].version > rebuild[r].streams[w].version
          <5>1. rebuild[r].streams[w].version \in Nat /\ stream[w].version \in Nat
            BY DEF TypeOK, RebuildState, State
          <5> QED
            BY <4>2, <4>3, <5>1
        <4> QED
          BY <4>3, <4>4, <4>5, IdleTypes DEF AheadInSnapshot
      <3> QED
        BY <2>2, <3>1 DEF CommitRebuild, Matches
    <2>3. ASSUME NEW v \in Wallets, Damage(v) PROVE Matches(w)'
      BY <2>3 DEF Damage, TypeOK
    <2>4. CASE UNCHANGED <<stream, row>>
      BY <2>4 DEF Matches
    <2> QED
      BY <2>1, <2>2, <2>3, <2>4 DEF Next, Project, Rollback, Snapshot, SaveRow, AbortRebuild,
         LoadStream, Compare
  <1> QED
    BY <1>1, SpecIInv, PTL DEF Spec, MatchStays

\* A rebuild that commits leaves no mismatch, and no missing row, that was there in
\* its snapshot, unless others have touched the row since or a command has appended
\* an event without touching it.
THEOREM RebuildsRepair == Spec => RebuildRepairs
  <1> DEFINE Repairs == \A r \in Rebuilds : Commits(r) =>
          \A w \in Wallets \ rebuild[r].changed :
              Matches(w)' \/ stream[w] # rebuild[r].streams[w]
  <1>1. IInv /\ [Next]_vars => [Repairs]_vars
    <2> SUFFICES ASSUME IInv, Next, NEW r \in Rebuilds,
                        rebuild[r].pc = "save", rebuild[r].todo = {}, rebuild'[r].pc = "none",
                        row' # row, NEW w \in Wallets \ rebuild[r].changed,
                        stream[w] = rebuild[r].streams[w]
                 PROVE  Matches(w)'
      BY DEF vars, Commits
    <2> USE DEF IInv
    <2>1. ASSUME NEW v \in Wallets, rebuild' = Changed({v}) PROVE FALSE
      BY <2>1, ChangedType
    <2>2. ASSUME NEW q \in Rebuilds, CommitRebuild(q) PROVE Matches(w)'
      <3>1. q = r
        <4> SUFFICES ASSUME q # r PROVE FALSE
          OBVIOUS
        <4>1. rebuild[q].wrote \in SUBSET Wallets
          BY DEF TypeOK, RebuildState
        <4>2. rebuild'[r] = Changed(rebuild[q].wrote)[r]
          BY <2>2, <4>1, ChangedType DEF CommitRebuild
        <4>3. Changed(rebuild[q].wrote)[r].pc = "save"
          BY <4>1, ChangedType
        <4> QED
          BY <4>2, <4>3
      <3>2. row[w] = rebuild[r].rows[w]
        BY DEF SnapshotCurrent
      <3>3. CASE w \in rebuild[r].wrote
        <4>1. Save(row[w], rebuild[r].rows[w], rebuild[r].streams[w]) = rebuild[r].streams[w]
          BY <3>2, SaveType DEF TypeOK
        <4> QED
          BY <2>2, <3>1, <3>2, <3>3, <4>1 DEF CommitRebuild, Matches
      <3>4. CASE w \notin rebuild[r].wrote
        BY <2>2, <3>1, <3>2, <3>4 DEF CommitRebuild, Matches, RebuildProgress
      <3> QED
        BY <3>3, <3>4
    <2>3. ASSUME NEW v \in Wallets, Commit(v) PROVE FALSE
      BY <2>1, <2>3 DEF Commit
    <2> QED
      BY <2>1, <2>2, <2>3 DEF Next, Damage, Project, Rollback, Snapshot, SaveRow, AbortRebuild,
         LoadStream, Compare
  <1> QED
    BY <1>1, SpecIInv, PTL DEF Spec, RebuildRepairs
=============================================================================
