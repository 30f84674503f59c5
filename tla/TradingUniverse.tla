--------------------------- MODULE TradingUniverse ---------------------------
(***************************************************************************)
(* The trading universe: PUT and DELETE /settings/trading-universe         *)
(* (api/routes/settings.py) over the three places that hold it, the line   *)
(* of the .env file, settings.universe_symbols in memory and the row of    *)
(* app_settings.  The file and the memory are written without an await and *)
(* so in one action; the row is read and written behind two awaits, where  *)
(* other requests run.  A list of symbols that passed validate_symbols is  *)
(* a model value; the empty list, a missing line and a missing row are     *)
(* None.                                                                   *)
(***************************************************************************)
EXTENDS FiniteSets

CONSTANTS
    Saves,           \* PUT requests, each made once
    Deletes,         \* DELETE requests, each made once
    Lists,           \* valid, normalized lists of symbols
    None,
    DatabaseMayFail, \* a statement or a COMMIT may raise (locked or full file)
    FilesMayFail     \* writing .env may raise (full disk, permissions)

ASSUME NoneAssumption == None \notin Lists \cup Saves
ASSUME RequestAssumption == Saves \cap Deletes = {}
ASSUME FlagAssumption == {DatabaseMayFail, FilesMayFail} \subseteq BOOLEAN

VARIABLES
    file,     \* UNIVERSE_SYMBOLS in .env
    memory,   \* settings.universe_symbols
    row,      \* app_settings["trading_universe"].value
    rowId,    \* the save that inserted the row; None: it was there before
    asks,     \* [Saves -> the list the client sends]
    pc,       \* where each request is
    old,      \* [Saves -> old_env and old_symbols]
    found,    \* [Saves -> the value its SELECT returned]
    foundId,  \* [Requests -> the id of the row its SELECT returned]
    refused,  \* history: the saves answered 500
    given,    \* history: the file and the row of the installation
    settled,  \* history: the list in force and the row as the last request
              \* that was answered 200 left them
    trouble   \* history: what has ever disturbed a request

vars == <<file, memory, row, rowId, asks, pc, old, found, foundId, refused,
          given, settled, trouble>>

Requests == Saves \cup Deletes
Value == Lists \cup {None}
\* Another request under way, a stop of the process, a truncated .env; a
\* rollback that raised before it touched .env, and one that raised after it
\* had truncated .env.
Troubles == {"overlap", "crash", "torn", "unrestored", "parted"}

TypeOK ==
    /\ file \in Value /\ memory \in Value /\ row \in Value
    /\ given \in [file: Value, row: Value]
    /\ settled \in [list: Value, row: Value]
    /\ asks \in [Saves -> Lists]
    /\ pc \in [Requests -> {"new", "select", "commit", "restore", "done"}]
    /\ old \in [Saves -> [file: Value, memory: Value]]
    /\ found \in [Saves -> Value]
    /\ rowId \in Saves \cup {None}
    /\ foundId \in [Requests -> Saves \cup {None}]
    /\ refused \subseteq Saves
    /\ trouble \subseteq Troubles

\* Any installation: a list in .env or none, a row or none, and a row of an
\* older version may say something else than .env.
Init ==
    /\ file \in Value /\ memory = file
    /\ row \in Value
    /\ given = [file |-> file, row |-> row]
    /\ settled = [list |-> file, row |-> row]
    /\ asks \in [Saves -> Lists]
    /\ pc = [r \in Requests |-> "new"]
    /\ old = [r \in Saves |-> [file |-> None, memory |-> None]]
    /\ found = [r \in Saves |-> None]
    /\ rowId = None /\ foundId = [r \in Requests |-> None]
    /\ refused = {} /\ trouble = {}

Goto(r, label) == pc' = [pc EXCEPT ![r] = label]
Quiet == \A r \in Requests : pc[r] \in {"new", "done"}
\* A request arrives, with or without others under way.
Arrive(r) ==
    /\ pc[r] = "new"
    /\ trouble' = IF Quiet THEN trouble ELSE trouble \cup {"overlap"}

\* resolve: the memory first, the row when there is nothing in memory.
Resolved == IF memory # None THEN memory ELSE row

(***************************************************************************)
(* PUT                                                                     *)
(***************************************************************************)
\* Mutant: only the file is replaced.
SaveWriteFileOnly(r) ==
    /\ Arrive(r)
    /\ old' = [old EXCEPT ![r] = [file |-> file, memory |-> memory]]
    /\ file' = asks[r]
    /\ Goto(r, "select")
    /\ UNCHANGED <<row, rowId, memory, asks, found, foundId, refused, given, settled>>

\* What was there is remembered; os.replace puts the new file in place and
\* the memory follows.
SaveWrite(r) ==
    /\ Arrive(r)
    /\ old' = [old EXCEPT ![r] = [file |-> file, memory |-> memory]]
    /\ file' = asks[r] /\ memory' = asks[r]
    /\ Goto(r, "select")
    /\ UNCHANGED <<row, rowId, asks, found, foundId, refused, given, settled>>

\* The new file cannot be written or put in place: nothing has changed yet.
SaveWriteFails(r) ==
    /\ Arrive(r)
    /\ FilesMayFail
    /\ old' = [old EXCEPT ![r] = [file |-> file, memory |-> memory]]
    /\ Goto(r, "restore")
    /\ UNCHANGED <<file, memory, row, rowId, asks, found, foundId, refused,
                   given, settled>>

\* The SELECT decides between INSERT and UPDATE, or, for a row that already
\* says what is asked, neither: the ORM sends no UPDATE without a change.
SaveSelect(r) ==
    /\ pc[r] = "select"
    /\ found' = [found EXCEPT ![r] = row]
    /\ foundId' = [foundId EXCEPT ![r] = rowId]
    /\ Goto(r, "commit")
    /\ UNCHANGED <<file, memory, row, rowId, asks, old, refused, given, settled,
                   trouble>>

Unneeded(r) == found[r] = asks[r]

\* The row a request has read is still there, not another with its key.
SameRow(r) == row # None /\ rowId = foundId[r]

\* An INSERT meets no other row (key is unique), an UPDATE meets its row.
Applies(r) ==
    Unneeded(r) \/ (IF found[r] = None THEN row = None ELSE SameRow(r))

\* COMMIT, and 200.
SaveCommit(r) ==
    /\ pc[r] = "commit"
    /\ Applies(r)
    /\ row' = IF Unneeded(r) THEN row ELSE asks[r]
    /\ rowId' = IF found[r] = None THEN r ELSE rowId
    /\ settled' = [list |-> asks[r], row |-> asks[r]]
    /\ Goto(r, "done")
    /\ UNCHANGED <<file, memory, asks, old, found, foundId, refused, given, trouble>>

\* Mutant: the except branch forgets the file.
SaveFailsForgets(r) ==
    /\ pc[r] = "commit"
    /\ DatabaseMayFail \/ ~Applies(r)
    /\ refused' = refused \cup {r}
    /\ Goto(r, "done")
    /\ UNCHANGED <<file, memory, row, rowId, asks, old, found, foundId,
                   given, settled, trouble>>

\* The SELECT fails, or there is an IntegrityError, a StaleDataError or a
\* failing COMMIT: session.rollback(), an await, before anything is restored.
SaveFails(r) ==
    /\ \/ pc[r] = "select" /\ DatabaseMayFail
       \/ pc[r] = "commit" /\ (DatabaseMayFail \/ ~Applies(r))
    /\ Goto(r, "restore")
    /\ UNCHANGED <<file, memory, row, rowId, asks, old, found, foundId,
                   refused, given, settled, trouble>>

\* Mutant: the memory is not put back.
SaveRestoreFileOnly(r) ==
    /\ pc[r] = "restore"
    /\ file' = old[r].file
    /\ refused' = refused \cup {r}
    /\ Goto(r, "done")
    /\ UNCHANGED <<memory, row, rowId, asks, old, found, foundId, given,
                   settled, trouble>>

\* File and memory are put back as this request found them: 500.
SaveRestore(r) ==
    /\ pc[r] = "restore"
    /\ file' = old[r].file /\ memory' = old[r].memory
    /\ refused' = refused \cup {r}
    /\ Goto(r, "done")
    /\ UNCHANGED <<row, rowId, asks, old, found, foundId, given, settled, trouble>>

\* restore_env_file raises, before or after it has truncated the file: the
\* line that puts the memory back is not reached. 500 all the same.
RestoreFails(r) ==
    /\ pc[r] = "restore"
    /\ FilesMayFail
    /\ \/ file' = file /\ trouble' = trouble \cup {"unrestored"}
       \/ file' = None /\ trouble' = trouble \cup {"torn", "parted"}
    /\ refused' = refused \cup {r}
    /\ Goto(r, "done")
    /\ UNCHANGED <<memory, row, rowId, asks, old, found, foundId, given, settled>>

(***************************************************************************)
(* DELETE                                                                  *)
(***************************************************************************)
\* No row: the memory is read again from the file.
DeleteNothing(r) ==
    /\ Arrive(r)
    /\ row = None
    /\ memory' = file
    /\ Goto(r, "done")
    /\ UNCHANGED <<file, row, rowId, asks, old, found, foundId, refused,
                   given, settled>>

DeleteSelect(r) ==
    /\ Arrive(r)
    /\ row # None
    /\ foundId' = [foundId EXCEPT ![r] = rowId]
    /\ Goto(r, "commit")
    /\ UNCHANGED <<file, memory, row, rowId, asks, old, found, refused,
                   given, settled>>

\* Mutant: the defaults are taken from before the save, not from the file.
DeleteCommitClears(r) ==
    /\ pc[r] = "commit"
    /\ row' = IF SameRow(r) THEN None ELSE row
    /\ rowId' = IF SameRow(r) THEN None ELSE rowId
    /\ memory' = None
    /\ settled' = [settled EXCEPT !.row = None]
    /\ Goto(r, "done")
    /\ UNCHANGED <<file, asks, old, found, foundId, refused, given, trouble>>

\* DELETE and COMMIT (deleting a row that is gone is only a warning), then
\* the memory is read again from the file.
DeleteCommit(r) ==
    /\ pc[r] = "commit"
    /\ row' = IF SameRow(r) THEN None ELSE row
    /\ rowId' = IF SameRow(r) THEN None ELSE rowId
    /\ memory' = file
    /\ settled' = [settled EXCEPT !.row = None]
    /\ Goto(r, "done")
    /\ UNCHANGED <<file, asks, old, found, foundId, refused, given, trouble>>

\* The COMMIT raises: 500, nothing is changed.
DeleteFails(r) ==
    /\ pc[r] = "commit"
    /\ DatabaseMayFail
    /\ Goto(r, "done")
    /\ UNCHANGED <<file, memory, row, rowId, asks, old, found, foundId,
                   refused, given, settled, trouble>>

(***************************************************************************)
(* The process stops and starts: Settings() reads the file, requests under *)
(* way are gone.  A stop inside restore_env_file, which truncates the file *)
(* before it writes, can leave it empty.                                   *)
(***************************************************************************)
Restart ==
    /\ \/ file' = file
          /\ trouble' = IF Quiet THEN trouble ELSE trouble \cup {"crash"}
       \/ \E r \in Saves : pc[r] = "restore"
          /\ file' = None
          /\ trouble' = trouble \cup {"crash", "torn"}
    /\ memory' = file'
    /\ pc' = [r \in Requests |-> IF pc[r] = "new" THEN "new" ELSE "done"]
    /\ UNCHANGED <<row, rowId, asks, old, found, foundId, refused, given, settled>>

Save(r) ==
    \/ SaveWrite(r) \/ SaveWriteFails(r) \/ SaveSelect(r) \/ SaveCommit(r)
    \/ SaveFails(r) \/ SaveRestore(r) \/ RestoreFails(r)
Delete(r) ==
    DeleteNothing(r) \/ DeleteSelect(r) \/ DeleteCommit(r) \/ DeleteFails(r)

Serve == (\E r \in Saves : Save(r)) \/ (\E r \in Deletes : Delete(r))
Next == Serve \/ Restart

Spec == Init /\ [][Next]_vars

(***************************************************************************)
(* Properties                                                              *)
(***************************************************************************)
\* What the program serves is what a restart would serve: however saves,
\* rollbacks, deletes and crashes overlap, memory and file are equal, unless
\* a rollback could not write back the file it had truncated.
MemoryFollowsFile == "parted" \notin trouble => memory = file

\* "Do not silently fall back to invalid trading universes" (README, Design
\* Principles): the program never resolves to an empty universe, not even
\* between the steps of a rollback or a delete.  With a list in .env only a
\* torn .env can do that; with a list in the row alone, only a DELETE.
UniverseNeverEmpty ==
    \/ given.file # None /\ "torn" \notin trouble
    \/ given.row # None /\ \A r \in Deletes : pc[r] = "new"
    => Resolved # None

\* Requests that do not overlap and are not cut off are all-or-nothing:
\* between them, and after an orderly restart, the list in force and the row
\* are as the last accepted request left them.  A failed save is undone,
\* whatever step it failed at, also where there was no list in .env or a row
\* that said something else.
AllOrNothing ==
    Quiet /\ trouble = {} => memory = settled.list /\ row = settled.row

\* "Failed to save trading universe" (routes/settings.py:61): the list of a
\* refused save is not the one served, unless somebody else also asked for
\* it or it was there before.
RefusedLeavesNoTrace ==
    Quiet => \A r \in refused :
        memory = asks[r] =>
            \/ \E q \in Saves \ refused : asks[q] = asks[r]
            \/ asks[r] \in {old[r].memory, given.file}

-----------------------------------------------------------------------------
\* What a save remembers to put back is a file and a memory in step,
OldInStep ==
    "parted" \notin trouble => \A r \in Saves : old[r].file = old[r].memory

\* and a request that nothing has disturbed is alone: it found what the last
\* accepted request left, and until its commit the row is still that.
Busy(r) == pc[r] \in {"select", "commit", "restore"}
Alone ==
    trouble = {} =>
        /\ \A r, q \in Requests : Busy(r) /\ Busy(q) => r = q
        /\ row = settled.row
        /\ (\A r \in Saves : ~Busy(r)) => memory = settled.list
        /\ \A r \in Saves : Busy(r) =>
              /\ old[r].memory = settled.list
              /\ pc[r] # "restore" => memory = asks[r]
              /\ pc[r] = "commit" => found[r] = row
        /\ \A r \in Deletes : Busy(r) => SameRow(r)

\* The inductive invariant: two places written in one step and put back as
\* they were found stay in step, and undisturbed requests are undone whole.
IInv == TypeOK /\ OldInStep /\ MemoryFollowsFile /\ Alone
=============================================================================
