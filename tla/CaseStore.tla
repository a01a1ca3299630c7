------------------------------ MODULE CaseStore ------------------------------
(***************************************************************************)
(* The store of cases (backend/app/store.py) over the tables cases and     *)
(* chain_of_custody (storage/postgres/schema.sql), by the id of the sample.*)
(*                                                                         *)
(* memory[id] is the dict last saved under id: its case and the actor that *)
(* still holds and changes it ("copy" for none).  A save is one            *)
(* transaction: from its first statement to its end it holds the row of    *)
(* its id, for a second writer of the id waits at the same statement.      *)
(* A row of the custody names its predecessor by position (0: none).       *)
(***************************************************************************)
EXTENDS Naturals, Sequences, TLC

CONSTANT NoCase     \* what a lookup that finds nothing gives

\* None is no case: it has no verdict.
ASSUME StoreAssumption == "status" \notin DOMAIN NoCase

VARIABLES memory, rows, custody, holder, tail

storeVars == <<memory, rows, custody, holder, tail>>

InitStore ==
    /\ memory = <<>> /\ rows = <<>> /\ custody = <<>> /\ holder = <<>> /\ tail = <<>>

\* Mutant of GetCase: only an unreadable table falls back to memory.
MemoryUnused(id, readable) ==
    IF readable THEN IF id \in DOMAIN rows THEN rows[id] ELSE NoCase
    ELSE IF id \in DOMAIN memory THEN memory[id].case ELSE NoCase

\* The reads of a case fall back to memory.
GetCase(id, readable) ==
    IF readable /\ id \in DOMAIN rows THEN rows[id]
    ELSE IF id \in DOMAIN memory THEN memory[id].case ELSE NoCase

Put(f, x, v) == [y \in DOMAIN f \cup {x} |-> IF y = x THEN v ELSE f[y]]

Without(f, x) == [y \in DOMAIN f \ {x} |-> f[y]]

\* m with the changes an actor made to the dict it saved there.
Shared(m, a, c) ==
    IF c.id \in DOMAIN m /\ m[c.id].by = a
    THEN [m EXCEPT ![c.id].case = c] ELSE m

Remembered(m, a, id, c) ==
    IF id = c.id THEN Put(m, id, [case |-> c, by |-> a])
    ELSE Put(m, id, [case |-> [c EXCEPT !.id = id], by |-> "copy"])

\* What the constraints of the table let through.
Acceptable(c) ==
    /\ c.platform \in {"android", "windows", "linux", "macos"}
    /\ c.status \in {"clean", "suspicious", "malicious"}
    /\ c.risk \in 0..100

CustodyOf(id) == IF id \in DOMAIN custody THEN custody[id] ELSE <<>>

\* Mutant of Free: the save does not wait for another one's row.
RowNotLocked(id) == TRUE

Free(id) == id \notin DOMAIN holder

\* The statements of a save up to the read of the custody's last row.
BeginSave(a, id) ==
    /\ Free(id)
    /\ holder' = Put(holder, id, a)
    /\ tail' = Put(tail, a, Len(CustodyOf(id)))
    /\ UNCHANGED <<memory, rows, custody>>

\* An update leaves the columns that describe the file.
CommitSave(a, id, c, event) ==
    LET saved == [c EXCEPT !.id = id]
        entry == [event |-> event, risk |-> c.risk, status |-> c.status,
                  previous |-> tail[a]]
    IN  /\ rows' = Put(rows, id, IF id \in DOMAIN rows
                                 THEN [saved EXCEPT !.platform = rows[id].platform,
                                                    !.ftype = rows[id].ftype]
                                 ELSE saved)
        /\ custody' = Put(custody, id, Append(CustodyOf(id), entry))
        /\ holder' = Without(holder, id)
        /\ tail' = Without(tail, a)
        /\ UNCHANGED memory

\* A statement or the commit fails: the case is in memory only.
AbortSave(a, id) ==
    /\ holder' = Without(holder, id)
    /\ tail' = Without(tail, a)
    /\ UNCHANGED <<memory, rows, custody>>

ForgetCases ==
    /\ memory' = <<>> /\ holder' = <<>> /\ tail' = <<>>
    /\ UNCHANGED <<rows, custody>>

=============================================================================
