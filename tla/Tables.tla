------------------------------- MODULE Tables ---------------------------------
(* Tables, the codes printed for them and the sessions guests open with these *)
(* (app/api/v1/endpoints/tables.py, qr.py, app/services/qr_service.py). A     *)
(* picture of a code is written to a file while the row that names it is not  *)
(* committed yet, and no picture is ever deleted.                             *)
EXTENDS Integers, FiniteSets, TLC

CONSTANTS
    NoRow,        \* no row
    Table,
    Number,       \* table numbers, as drawn on the pictures
    Scan,         \* sessions of guests
    Host,         \* requests that may be under way at once
    MaxCodes,     \* bound on the codes that are made
    MaxHours,     \* bound on the clock, in hours
    SessionHours  \* how long a session lasts (qr.py:43)

Code == 1..MaxCodes
TableStatus == {"free", "occupied", "reserved"}

(* "renumbered" is a history: the number was changed after the row was read   *)
(* for the picture it names.                                                  *)
TableRow == [qr_token : Code, url : Code, number : Number, status : TableStatus,
             renumbered : BOOLEAN]
Picture == [token : Code, number : Number]
SessionRow == [table : Table, ends : 0..MaxHours + SessionHours, status : {"active", "expired"}]

ASSUME TablesAssumption ==
    /\ NoRow \notin Table \cup TableRow \cup Picture \cup SessionRow
    /\ MaxCodes \in Nat /\ MaxHours \in Nat /\ SessionHours \in Nat \ {0}

VARIABLES
    tables,     \* committed rows of tables, or NoRow
    pictures,   \* files: the picture stored under the name of a code, or NoRow
    codes,      \* how many codes rotate_qr_token has made
    sessions,   \* committed rows of QRSession, or NoRow
    hostJob,    \* what each request is doing
    hour

tablesVars == <<tables, pictures, codes, sessions, hostJob, hour>>

Idle == [at |-> "idle"]

TablesInit ==
    /\ tables = [b \in Table |-> NoRow]
    /\ pictures = [c \in Code |-> NoRow]
    /\ codes = 0
    /\ sessions = [s \in Scan |-> NoRow]
    /\ hostJob = [h \in Host |-> Idle]
    /\ hour = 0

Free(h) == hostJob[h].at = "idle"
Works(h, kinds) == ~Free(h) /\ hostJob[h].kind \in kinds
Takes(h, job) == hostJob' = [hostJob EXCEPT ![h] = job]

(* Some other request has written the row of the table and not ended.         *)
RowLocked(h, b) == \E g \in Host \ {h} : ~Free(g) /\ hostJob[g].table = b /\ hostJob[g].locks

StartCreate(h) == \E b \in Table, n \in Number :
    /\ Free(h)
    /\ tables[b] = NoRow /\ ~RowLocked(h, b)
    /\ codes < MaxCodes
    /\ codes' = codes + 1
    /\ Takes(h, [at |-> "draw", kind |-> "create", table |-> b, locks |-> TRUE,
                 code |-> codes + 1, number |-> n, status |-> "free", renumbered |-> FALSE])
    /\ UNCHANGED <<tables, pictures, sessions, hour>>

StartRegenerate(h) == \E b \in Table :
    /\ Free(h)
    /\ tables[b] # NoRow
    /\ codes < MaxCodes
    /\ codes' = codes + 1
    /\ Takes(h, [at |-> "write", kind |-> "regenerate", table |-> b, locks |-> FALSE,
                 code |-> codes + 1, number |-> tables[b].number, renumbered |-> FALSE])
    /\ UNCHANGED <<tables, pictures, sessions, hour>>

(* The SELECT of the merchant flushes the new token: the row is locked.       *)
AutoFlush(h) ==
    /\ hostJob[h].at = "write"
    /\ ~RowLocked(h, hostJob[h].table)
    /\ Takes(h, [hostJob[h] EXCEPT !.at = "draw", !.locks = TRUE])
    /\ UNCHANGED <<tables, pictures, codes, sessions, hour>>

(* The picture bears the code and the number that the request knows.          *)
SaveQrFile(h) ==
    /\ hostJob[h].at = "draw"
    /\ pictures' = [pictures EXCEPT ![hostJob[h].code] =
                      [token |-> hostJob[h].code, number |-> hostJob[h].number]]
    /\ Takes(h, [hostJob[h] EXCEPT !.at = "commit"])
    /\ UNCHANGED <<tables, codes, sessions, hour>>

(* What differs from the row that was read is written.                        *)
UpdateTable(h) == \E b \in Table, n \in Number, status \in TableStatus :
    /\ Free(h)
    /\ tables[b] # NoRow
    /\ Takes(h, [at |-> "flush", kind |-> "update", table |-> b, locks |-> FALSE,
                 set |-> (IF n = tables[b].number THEN {} ELSE {"number"})
                         \cup (IF status = tables[b].status THEN {} ELSE {"status"}),
                 number |-> n, status |-> status])
    /\ UNCHANGED <<tables, pictures, codes, sessions, hour>>

(* A scanned code that no table has is refused; the guest's table is occupied *)
(* from then on, until someone on the staff says otherwise.                   *)
ScanQr(h) == \E b \in Table, s \in Scan :
    /\ Free(h)
    /\ tables[b] # NoRow
    /\ sessions[s] = NoRow
    /\ \A g \in Host : Works(g, {"scan"}) => hostJob[g].session # s
    /\ Takes(h, [at |-> "flush", kind |-> "scan", table |-> b, locks |-> FALSE,
                 session |-> s, ends |-> hour + SessionHours])
    /\ UNCHANGED <<tables, pictures, codes, sessions, hour>>

FlushRow(h) ==
    /\ hostJob[h].at = "flush"
    /\ RowLocked(h, hostJob[h].table) => hostJob[h].kind = "update" /\ hostJob[h].set = {}
    /\ Takes(h, [hostJob[h] EXCEPT !.at = "commit",
                   !.locks = hostJob[h].kind = "scan" \/ hostJob[h].set # {}])
    /\ UNCHANGED <<tables, pictures, codes, sessions, hour>>

(* Requests that draw the table with the number it had.                       *)
Renumbered(h, b) ==
    [g \in Host |-> IF g = h THEN Idle
                    ELSE IF Works(g, {"regenerate"}) /\ hostJob[g].table = b
                           THEN [hostJob[g] EXCEPT !.renumbered = TRUE]
                    ELSE hostJob[g]]

CommitCreate(h) ==
    LET job == hostJob[h]
    IN  /\ job.at = "commit" /\ job.kind = "create"
        /\ tables' = [tables EXCEPT ![job.table] =
             [qr_token |-> job.code, url |-> job.code, number |-> job.number,
              status |-> "free", renumbered |-> FALSE]]
        /\ Takes(h, Idle)
        /\ UNCHANGED <<pictures, codes, sessions, hour>>

(* Mutant: the picture's address is set before the token is changed.          *)
CommitRegenerateUrl(h) ==
    LET job == hostJob[h]
    IN  /\ job.at = "commit" /\ job.kind = "regenerate"
        /\ tables' = [tables EXCEPT ![job.table].qr_token = job.code,
                                    ![job.table].renumbered = job.renumbered]
        /\ Takes(h, Idle)
        /\ UNCHANGED <<pictures, codes, sessions, hour>>

CommitRegenerate(h) ==
    LET job == hostJob[h]
    IN  /\ job.at = "commit" /\ job.kind = "regenerate"
        /\ tables' = [tables EXCEPT ![job.table].qr_token = job.code,
                                    ![job.table].url = job.code,
                                    ![job.table].renumbered = job.renumbered]
        /\ Takes(h, Idle)
        /\ UNCHANGED <<pictures, codes, sessions, hour>>

CommitUpdate(h) ==
    LET job == hostJob[h]
        row == tables[job.table]
    IN  /\ job.at = "commit" /\ job.kind = "update"
        /\ tables' = [tables EXCEPT ![job.table] =
             [row EXCEPT !.number = IF "number" \in job.set THEN job.number ELSE @,
                         !.status = IF "status" \in job.set THEN job.status ELSE @,
                         !.renumbered = @ \/ "number" \in job.set]]
        /\ hostJob' = IF "number" \in job.set THEN Renumbered(h, job.table)
                      ELSE [hostJob EXCEPT ![h] = Idle]
        /\ UNCHANGED <<pictures, codes, sessions, hour>>

CommitScan(h) ==
    LET job == hostJob[h]
    IN  /\ job.at = "commit" /\ job.kind = "scan"
        /\ sessions' = [sessions EXCEPT ![job.session] =
             [table |-> job.table, ends |-> job.ends, status |-> "active"]]
        /\ tables' = [tables EXCEPT ![job.table].status = "occupied"]
        /\ Takes(h, Idle)
        /\ UNCHANGED <<pictures, codes, hour>>

(* A session is looked at when its guest does something: one that is over is  *)
(* expired then, and for any other its table is looked up. A guest learns of  *)
(* the session when it is committed.                                          *)
ValidateSession(h) == \E s \in Scan :
    /\ Free(h)
    /\ sessions[s] # NoRow /\ sessions[s].status = "active"
    /\ Takes(h, [at |-> IF sessions[s].ends < hour THEN "expire" ELSE "valid", kind |-> "validate",
                 table |-> sessions[s].table, locks |-> FALSE, session |-> s])
    /\ UNCHANGED <<tables, pictures, codes, sessions, hour>>

Expire(h) ==
    /\ hostJob[h].at = "expire"
    /\ sessions' = [sessions EXCEPT ![hostJob[h].session].status = "expired"]
    /\ Takes(h, Idle)
    /\ UNCHANGED <<tables, pictures, codes, hour>>

(* The end of a request that writes nothing more, or that fails.              *)
EndRequest(h) ==
    /\ ~Free(h)
    /\ Takes(h, Idle)
    /\ UNCHANGED <<tables, pictures, codes, sessions, hour>>

HourPasses ==
    /\ hour < MaxHours
    /\ hour' = hour + 1
    /\ UNCHANGED <<tables, pictures, codes, sessions, hostJob>>

TablesNext ==
    \/ \E h \in Host :
         \/ StartCreate(h) \/ StartRegenerate(h) \/ AutoFlush(h) \/ SaveQrFile(h)
         \/ UpdateTable(h) \/ ScanQr(h) \/ FlushRow(h)
         \/ CommitCreate(h) \/ CommitRegenerate(h) \/ CommitUpdate(h) \/ CommitScan(h)
         \/ ValidateSession(h) \/ Expire(h) \/ EndRequest(h)
    \/ HourPasses

TablesSpec == TablesInit /\ [][TablesNext]_tablesVars

(*-----------------------------------------------------------------------------*)
TablesTypeOK ==
    /\ tables \in [Table -> TableRow \cup {NoRow}]
    /\ pictures \in [Code -> Picture \cup {NoRow}]
    /\ codes \in 0..MaxCodes
    /\ sessions \in [Scan -> SessionRow \cup {NoRow}]

(* The picture a table names is there and bears the very token that scans     *)
(* find the table by, and its number unless that was changed later: whatever  *)
(* requests for new codes overlap or fail after their picture was written     *)
(* (tables.py 27-71, 237-279, qr_service.py 106-166).                         *)
CodesLead ==
    \A b \in Table : tables[b] # NoRow =>
        LET picture == pictures[tables[b].url]
        IN  /\ picture # NoRow
            /\ picture.token = tables[b].qr_token
            /\ picture.number = tables[b].number \/ tables[b].renumbered
================================================================================
