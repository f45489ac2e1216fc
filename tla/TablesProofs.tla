----------------------------- MODULE TablesProofs --------------------------------
(******************************************************************************)
(* Proofs about Tables for any number of tables, guests, requests and codes.  *)
(*                                                                            *)
(* A picture is on the disk before the row that names it is committed, and    *)
(* requests overlap and fail between the two.  What keeps the two together is *)
(* that a code is one request's until a table has it, that nobody but its     *)
(* request draws it, and that the request either draws the number the table   *)
(* has or is known to have missed a change (JobInv).                          *)
(******************************************************************************)
EXTENDS Tables, TLAPS

CreateJob ==
    [at : {"draw", "commit"}, kind : {"create"}, table : Table, locks : {TRUE}, code : Code,
     number : Number, status : {"free"}, renumbered : {FALSE}]

RegenerateJob ==
    [at : {"write", "draw", "commit"}, kind : {"regenerate"}, table : Table, locks : BOOLEAN,
     code : Code, number : Number, renumbered : BOOLEAN]

UpdateJob ==
    [at : {"flush", "commit"}, kind : {"update"}, table : Table, locks : BOOLEAN,
     set : SUBSET {"number", "status"}, number : Number, status : TableStatus]

ScanJob ==
    [at : {"flush", "commit"}, kind : {"scan"}, table : Table, locks : BOOLEAN,
     session : Scan, ends : 0..MaxHours + SessionHours]

ValidateJob ==
    [at : {"expire", "valid"}, kind : {"validate"}, table : Table, locks : {FALSE},
     session : Scan]

Job == CreateJob \cup RegenerateJob \cup UpdateJob \cup ScanJob \cup ValidateJob \cup {Idle}

Draws(j) == j \in CreateJob \cup RegenerateJob

(* What a request relies on until it ends.                                    *)
JobInv(j) ==
    /\ j \in CreateJob => tables[j.table] = NoRow
    /\ j \notin CreateJob \cup ValidateJob \cup {Idle} => tables[j.table] # NoRow
    /\ Draws(j) =>
        /\ j.code <= codes
        /\ \A b \in Table : tables[b] # NoRow => tables[b].url # j.code
        /\ j.at = "commit" => pictures[j.code] = [token |-> j.code, number |-> j.number]
    /\ j \in RegenerateJob => j.renumbered \/ j.number = tables[j.table].number
    /\ j \in ValidateJob => sessions[j.session] # NoRow

(* A code is one request's, a table that is not there too.                    *)
Apart(i, j) ==
    /\ Draws(i) /\ Draws(j) => i.code # j.code
    /\ i \in CreateJob /\ j \in CreateJob => i.table # j.table

TableRowsInv ==
    /\ TablesTypeOK
    /\ hostJob \in [Host -> Job]
    /\ hour \in 0..MaxHours
    /\ \A b \in Table : tables[b] # NoRow => tables[b].url <= codes

TablesInv ==
    /\ TableRowsInv
    /\ \A h \in Host : JobInv(hostJob[h])
    /\ \A g, h \in Host : g # h => Apart(hostJob[g], hostJob[h])
    /\ CodesLead

--------------------------------------------------------------------------------
(* Requests                                                                   *)

(* What a request is at tells what kind it may be.                            *)
LEMMA Kinds ==
    ASSUME NEW j \in Job
    PROVE  /\ j.at \in {"idle", "draw", "commit", "write", "flush", "expire", "valid"}
           /\ j.at = "idle" <=> j = Idle
           /\ j.at = "draw" => j \in CreateJob \cup RegenerateJob
           /\ j.at = "write" => j \in RegenerateJob
           /\ j.at = "flush" => j \in UpdateJob \cup ScanJob
           /\ j.at = "expire" => j \in ValidateJob
           /\ j.at = "commit" /\ j.kind = "create" => j \in CreateJob
           /\ j.at = "commit" /\ j.kind = "regenerate" => j \in RegenerateJob
           /\ j.at = "commit" /\ j.kind = "update" => j \in UpdateJob
           /\ j.at = "commit" /\ j.kind = "scan" => j \in ScanJob
           /\ j.at # "idle" /\ j.kind = "regenerate" <=> j \in RegenerateJob
           /\ j # Idle => j.table \in Table
           /\ j \in CreateJob => j.locks = TRUE
<1>1. Idle.at = "idle"
  BY DEF Idle
<1>2. CASE j \in CreateJob
  BY <1>1, <1>2 DEF CreateJob, RegenerateJob
<1>3. CASE j \in RegenerateJob
  BY <1>1, <1>3 DEF CreateJob, RegenerateJob
<1>4. CASE j \in UpdateJob
  BY <1>1, <1>4 DEF CreateJob, RegenerateJob, UpdateJob
<1>5. CASE j \in ScanJob
  BY <1>1, <1>5 DEF CreateJob, RegenerateJob, ScanJob
<1>6. CASE j \in ValidateJob
  BY <1>1, <1>6 DEF CreateJob, RegenerateJob, ValidateJob
<1>7. CASE j = Idle
  BY <1>1, <1>7 DEF CreateJob, RegenerateJob
<1> QED
  BY <1>2, <1>3, <1>4, <1>5, <1>6, <1>7 DEF Job

(* A request is of one kind.                                                  *)
LEMMA KindsDiffer ==
    /\ \A j \in CreateJob : /\ j \notin RegenerateJob \cup UpdateJob \cup ScanJob
                            /\ j \notin ValidateJob /\ j # Idle
    /\ \A j \in RegenerateJob : /\ j \notin CreateJob \cup UpdateJob \cup ScanJob
                                /\ j \notin ValidateJob /\ j # Idle
    /\ \A j \in UpdateJob \cup ScanJob : ~ Draws(j) /\ j \notin ValidateJob /\ j # Idle
    /\ \A j \in ValidateJob : ~ Draws(j) /\ j # Idle
    /\ ~ Draws(Idle) /\ Idle \notin ValidateJob
<1>1. Idle.at = "idle"
  BY DEF Idle
<1>2. \A j \in CreateJob : j.at # "idle" /\ j.kind = "create"
  BY DEF CreateJob
<1>3. \A j \in RegenerateJob : j.at # "idle" /\ j.kind = "regenerate"
  BY DEF RegenerateJob
<1>4. \A j \in UpdateJob : j.at # "idle" /\ j.kind = "update"
  BY DEF UpdateJob
<1>5. \A j \in ScanJob : j.at # "idle" /\ j.kind = "scan"
  BY DEF ScanJob
<1>6. \A j \in ValidateJob : j.at # "idle" /\ j.kind = "validate"
  BY DEF ValidateJob
<1> QED
  BY <1>1, <1>2, <1>3, <1>4, <1>5, <1>6 DEF Draws

(* A request without obligations.                                             *)
LEMMA IdleStands == JobInv(Idle) /\ Idle \in Job /\ \A j : Apart(Idle, j) /\ Apart(j, Idle)
BY KindsDiffer DEF JobInv, Job, Apart, Draws

(* A step that commits nothing.                                               *)
LEMMA RequestStep ==
    ASSUME TablesInv, NEW h \in Host, NEW j \in Job, hostJob' = [hostJob EXCEPT ![h] = j],
           UNCHANGED <<tables, pictures, codes, sessions, hour>>,
           JobInv(j), \A g \in Host \ {h} : Apart(hostJob[g], j) /\ Apart(j, hostJob[g])
    PROVE  TablesInv'
<1>1. \A g \in Host : hostJob'[g] = IF g = h THEN j ELSE hostJob[g]
  BY DEF TablesInv, TableRowsInv
<1>2. TableRowsInv'
  BY DEF TablesInv, TableRowsInv, TablesTypeOK
<1>3. ASSUME NEW g \in Host
      PROVE  JobInv(hostJob[g])'
  <2>1. JobInv(hostJob'[g])
    BY <1>1 DEF TablesInv
  <2> QED
    BY <2>1 DEF JobInv, Draws
<1>4. ASSUME NEW g \in Host, NEW i \in Host, g # i
      PROVE  Apart(hostJob[g], hostJob[i])'
  <2>1. Apart(hostJob'[g], hostJob'[i])
    BY <1>1, <1>4 DEF TablesInv
  <2> QED
    BY <2>1 DEF Apart, Draws
<1>5. CodesLead'
  BY DEF TablesInv, CodesLead
<1> QED
  BY <1>2, <1>3, <1>4, <1>5 DEF TablesInv

(* The end of a request.                                                      *)
LEMMA EndRequestKeeps ==
    ASSUME TablesInv, NEW h \in Host, EndRequest(h)
    PROVE  TablesInv'
BY RequestStep, IdleStands DEF EndRequest, Takes

(* One that draws nothing, of a table that is there.                          *)
LEMMA PlainStep ==
    ASSUME TablesInv, NEW h \in Host, NEW j \in UpdateJob \cup ScanJob \cup ValidateJob,
           hostJob' = [hostJob EXCEPT ![h] = j],
           UNCHANGED <<tables, pictures, codes, sessions, hour>>,
           IF j \in ValidateJob THEN sessions[j.session] # NoRow ELSE tables[j.table] # NoRow
    PROVE  TablesInv'
<1>1. j \in Job /\ ~ Draws(j)
  BY KindsDiffer DEF Job
<1>2. JobInv(j)
  BY <1>1 DEF JobInv, Draws
<1>3. \A i : Apart(i, j) /\ Apart(j, i)
  BY <1>1 DEF Apart, Draws
<1> QED
  BY <1>1, <1>2, <1>3, RequestStep

(* A request that is given a new code.                                        *)
LEMMA StartKeeps ==
    ASSUME TablesInv, NEW h \in Host, NEW j \in Job, hostJob' = [hostJob EXCEPT ![h] = j],
           UNCHANGED <<tables, pictures, sessions, hour>>,
           codes < MaxCodes, codes' = codes + 1,
           Draws(j), j.code = codes + 1, j.at # "commit",
           j \in CreateJob =>
               /\ tables[j.table] = NoRow
               /\ \A g \in Host \ {h} : hostJob[g] \in CreateJob => hostJob[g].table # j.table,
           j \in RegenerateJob => tables[j.table] # NoRow /\ j.number = tables[j.table].number
    PROVE  TablesInv'
<1>1. \A g \in Host : hostJob'[g] = IF g = h THEN j ELSE hostJob[g]
  BY DEF TablesInv, TableRowsInv
<1>2. codes \in 0..MaxCodes /\ codes' \in 0..MaxCodes /\ MaxCodes \in Nat
  BY TablesAssumption DEF TablesInv, TableRowsInv, TablesTypeOK
<1>3. \A b \in Table : tables[b] # NoRow => tables[b].url \in Nat /\ tables[b].url <= codes
  BY TablesAssumption DEF TablesInv, TableRowsInv, TablesTypeOK, TableRow, Code
<1>4. TableRowsInv'
  BY <1>2, <1>3 DEF TablesInv, TableRowsInv, TablesTypeOK
<1>5. \A g \in Host \ {h} : Draws(hostJob[g]) => hostJob[g].code \in Nat /\ hostJob[g].code <= codes
  <2>1. ASSUME NEW g \in Host \ {h}, Draws(hostJob[g])
        PROVE  hostJob[g].code \in Nat /\ hostJob[g].code <= codes
    <3>1. hostJob[g].code \in Code
      BY <2>1 DEF Draws, CreateJob, RegenerateJob
    <3>2. hostJob[g].code <= codes
      BY <2>1 DEF TablesInv, JobInv
    <3> QED
      BY <3>1, <3>2, TablesAssumption DEF Code
  <2> QED
    BY <2>1
<1>6. ASSUME NEW g \in Host
      PROVE  JobInv(hostJob[g])'
  <2>1. CASE g = h
    <3>1. j # Idle /\ j \notin ValidateJob
      BY KindsDiffer DEF Draws
    <3>2. \A b \in Table : tables[b] # NoRow => tables[b].url # j.code
      BY <1>2, <1>3
    <3>3. j \notin CreateJob => tables[j.table] # NoRow
      BY DEF Draws
    <3>4. j.code <= codes'
      BY <1>2
    <3> QED
      BY <1>1, <2>1, <3>1, <3>2, <3>3, <3>4 DEF JobInv, Draws
  <2>2. CASE g # h
    <3>1. JobInv(hostJob[g])
      BY DEF TablesInv
    <3>2. Draws(hostJob[g]) => hostJob[g].code <= codes'
      BY <1>2, <1>5, <2>2
    <3> QED
      BY <1>1, <2>2, <3>1, <3>2 DEF JobInv, Draws
  <2> QED
    BY <2>1, <2>2
<1>7. ASSUME NEW g \in Host, NEW i \in Host, g # i
      PROVE  Apart(hostJob[g], hostJob[i])'
  <2>1. \A k \in Host \ {h} : Apart(hostJob[k], j) /\ Apart(j, hostJob[k])
    BY <1>2, <1>5 DEF Apart
  <2>2. Apart(hostJob'[g], hostJob'[i])
    BY <1>1, <1>7, <2>1 DEF TablesInv
  <2> QED
    BY <2>2 DEF Apart, Draws
<1>8. CodesLead'
  BY DEF TablesInv, CodesLead
<1> QED
  BY <1>4, <1>6, <1>7, <1>8 DEF TablesInv

(* create_table and regenerate_table_qr begin.                                *)
LEMMA StartsKeep ==
    ASSUME TablesInv, NEW h \in Host, StartCreate(h) \/ StartRegenerate(h)
    PROVE  TablesInv'
<1>1. codes \in 0..MaxCodes /\ MaxCodes \in Nat
      /\ \A b \in Table : tables[b] # NoRow => tables[b] \in TableRow
      /\ \A g \in Host : hostJob[g] \in Job
  BY TablesAssumption DEF TablesInv, TableRowsInv, TablesTypeOK
<1>2. ASSUME NEW b \in Table, NEW n \in Number,
             tables[b] = NoRow, ~ RowLocked(h, b), codes < MaxCodes, codes' = codes + 1,
             UNCHANGED <<tables, pictures, sessions, hour>>,
             Takes(h, [at |-> "draw", kind |-> "create", table |-> b, locks |-> TRUE,
                       code |-> codes + 1, number |-> n, status |-> "free",
                       renumbered |-> FALSE])
      PROVE  TablesInv'
  <2> DEFINE j == [at |-> "draw", kind |-> "create", table |-> b, locks |-> TRUE,
                   code |-> codes + 1, number |-> n, status |-> "free", renumbered |-> FALSE]
  <2>1. j \in CreateJob /\ j.table = b /\ j.code = codes + 1 /\ j.at = "draw"
    BY <1>1, <1>2 DEF CreateJob, Code
  <2>2. hostJob' = [hostJob EXCEPT ![h] = j]
    BY <1>2 DEF Takes
  <2> HIDE DEF j
  <2>3. j \in Job /\ Draws(j) /\ j \notin RegenerateJob
    BY <2>1, KindsDiffer DEF Job, Draws
  <2>4. \A g \in Host \ {h} : hostJob[g] \in CreateJob => hostJob[g].table # b
    <3>1. ASSUME NEW g \in Host \ {h}, hostJob[g] \in CreateJob
          PROVE  hostJob[g].table # b
      <4>1. hostJob[g].at # "idle" /\ hostJob[g].locks = TRUE
        BY <3>1 DEF CreateJob
      <4> QED
        BY <1>2, <3>1, <4>1 DEF RowLocked, Free
    <3> QED
      BY <3>1
  <2> QED
    BY <1>2, <2>1, <2>2, <2>3, <2>4, StartKeeps
<1>3. ASSUME NEW b \in Table,
             tables[b] # NoRow, codes < MaxCodes, codes' = codes + 1,
             UNCHANGED <<tables, pictures, sessions, hour>>,
             Takes(h, [at |-> "write", kind |-> "regenerate", table |-> b, locks |-> FALSE,
                       code |-> codes + 1, number |-> tables[b].number, renumbered |-> FALSE])
      PROVE  TablesInv'
  <2> DEFINE n == tables[b].number
             j == [at |-> "write", kind |-> "regenerate", table |-> b, locks |-> FALSE,
                   code |-> codes + 1, number |-> n, renumbered |-> FALSE]
  <2>1. n \in Number
    BY <1>1, <1>3 DEF TableRow
  <2> HIDE DEF n
  <2>2. /\ j \in RegenerateJob /\ j.table = b /\ j.code = codes + 1 /\ j.at = "write"
        /\ j.number = n
    BY <1>1, <1>3, <2>1 DEF RegenerateJob, Code
  <2>3. hostJob' = [hostJob EXCEPT ![h] = j]
    BY <1>3 DEF Takes, n
  <2> HIDE DEF j
  <2>4. j \in Job /\ Draws(j) /\ j \notin CreateJob
    BY <2>2, KindsDiffer DEF Job, Draws
  <2> QED
    BY <1>3, <2>2, <2>3, <2>4, StartKeeps DEF n
<1> QED
  BY <1>2, <1>3 DEF StartCreate, StartRegenerate

(* The flush before the picture is drawn.                                     *)
LEMMA AutoFlushKeeps ==
    ASSUME TablesInv, NEW h \in Host, AutoFlush(h)
    PROVE  TablesInv'
<1> DEFINE i == hostJob[h]
           j == [i EXCEPT !.at = "draw", !.locks = TRUE]
<1>1. i.at = "write" /\ i \in Job /\ JobInv(i)
  BY DEF AutoFlush, TablesInv, TableRowsInv
<1>2. /\ hostJob' = [hostJob EXCEPT ![h] = j]
      /\ UNCHANGED <<tables, pictures, codes, sessions, hour>>
  BY DEF AutoFlush, Takes
<1>3. \A g \in Host \ {h} : Apart(hostJob[g], i) /\ Apart(i, hostJob[g])
  BY DEF TablesInv
<1> HIDE DEF i
<1>4. i \in RegenerateJob
  BY <1>1, Kinds
<1>5. /\ j \in RegenerateJob /\ j.at = "draw" /\ j.code = i.code /\ j.table = i.table
      /\ j.number = i.number /\ j.renumbered = i.renumbered
  BY <1>4 DEF RegenerateJob
<1> HIDE DEF j
<1>6. JobInv(j)
  BY <1>1, <1>4, <1>5, KindsDiffer DEF JobInv, Draws
<1>7. \A g \in Host \ {h} : Apart(hostJob[g], j) /\ Apart(j, hostJob[g])
  BY <1>3, <1>4, <1>5, KindsDiffer DEF Apart, Draws
<1>8. j \in Job
  BY <1>5 DEF Job
<1> QED
  BY <1>2, <1>6, <1>7, <1>8, RequestStep

(* The picture is nobody else's.                                              *)
LEMMA SaveQrFileKeeps ==
    ASSUME TablesInv, NEW h \in Host, SaveQrFile(h)
    PROVE  TablesInv'
<1> DEFINE i == hostJob[h]
           j == [i EXCEPT !.at = "commit"]
           picture == [token |-> i.code, number |-> i.number]
<1>1. i.at = "draw" /\ i \in Job /\ JobInv(i)
  BY DEF SaveQrFile, TablesInv, TableRowsInv
<1>2. /\ hostJob' = [hostJob EXCEPT ![h] = j]
      /\ pictures' = [pictures EXCEPT ![i.code] = picture]
      /\ UNCHANGED <<tables, codes, sessions, hour>>
  BY DEF SaveQrFile, Takes
<1>3. \A g \in Host \ {h} : Apart(hostJob[g], i) /\ Apart(i, hostJob[g])
  BY DEF TablesInv
<1>4. \A g \in Host : hostJob'[g] = IF g = h THEN j ELSE hostJob[g]
  BY <1>2 DEF TablesInv, TableRowsInv
<1> HIDE DEF i
<1>5. Draws(i) /\ i.code \in Code /\ i.number \in Number
  <2>1. i \in CreateJob \/ i \in RegenerateJob
    BY <1>1, Kinds
  <2>2. CASE i \in CreateJob
    BY <2>2 DEF CreateJob, Draws
  <2>3. CASE i \in RegenerateJob
    BY <2>3 DEF RegenerateJob, Draws
  <2> QED
    BY <2>1, <2>2, <2>3
<1>6. /\ j.at = "commit" /\ j.code = i.code /\ j.table = i.table /\ j.number = i.number
      /\ j.renumbered = i.renumbered
      /\ i \in CreateJob => j \in CreateJob
      /\ i \in RegenerateJob => j \in RegenerateJob
  <2>1. CASE i \in CreateJob
    BY <2>1, KindsDiffer DEF CreateJob
  <2>2. CASE i \in RegenerateJob
    BY <2>2, KindsDiffer DEF RegenerateJob
  <2> QED
    BY <1>5, <2>1, <2>2 DEF Draws
<1>7. picture \in Picture
  BY <1>5 DEF Picture
<1> HIDE DEF j, picture
<1>8. /\ Draws(j) /\ j \in Job /\ j # Idle /\ j \notin ValidateJob
      /\ j \in CreateJob <=> i \in CreateJob
      /\ j \in RegenerateJob <=> i \in RegenerateJob
  BY <1>5, <1>6, KindsDiffer DEF Draws, Job
<1>9. TableRowsInv'
  BY <1>2, <1>7, <1>8 DEF TablesInv, TableRowsInv, TablesTypeOK
<1>10. \A c \in Code : pictures'[c] = IF c = i.code THEN picture ELSE pictures[c]
  BY <1>2, <1>5 DEF TablesInv, TableRowsInv, TablesTypeOK
<1>11. ASSUME NEW g \in Host
       PROVE  JobInv(hostJob[g])'
  <2>1. CASE g = h
    <3>1. pictures'[j.code] = [token |-> j.code, number |-> j.number]
      BY <1>5, <1>6, <1>10 DEF picture
    <3> QED
      BY <1>1, <1>2, <1>4, <1>5, <1>6, <1>8, <2>1, <3>1, KindsDiffer DEF JobInv, Draws
  <2>2. CASE g # h
    <3>1. JobInv(hostJob[g]) /\ Apart(hostJob[g], i)
      BY <1>3, <2>2 DEF TablesInv
    <3>2. Draws(hostJob[g]) => hostJob[g].code \in Code
      BY DEF Draws, CreateJob, RegenerateJob
    <3>3. Draws(hostJob[g]) => pictures'[hostJob[g].code] = pictures[hostJob[g].code]
      BY <1>5, <1>10, <3>1, <3>2 DEF Apart
    <3> QED
      BY <1>2, <1>4, <2>2, <3>1, <3>3 DEF JobInv, Draws
  <2> QED
    BY <2>1, <2>2
<1>12. ASSUME NEW g \in Host, NEW k \in Host, g # k
       PROVE  Apart(hostJob[g], hostJob[k])'
  <2>1. \A l \in Host \ {h} : Apart(hostJob[l], j) /\ Apart(j, hostJob[l])
    BY <1>3, <1>5, <1>6, <1>8 DEF Apart
  <2>2. Apart(hostJob'[g], hostJob'[k])
    BY <1>4, <1>12, <2>1 DEF TablesInv
  <2> QED
    BY <2>2 DEF Apart, Draws
<1>13. CodesLead'
  <2>1. \A b \in Table : tables[b] # NoRow => tables[b].url \in Code /\ tables[b].url # i.code
    BY <1>1, <1>5 DEF TablesInv, TableRowsInv, TablesTypeOK, TableRow, JobInv
  <2> QED
    BY <1>2, <1>10, <2>1 DEF TablesInv, CodesLead
<1> QED
  BY <1>9, <1>11, <1>12, <1>13 DEF TablesInv

(* Requests that draw nothing.                                                *)
LEMMA PlainKeeps ==
    ASSUME TablesInv, NEW h \in Host, UpdateTable(h) \/ ScanQr(h) \/ ValidateSession(h)
    PROVE  TablesInv'
<1>1. /\ \A b \in Table : tables[b] # NoRow => tables[b] \in TableRow
      /\ \A s \in Scan : sessions[s] # NoRow => sessions[s] \in SessionRow
      /\ hour \in 0..MaxHours
  BY DEF TablesInv, TableRowsInv, TablesTypeOK
<1>2. ASSUME NEW b \in Table, NEW n \in Number, NEW status \in TableStatus,
             tables[b] # NoRow, NEW set \in SUBSET {"number", "status"},
             Takes(h, [at |-> "flush", kind |-> "update", table |-> b, locks |-> FALSE,
                       set |-> set, number |-> n, status |-> status]),
             UNCHANGED <<tables, pictures, codes, sessions, hour>>
      PROVE  TablesInv'
  <2> DEFINE j == [at |-> "flush", kind |-> "update", table |-> b, locks |-> FALSE,
                   set |-> set, number |-> n, status |-> status]
  <2>1. j \in UpdateJob /\ j.table = b
    BY DEF UpdateJob
  <2>2. hostJob' = [hostJob EXCEPT ![h] = j]
    BY <1>2 DEF Takes
  <2> HIDE DEF j
  <2> QED
    BY <1>2, <2>1, <2>2, KindsDiffer, PlainStep
<1>3. CASE UpdateTable(h)
  <2>1. PICK b \in Table, n \in Number, status \in TableStatus :
            /\ tables[b] # NoRow
            /\ Takes(h, [at |-> "flush", kind |-> "update", table |-> b, locks |-> FALSE,
                         set |-> (IF n = tables[b].number THEN {} ELSE {"number"})
                                 \cup (IF status = tables[b].status THEN {} ELSE {"status"}),
                         number |-> n, status |-> status])
            /\ UNCHANGED <<tables, pictures, codes, sessions, hour>>
    BY <1>3 DEF UpdateTable
  <2> DEFINE set == (IF n = tables[b].number THEN {} ELSE {"number"})
                    \cup (IF status = tables[b].status THEN {} ELSE {"status"})
  <2>2. set \in SUBSET {"number", "status"}
    OBVIOUS
  <2> QED
    BY <1>2, <2>1, <2>2
<1>4. CASE ScanQr(h)
  <2>1. PICK b \in Table, s \in Scan :
            /\ tables[b] # NoRow
            /\ Takes(h, [at |-> "flush", kind |-> "scan", table |-> b, locks |-> FALSE,
                         session |-> s, ends |-> hour + SessionHours])
            /\ UNCHANGED <<tables, pictures, codes, sessions, hour>>
    BY <1>4 DEF ScanQr
  <2> DEFINE j == [at |-> "flush", kind |-> "scan", table |-> b, locks |-> FALSE,
                   session |-> s, ends |-> hour + SessionHours]
  <2>2. hour + SessionHours \in 0..MaxHours + SessionHours
    BY <1>1, TablesAssumption
  <2>3. j \in ScanJob /\ j.table = b
    BY <2>2 DEF ScanJob
  <2>4. hostJob' = [hostJob EXCEPT ![h] = j]
    BY <2>1 DEF Takes
  <2> HIDE DEF j
  <2> QED
    BY <2>1, <2>3, <2>4, KindsDiffer, PlainStep
<1>5. CASE ValidateSession(h)
  <2>1. PICK s \in Scan, at \in {"expire", "valid"} :
            /\ sessions[s] # NoRow
            /\ Takes(h, [at |-> at, kind |-> "validate", table |-> sessions[s].table,
                         locks |-> FALSE, session |-> s])
            /\ UNCHANGED <<tables, pictures, codes, sessions, hour>>
    <3>1. PICK s \in Scan :
              /\ sessions[s] # NoRow
              /\ Takes(h, [at |-> IF sessions[s].ends < hour THEN "expire" ELSE "valid",
                           kind |-> "validate", table |-> sessions[s].table,
                           locks |-> FALSE, session |-> s])
              /\ UNCHANGED <<tables, pictures, codes, sessions, hour>>
      BY <1>5 DEF ValidateSession
    <3>2. (IF sessions[s].ends < hour THEN "expire" ELSE "valid") \in {"expire", "valid"}
      OBVIOUS
    <3> QED
      BY <3>1, <3>2
  <2> DEFINE b == sessions[s].table
             j == [at |-> at, kind |-> "validate", table |-> b, locks |-> FALSE, session |-> s]
  <2>2. b \in Table
    BY <1>1, <2>1 DEF SessionRow
  <2>3. hostJob' = [hostJob EXCEPT ![h] = j]
    BY <2>1 DEF Takes
  <2> HIDE DEF b
  <2>4. j \in ValidateJob /\ j.session = s
    BY <2>2 DEF ValidateJob
  <2> HIDE DEF j
  <2> QED
    BY <2>1, <2>3, <2>4, PlainStep
<1> QED
  BY <1>3, <1>4, <1>5

(* Its row is written, or waited for.                                         *)
LEMMA FlushRowKeeps ==
    ASSUME TablesInv, NEW h \in Host, FlushRow(h)
    PROVE  TablesInv'
<1> DEFINE i == hostJob[h]
           locks == i.kind = "scan" \/ i.set # {}
           j == [i EXCEPT !.at = "commit", !.locks = locks]
<1>1. i.at = "flush" /\ i \in Job /\ JobInv(i)
  BY DEF FlushRow, TablesInv, TableRowsInv
<1>2. /\ hostJob' = [hostJob EXCEPT ![h] = j]
      /\ UNCHANGED <<tables, pictures, codes, sessions, hour>>
  BY DEF FlushRow, Takes
<1>3. locks \in BOOLEAN
  OBVIOUS
<1> HIDE DEF i, locks
<1>4. j \in UpdateJob \cup ScanJob /\ j.table = i.table
  <2>1. i \in UpdateJob \/ i \in ScanJob
    BY <1>1, Kinds
  <2>2. CASE i \in UpdateJob
    BY <1>3, <2>2 DEF UpdateJob
  <2>3. CASE i \in ScanJob
    BY <1>3, <2>3 DEF ScanJob
  <2> QED
    BY <2>1, <2>2, <2>3
<1>5. tables[i.table] # NoRow
  <2>1. i \in UpdateJob \cup ScanJob
    BY <1>1, Kinds
  <2> QED
    BY <1>1, <2>1, KindsDiffer DEF JobInv, Draws
<1> HIDE DEF j
<1> QED
  BY <1>2, <1>4, <1>5, KindsDiffer, PlainStep

--------------------------------------------------------------------------------
(* Commits                                                                    *)

(* What others draw may only be known to have missed a number.                *)
SameJob(i, j) ==
    /\ i \in CreateJob <=> j \in CreateJob
    /\ i \in RegenerateJob <=> j \in RegenerateJob
    /\ i \in ValidateJob <=> j \in ValidateJob
    /\ i = Idle <=> j = Idle
    /\ i # Idle => j.table = i.table
    /\ i \in ValidateJob => j.session = i.session
    /\ Draws(i) => j.code = i.code /\ j.number = i.number /\ j.at = i.at
    /\ i \in RegenerateJob => j.renumbered \/ j.renumbered = i.renumbered

(* A row that is written must name a picture, and its code be nobody's.       *)
LEMMA CommitRow ==
    ASSUME TablesInv, NEW h \in Host, NEW b \in Table, NEW row \in TableRow,
           tables' = [tables EXCEPT ![b] = row],
           sessions' \in [Scan -> SessionRow \cup {NoRow}],
           \A s \in Scan : sessions[s] # NoRow => sessions'[s] # NoRow,
           hostJob' \in [Host -> Job], hostJob'[h] = Idle,
           \A g \in Host \ {h} : SameJob(hostJob[g], hostJob'[g]),
           UNCHANGED <<pictures, codes, hour>>,
           row.url <= codes,
           pictures[row.url] # NoRow,
           pictures[row.url].token = row.qr_token,
           pictures[row.url].number = row.number \/ row.renumbered,
           \A g \in Host \ {h} :
               /\ Draws(hostJob[g]) => hostJob[g].code # row.url
               /\ hostJob[g] \in CreateJob => hostJob[g].table # b
               /\ hostJob[g] \in RegenerateJob /\ hostJob[g].table = b =>
                      hostJob'[g].renumbered \/ hostJob[g].number = row.number
    PROVE  TablesInv'
<1>1. \A c \in Table : tables'[c] = IF c = b THEN row ELSE tables[c]
  BY DEF TablesInv, TableRowsInv, TablesTypeOK
<1>2. row # NoRow
  BY TablesAssumption
<1>3. TableRowsInv'
  BY <1>1 DEF TablesInv, TableRowsInv, TablesTypeOK
<1>4. ASSUME NEW g \in Host
      PROVE  JobInv(hostJob[g])'
  <2>1. CASE g = h
    BY <2>1, KindsDiffer DEF JobInv, Draws
  <2>2. CASE g # h
    <3> DEFINE i == hostJob[g]
    <3>1. JobInv(i) /\ i \in Job
      BY DEF TablesInv, TableRowsInv
    <3>2. PICK j : j = hostJob'[g]
      OBVIOUS
    <3>3. SameJob(i, j)
      BY <2>2, <3>2
    <3>4. /\ Draws(i) => i.code # row.url
          /\ i \in CreateJob => i.table # b
          /\ i \in RegenerateJob /\ i.table = b => j.renumbered \/ i.number = row.number
      BY <2>2, <3>2
    <3> HIDE DEF i
    <3>5. i # Idle => i.table \in Table
      BY <3>1, Kinds
    <3>6. i \in ValidateJob => i.session \in Scan
      BY DEF ValidateJob
    <3>7. j \in CreateJob => tables'[j.table] = NoRow
      BY <1>1, <3>1, <3>3, <3>4, <3>5, KindsDiffer DEF JobInv, SameJob
    <3>8. j \notin CreateJob \cup ValidateJob \cup {Idle} => tables'[j.table] # NoRow
      BY <1>1, <1>2, <3>1, <3>3, <3>5 DEF JobInv, SameJob
    <3>9. Draws(j) =>
            /\ j.code <= codes
            /\ \A c \in Table : tables'[c] # NoRow => tables'[c].url # j.code
            /\ j.at = "commit" => pictures[j.code] = [token |-> j.code, number |-> j.number]
      BY <1>1, <3>1, <3>3, <3>4 DEF JobInv, SameJob, Draws
    <3>10. j \in RegenerateJob => j.renumbered \/ j.number = tables'[j.table].number
      BY <1>1, <3>1, <3>3, <3>4, <3>5, KindsDiffer DEF JobInv, SameJob, Draws
    <3>11. j \in ValidateJob => sessions'[j.session] # NoRow
      BY <3>1, <3>3, <3>6 DEF JobInv, SameJob
    <3> QED
      BY <3>2, <3>7, <3>8, <3>9, <3>10, <3>11 DEF JobInv, Draws
  <2> QED
    BY <2>1, <2>2
<1>5. ASSUME NEW g \in Host, NEW i \in Host, g # i
      PROVE  Apart(hostJob[g], hostJob[i])'
  <2>1. Apart(hostJob[g], hostJob[i])
    BY <1>5 DEF TablesInv
  <2>2. CASE g = h \/ i = h
    BY <2>2, KindsDiffer DEF Apart, Draws
  <2>3. CASE g # h /\ i # h
    <3>1. SameJob(hostJob[g], hostJob'[g]) /\ SameJob(hostJob[i], hostJob'[i])
      BY <2>3
    <3>2. hostJob[g] \in CreateJob /\ hostJob[i] \in CreateJob =>
              hostJob[g] # Idle /\ hostJob[i] # Idle
      BY KindsDiffer
    <3> QED
      BY <2>1, <3>1, <3>2 DEF Apart, SameJob, Draws
  <2> QED
    BY <2>2, <2>3
<1>6. CodesLead'
  BY <1>1 DEF TablesInv, CodesLead
<1> QED
  BY <1>3, <1>4, <1>5, <1>6 DEF TablesInv

(* A request is the same as long as nobody touches it.                        *)
LEMMA SameAsItself == \A j : SameJob(j, j)
BY DEF SameJob

(* A code that is committed is that of the picture its request drew.          *)
LEMMA CommitCodeKeeps ==
    ASSUME TablesInv, NEW h \in Host, CommitCreate(h) \/ CommitRegenerate(h)
    PROVE  TablesInv'
<1> DEFINE i == hostJob[h]
           b == i.table
<1>1. i.at = "commit" /\ i \in Job /\ JobInv(i)
  BY DEF CommitCreate, CommitRegenerate, TablesInv, TableRowsInv
<1>2. /\ hostJob' = [hostJob EXCEPT ![h] = Idle]
      /\ UNCHANGED <<pictures, codes, sessions, hour>>
      /\ \/ /\ i.kind = "create"
            /\ tables' = [tables EXCEPT ![b] = [qr_token |-> i.code, url |-> i.code,
                            number |-> i.number, status |-> "free", renumbered |-> FALSE]]
         \/ /\ i.kind = "regenerate"
            /\ tables' = [tables EXCEPT ![b].qr_token = i.code, ![b].url = i.code,
                                        ![b].renumbered = i.renumbered]
  BY DEF CommitCreate, CommitRegenerate, Takes
<1>3. \A g \in Host \ {h} : Apart(hostJob[g], i) /\ Apart(i, hostJob[g])
  BY DEF TablesInv
<1>4. /\ hostJob' \in [Host -> Job] /\ hostJob'[h] = Idle
      /\ \A g \in Host \ {h} : hostJob'[g] = hostJob[g]
  BY <1>2, IdleStands DEF TablesInv, TableRowsInv
<1>5. tables \in [Table -> TableRow \cup {NoRow}] /\ sessions \in [Scan -> SessionRow \cup {NoRow}]
      /\ \A g \in Host : JobInv(hostJob[g]) /\ hostJob[g] \in Job
  BY DEF TablesInv, TableRowsInv, TablesTypeOK
<1> HIDE DEF i
<1>6. /\ Draws(i) /\ i.code \in Code /\ i.number \in Number /\ b \in Table
      /\ i.kind = "create" => i \in CreateJob
      /\ i.kind = "regenerate" => i \in RegenerateJob /\ i.renumbered \in BOOLEAN
  <2>1. CASE i \in CreateJob
    BY <2>1 DEF CreateJob, Draws
  <2>2. CASE i \in RegenerateJob
    BY <2>2 DEF RegenerateJob, Draws
  <2> QED
    BY <1>1, <1>2, <2>1, <2>2, Kinds
<1>7. /\ i.code <= codes /\ pictures[i.code] = [token |-> i.code, number |-> i.number]
      /\ [token |-> i.code, number |-> i.number] # NoRow
  <2>1. [token |-> i.code, number |-> i.number] \in Picture
    BY <1>6 DEF Picture
  <2> QED
    BY <1>1, <1>6, <2>1, TablesAssumption DEF JobInv
<1>8. PICK row \in TableRow :
          /\ tables' = [tables EXCEPT ![b] = row]
          /\ row.url = i.code /\ row.qr_token = i.code
          /\ i.number = row.number \/ row.renumbered
          /\ tables[b] # NoRow => row.number = tables[b].number
  <2>1. CASE i.kind = "create"
    <3> DEFINE row == [qr_token |-> i.code, url |-> i.code, number |-> i.number,
                       status |-> "free", renumbered |-> FALSE]
    <3>1. row \in TableRow
      BY <1>6 DEF TableRow, TableStatus
    <3>2. tables[b] = NoRow
      BY <1>1, <1>6, <2>1 DEF JobInv
    <3> QED
      BY <1>2, <2>1, <3>1, <3>2
  <2>2. CASE i.kind = "regenerate"
    <3> DEFINE old == tables[b]
               row == [old EXCEPT !.qr_token = i.code, !.url = i.code,
                                  !.renumbered = i.renumbered]
    <3>1. old \in TableRow /\ (i.renumbered \/ i.number = old.number)
      BY <1>1, <1>5, <1>6, <2>2, KindsDiffer DEF JobInv
    <3>2. tables' = [tables EXCEPT ![b] = row]
      BY <1>2, <1>5, <1>6, <2>2, <3>1 DEF TableRow
    <3> HIDE DEF old
    <3>3. /\ row \in TableRow /\ row.url = i.code /\ row.qr_token = i.code
          /\ row.number = old.number /\ row.renumbered = i.renumbered
      BY <1>6, <2>2, <3>1 DEF TableRow
    <3> QED
      BY <3>1, <3>2, <3>3 DEF old
  <2> QED
    BY <1>2, <2>1, <2>2
<1>9. \A g \in Host \ {h} :
          /\ Draws(hostJob[g]) => hostJob[g].code # row.url
          /\ hostJob[g] \in CreateJob => hostJob[g].table # b
          /\ hostJob[g] \in RegenerateJob /\ hostJob[g].table = b =>
                 hostJob'[g].renumbered \/ hostJob[g].number = row.number
  <2>1. ASSUME NEW g \in Host \ {h}
        PROVE  /\ Draws(hostJob[g]) => hostJob[g].code # row.url
               /\ hostJob[g] \in CreateJob => hostJob[g].table # b
               /\ hostJob[g] \in RegenerateJob /\ hostJob[g].table = b =>
                      hostJob'[g].renumbered \/ hostJob[g].number = row.number
    <3>1. JobInv(hostJob[g]) /\ Apart(hostJob[g], i)
      BY <1>3, <1>5
    <3>2. Draws(hostJob[g]) => hostJob[g].code # row.url
      BY <1>6, <1>8, <3>1 DEF Apart
    <3>3. hostJob[g] \in CreateJob => hostJob[g].table # b
      <4>1. CASE i.kind = "create"
        BY <1>6, <3>1, <4>1 DEF Apart
      <4>2. CASE i.kind = "regenerate"
        BY <1>1, <1>6, <3>1, <4>2, KindsDiffer DEF JobInv
      <4> QED
        BY <1>2, <4>1, <4>2
    <3>4. hostJob[g] \in RegenerateJob /\ hostJob[g].table = b =>
              hostJob[g].renumbered \/ hostJob[g].number = row.number
      BY <1>8, <3>1, KindsDiffer DEF JobInv
    <3> QED
      BY <1>4, <3>2, <3>3, <3>4
  <2> QED
    BY <2>1
<1>10. \A g \in Host \ {h} : SameJob(hostJob[g], hostJob'[g])
  BY <1>4, SameAsItself
<1> HIDE DEF b
<1>11. /\ row.url <= codes /\ pictures[row.url] # NoRow
       /\ pictures[row.url].token = row.qr_token
       /\ pictures[row.url].number = row.number \/ row.renumbered
  BY <1>7, <1>8
<1>12. /\ sessions' \in [Scan -> SessionRow \cup {NoRow}]
       /\ \A s \in Scan : sessions[s] # NoRow => sessions'[s] # NoRow
       /\ UNCHANGED <<pictures, codes, hour>>
  BY <1>2, <1>5
<1> QED
  BY <1>4, <1>6, <1>8, <1>9, <1>10, <1>11, <1>12, CommitRow

(* A row that keeps its code.                                                 *)
LEMMA CommitOther ==
    ASSUME TablesInv, NEW h \in Host, NEW b \in Table, tables[b] # NoRow, NEW row \in TableRow,
           tables' = [tables EXCEPT ![b] = row],
           row.url = tables[b].url, row.qr_token = tables[b].qr_token,
           tables[b].renumbered => row.renumbered,
           row.number = tables[b].number \/ row.renumbered,
           sessions' \in [Scan -> SessionRow \cup {NoRow}],
           \A s \in Scan : sessions[s] # NoRow => sessions'[s] # NoRow,
           hostJob' \in [Host -> Job], hostJob'[h] = Idle,
           \A g \in Host \ {h} : SameJob(hostJob[g], hostJob'[g]),
           \A g \in Host \ {h} : hostJob[g] \in RegenerateJob /\ hostJob[g].table = b =>
               \/ hostJob'[g].renumbered
               \/ row.number = tables[b].number /\ hostJob'[g] = hostJob[g],
           UNCHANGED <<pictures, codes, hour>>
    PROVE  TablesInv'
<1>1. /\ row.url <= codes /\ pictures[row.url] # NoRow
      /\ pictures[row.url].token = row.qr_token
      /\ pictures[row.url].number = row.number \/ row.renumbered
  BY DEF TablesInv, TableRowsInv, CodesLead
<1>2. ASSUME NEW g \in Host \ {h}
      PROVE  /\ Draws(hostJob[g]) => hostJob[g].code # row.url
             /\ hostJob[g] \in CreateJob => hostJob[g].table # b
             /\ hostJob[g] \in RegenerateJob /\ hostJob[g].table = b =>
                    hostJob'[g].renumbered \/ hostJob[g].number = row.number
  <2>1. JobInv(hostJob[g])
    BY DEF TablesInv
  <2> QED
    BY <2>1, KindsDiffer DEF JobInv
<1> QED
  BY <1>1, <1>2, CommitRow

(* update_table; whoever draws the table with its old number has missed it.   *)
LEMMA CommitUpdateKeeps ==
    ASSUME TablesInv, NEW h \in Host, CommitUpdate(h)
    PROVE  TablesInv'
<1> DEFINE i == hostJob[h]
           b == i.table
           old == tables[b]
           number == IF "number" \in i.set THEN i.number ELSE old.number
           status == IF "status" \in i.set THEN i.status ELSE old.status
           late == old.renumbered \/ "number" \in i.set
           row == [old EXCEPT !.number = number, !.status = status, !.renumbered = late]
<1>1. /\ i.at = "commit" /\ i.kind = "update"
      /\ hostJob' = IF "number" \in i.set THEN Renumbered(h, b) ELSE [hostJob EXCEPT ![h] = Idle]
      /\ UNCHANGED <<pictures, codes, sessions, hour>>
  BY DEF CommitUpdate
<1>2. /\ tables \in [Table -> TableRow \cup {NoRow}]
      /\ sessions \in [Scan -> SessionRow \cup {NoRow}]
      /\ hostJob \in [Host -> Job]
      /\ i \in Job /\ JobInv(i)
  BY DEF TablesInv, TableRowsInv, TablesTypeOK
<1>3. i \in UpdateJob
  BY <1>1, <1>2, Kinds
<1>4. /\ i.table \in Table /\ i.number \in Number /\ i.status \in TableStatus
      /\ tables[i.table] # NoRow
  BY <1>2, <1>3, KindsDiffer DEF UpdateJob, JobInv
<1>5. old \in TableRow
  BY <1>2, <1>4
<1>6. number \in Number /\ status \in TableStatus /\ late \in BOOLEAN
  BY <1>4, <1>5 DEF TableRow
<1>7. tables' = [tables EXCEPT ![b] = row]
  BY DEF CommitUpdate
<1>8. /\ row \in TableRow /\ row.url = old.url /\ row.qr_token = old.qr_token
      /\ row.number = number /\ row.renumbered = late
  <2> HIDE DEF old, number, status, late
  <2> QED
    BY <1>5, <1>6 DEF TableRow
<1>9. b \in Table /\ tables[b] # NoRow
  BY <1>4
<1>10. ASSUME NEW g \in Host \ {h}
       PROVE  /\ SameJob(hostJob[g], hostJob'[g])
              /\ hostJob'[g] \in Job
              /\ hostJob[g] \in RegenerateJob /\ hostJob[g].table = b =>
                     hostJob'[g].renumbered \/ ("number" \notin i.set /\ hostJob'[g] = hostJob[g])
  <2>1. hostJob[g] \in Job
    BY <1>2
  <2>2. CASE "number" \notin i.set
    BY <1>1, <1>2, <2>1, <2>2, SameAsItself
  <2>3. CASE "number" \in i.set
    <3>1. hostJob'[g] = IF Works(g, {"regenerate"}) /\ hostJob[g].table = b
                        THEN [hostJob[g] EXCEPT !.renumbered = TRUE] ELSE hostJob[g]
      BY <1>1, <2>3 DEF Renumbered
    <3>2. Works(g, {"regenerate"}) <=> hostJob[g] \in RegenerateJob
      BY <2>1, Kinds DEF Works, Free
    <3>3. CASE hostJob[g] \in RegenerateJob /\ hostJob[g].table = b
      <4> DEFINE k == hostJob[g]
                 j == [k EXCEPT !.renumbered = TRUE]
      <4>1. hostJob'[g] = j /\ k \in RegenerateJob
        BY <3>1, <3>2, <3>3
      <4> HIDE DEF k
      <4>2. /\ j \in RegenerateJob /\ j.table = k.table /\ j.code = k.code
            /\ j.number = k.number /\ j.at = k.at /\ j.renumbered = TRUE
        BY <4>1 DEF RegenerateJob
      <4>3. SameJob(k, j) /\ j \in Job
        BY <4>1, <4>2, KindsDiffer DEF SameJob, Job
      <4> HIDE DEF j
      <4> QED
        BY <4>1, <4>2, <4>3 DEF k
    <3>4. CASE ~ (hostJob[g] \in RegenerateJob /\ hostJob[g].table = b)
      BY <2>1, <3>1, <3>2, <3>4, SameAsItself
    <3> QED
      BY <3>3, <3>4
  <2> QED
    BY <2>2, <2>3
<1>11. hostJob'[h] = Idle /\ hostJob' \in [Host -> Job]
  <2>1. hostJob'[h] = Idle
    BY <1>1, <1>2 DEF Renumbered
  <2>2. \A g \in Host : hostJob'[g] \in Job
    BY <1>10, <2>1, IdleStands
  <2>3. hostJob' = [hostJob EXCEPT ![h] = Idle] \/ hostJob' = Renumbered(h, b)
    BY <1>1
  <2>4. \E f : hostJob' = [g \in Host |-> f[g]]
    BY <1>2, <2>3 DEF Renumbered
  <2> QED
    BY <2>1, <2>2, <2>4
<1>12. /\ tables[b].renumbered => row.renumbered
       /\ row.number = tables[b].number \/ row.renumbered
       /\ "number" \notin i.set => row.number = tables[b].number
  <2>1. /\ old.renumbered => late
        /\ number = old.number \/ late
        /\ "number" \notin i.set => number = old.number
    OBVIOUS
  <2>2. row.number = number /\ row.renumbered = late
    BY <1>8
  <2> HIDE DEF row, number, late
  <2> QED
    BY <2>1, <2>2
<1>13. /\ sessions' \in [Scan -> SessionRow \cup {NoRow}]
       /\ \A s \in Scan : sessions[s] # NoRow => sessions'[s] # NoRow
       /\ UNCHANGED <<pictures, codes, hour>>
  BY <1>1, <1>2
<1>14. row \in TableRow /\ row.url = tables[b].url /\ row.qr_token = tables[b].qr_token
  BY <1>8
<1> HIDE DEF row
<1>15. \A g \in Host \ {h} : SameJob(hostJob[g], hostJob'[g])
  BY <1>10
<1>16. \A g \in Host \ {h} : hostJob[g] \in RegenerateJob /\ hostJob[g].table = b =>
           \/ hostJob'[g].renumbered
           \/ row.number = tables[b].number /\ hostJob'[g] = hostJob[g]
  BY <1>10, <1>12
<1> HIDE DEF b
<1> QED
  BY <1>7, <1>9, <1>11, <1>12, <1>13, <1>14, <1>15, <1>16, CommitOther

(* scan_qr: the guest has a session and the table is occupied.                *)
LEMMA CommitScanKeeps ==
    ASSUME TablesInv, NEW h \in Host, CommitScan(h)
    PROVE  TablesInv'
<1> DEFINE i == hostJob[h]
           b == i.table
           old == tables[b]
           row == [old EXCEPT !.status = "occupied"]
           guest == [table |-> b, ends |-> i.ends, status |-> "active"]
<1>1. /\ i.at = "commit" /\ i.kind = "scan"
      /\ hostJob' = [hostJob EXCEPT ![h] = Idle]
      /\ sessions' = [sessions EXCEPT ![i.session] = guest]
      /\ tables' = [tables EXCEPT ![b].status = "occupied"]
      /\ UNCHANGED <<pictures, codes, hour>>
  BY DEF CommitScan, Takes
<1>2. /\ tables \in [Table -> TableRow \cup {NoRow}]
      /\ sessions \in [Scan -> SessionRow \cup {NoRow}]
      /\ hostJob \in [Host -> Job]
      /\ i \in Job /\ JobInv(i)
  BY DEF TablesInv, TableRowsInv, TablesTypeOK
<1>3. i \in ScanJob
  BY <1>1, <1>2, Kinds
<1>4. /\ i.table \in Table /\ i.session \in Scan /\ i.ends \in 0..MaxHours + SessionHours
      /\ tables[i.table] # NoRow
  BY <1>2, <1>3, KindsDiffer DEF ScanJob, JobInv
<1>5. old \in TableRow
  BY <1>2, <1>4
<1>6. guest \in SessionRow /\ guest # NoRow
  BY <1>4, TablesAssumption DEF SessionRow
<1>7. tables' = [tables EXCEPT ![b] = row]
  BY <1>1, <1>2, <1>4
<1>8. /\ row \in TableRow /\ row.url = old.url /\ row.qr_token = old.qr_token
      /\ row.number = old.number /\ row.renumbered = old.renumbered
  <2> HIDE DEF old
  <2> QED
    BY <1>5 DEF TableRow, TableStatus
<1>9. /\ hostJob' \in [Host -> Job] /\ hostJob'[h] = Idle
      /\ \A g \in Host \ {h} : hostJob'[g] = hostJob[g]
  BY <1>1, <1>2, IdleStands
<1> HIDE DEF guest
<1>10. /\ sessions' \in [Scan -> SessionRow \cup {NoRow}]
       /\ \A s \in Scan : sessions[s] # NoRow => sessions'[s] # NoRow
  BY <1>1, <1>2, <1>6
<1>11. /\ b \in Table /\ tables[b] # NoRow
       /\ row \in TableRow /\ row.url = tables[b].url /\ row.qr_token = tables[b].qr_token
       /\ row.number = tables[b].number /\ row.renumbered = tables[b].renumbered
  BY <1>4, <1>8
<1> HIDE DEF row
<1>12. \A g \in Host \ {h} : SameJob(hostJob[g], hostJob'[g])
  BY <1>9, SameAsItself
<1>13. \A g \in Host \ {h} : hostJob[g] \in RegenerateJob /\ hostJob[g].table = b =>
           \/ hostJob'[g].renumbered
           \/ row.number = tables[b].number /\ hostJob'[g] = hostJob[g]
  BY <1>9, <1>11
<1>14. UNCHANGED <<pictures, codes, hour>>
  BY <1>1
<1> HIDE DEF b
<1> QED
  BY <1>7, <1>9, <1>10, <1>11, <1>12, <1>13, <1>14, CommitOther

(* A session that is over, and the clock.                                     *)
LEMMA ExpireKeeps ==
    ASSUME TablesInv, (\E h \in Host : Expire(h)) \/ HourPasses
    PROVE  TablesInv'
<1>1. CASE HourPasses
  <2>1. /\ hour < MaxHours /\ hour' = hour + 1
        /\ UNCHANGED <<tables, pictures, codes, sessions, hostJob>>
    BY <1>1 DEF HourPasses
  <2>2. TableRowsInv'
    BY <2>1, TablesAssumption DEF TablesInv, TableRowsInv, TablesTypeOK
  <2> QED
    BY <2>1, <2>2 DEF TablesInv, JobInv, Apart, Draws, CodesLead
<1>2. ASSUME NEW h \in Host, Expire(h)
      PROVE  TablesInv'
  <2> DEFINE i == hostJob[h]
             s == i.session
             old == sessions[s]
             row == [old EXCEPT !.status = "expired"]
  <2>1. /\ i.at = "expire"
        /\ hostJob' = [hostJob EXCEPT ![h] = Idle]
        /\ sessions' = [sessions EXCEPT ![s].status = "expired"]
        /\ UNCHANGED <<tables, pictures, codes, hour>>
    BY <1>2 DEF Expire, Takes
  <2>2. i \in Job /\ JobInv(i) /\ sessions \in [Scan -> SessionRow \cup {NoRow}]
        /\ hostJob \in [Host -> Job]
    BY DEF TablesInv, TableRowsInv, TablesTypeOK
  <2>3. i \in ValidateJob
    BY <2>1, <2>2, Kinds
  <2>4. s \in Scan /\ old # NoRow
    BY <2>2, <2>3 DEF JobInv, ValidateJob
  <2>5. old \in SessionRow
    BY <2>2, <2>4
  <2>6. sessions' = [sessions EXCEPT ![s] = row]
    BY <2>1, <2>2, <2>4
  <2>7. row \in SessionRow /\ row # NoRow
    <3> HIDE DEF old
    <3> QED
      BY <2>5, TablesAssumption DEF SessionRow
  <2> HIDE DEF row, i
  <2>8. /\ sessions' \in [Scan -> SessionRow \cup {NoRow}]
        /\ \A t \in Scan : sessions[t] # NoRow => sessions'[t] # NoRow
    BY <2>2, <2>4, <2>6, <2>7
  <2>9. \A g \in Host : hostJob'[g] = IF g = h THEN Idle ELSE hostJob[g]
    BY <2>1, <2>2
  <2>10. TableRowsInv'
    BY <2>1, <2>2, <2>8, IdleStands DEF TablesInv, TableRowsInv, TablesTypeOK
  <2>11. ASSUME NEW g \in Host
         PROVE  JobInv(hostJob[g])'
    <3>1. JobInv(hostJob'[g])
      BY <2>9, IdleStands DEF TablesInv
    <3>2. hostJob'[g] \in ValidateJob => hostJob'[g].session \in Scan
      BY DEF ValidateJob
    <3> QED
      BY <2>1, <2>8, <3>1, <3>2 DEF JobInv, Draws
  <2>12. ASSUME NEW g \in Host, NEW k \in Host, g # k
         PROVE  Apart(hostJob[g], hostJob[k])'
    <3>1. Apart(hostJob'[g], hostJob'[k])
      BY <2>9, <2>12, IdleStands DEF TablesInv
    <3> QED
      BY <3>1 DEF Apart, Draws
  <2> QED
    BY <2>1, <2>10, <2>11, <2>12 DEF TablesInv, CodesLead
<1> QED
  BY <1>1, <1>2

--------------------------------------------------------------------------------
(* Theorems                                                                   *)

(* There are no tables at first.                                              *)
LEMMA InitInv == TablesInit => TablesInv
<1> SUFFICES ASSUME TablesInit
             PROVE  TablesInv
  OBVIOUS
<1>1. TableRowsInv
  BY IdleStands, TablesAssumption DEF TablesInit, TableRowsInv, TablesTypeOK
<1>2. \A h \in Host : hostJob[h] = Idle
  BY DEF TablesInit
<1>3. CodesLead
  BY DEF TablesInit, CodesLead
<1> QED
  BY <1>1, <1>2, <1>3, IdleStands DEF TablesInv

(* Every step keeps the invariant.                                            *)
LEMMA NextInv == TablesInv /\ [TablesNext]_tablesVars => TablesInv'
<1>1. TablesInv /\ UNCHANGED tablesVars => TablesInv'
  <2> SUFFICES ASSUME TablesInv, UNCHANGED tablesVars
               PROVE  TablesInv'
    OBVIOUS
  <2>1. /\ TableRowsInv'
        /\ CodesLead'
    BY DEF TablesInv, TableRowsInv, TablesTypeOK, CodesLead, tablesVars
  <2>2. \A g \in Host : JobInv(hostJob[g])'
    BY DEF TablesInv, JobInv, Draws, tablesVars
  <2>3. \A g, h \in Host : g # h => Apart(hostJob[g], hostJob[h])'
    BY DEF TablesInv, Apart, Draws, tablesVars
  <2> QED
    BY <2>1, <2>2, <2>3 DEF TablesInv
<1> QED
  BY <1>1, StartsKeep, AutoFlushKeeps, SaveQrFileKeeps, PlainKeeps, FlushRowKeeps,
     CommitCodeKeeps, CommitUpdateKeeps, CommitScanKeeps, ExpireKeeps, EndRequestKeeps DEF TablesNext

(* The invariant holds throughout.                                            *)
THEOREM TablesInvariance == TablesSpec => []TablesInv
BY InitInv, NextInv, PTL DEF TablesSpec

(* Rows, pictures and guests' sessions are what they are taken for.           *)
THEOREM TablesTypes == TablesSpec => []TablesTypeOK
<1>1. TablesInv => TablesTypeOK
  BY DEF TablesInv, TableRowsInv
<1> QED
  BY <1>1, TablesInvariance, PTL

(* The picture a table names is on the disk, bears the token that scans find  *)
(* the table by, and its number unless that was changed later: however many   *)
(* requests for codes (tables.py) overlap, and wherever they fail.            *)
THEOREM PicturesLead == TablesSpec => []CodesLead
<1>1. TablesInv => CodesLead
  BY DEF TablesInv
<1> QED
  BY <1>1, TablesInvariance, PTL

================================================================================
