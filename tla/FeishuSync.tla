----------------------------- MODULE FeishuSync -----------------------------
(***************************************************************************)
(* The synchronisation of CSV files with tables of Feishu's Bitable: a     *)
(* table is listed page by page, the records of the file whose key is in   *)
(* the list are updated, the others created in chunks.  Every request is   *)
(* tried up to Attempts times, whether or not a lost answer hides that the *)
(* service did what it was asked.  The service never removes a row, so a   *)
(* list is a prefix of the table.  The counts of a report are left out.    *)
(***************************************************************************)
EXTENDS Integers, Sequences, FiniteSets, SequencesExt, Null

CONSTANTS
  Syncs,           \* calls of the service, on any number of hosts
  TableIds,        \* feishu_table_ids.yml: name -> id, Nil if it is empty
  CsvFiles,        \* contents of the CSV files: table -> records
  Remotes,         \* contents of the tables at the start
  FeishuRequests,        \* what callers ask for: [kind, tables, dryRun, apply]
  Configured,      \* app_id and app_secret are set
  ChatConfigured,  \* the API's adapter has a client and a chat id
  RecordsPerPage, Chunk, Attempts, MaxFaults

VARIABLES
  files,     \* table -> records [id, fields, rev] of <table>_for_feishu.csv
  remote,    \* table -> rows, in the order of their creation
  syncs,     \* the calls
  snapshot,  \* data/ops/action_task_status_snapshot.csv
  chat,      \* messages that reached the chat
  faults     \* answers that were not what the service is for

feishuVars == <<files, remote, syncs, snapshot, chat, faults>>

DefaultTableNames == {"daily_metrics", "alert_events", "strategy_recommendations",
                      "action_tasks", "review_retro"}

Available == IF DOMAIN TableIds = {} THEN DefaultTableNames ELSE DOMAIN TableIds

GetTableNames(names) ==
  IF names = {} THEN Available ELSE IF names \subseteq Available THEN names ELSE Nil

\* Mutant: no table has a key of its own.
PrimaryKeyMissing(table) == "record_id"

GetPrimaryKey(table) ==
  CASE table = "daily_metrics"            -> "simulated_date"
    [] table = "alert_events"             -> "event_id"
    [] table = "strategy_recommendations" -> "recommendation_id"
    [] table = "action_tasks"             -> "task_id"
    [] table = "review_retro"             -> "review_id"
    [] OTHER                              -> "record_id"

Key(table, record) == IF GetPrimaryKey(table) \in record.fields THEN record.id ELSE Nil

\* The last listed row with the record's key; 0 if it is to be created.
Match(table, record, seen) ==
  LET same == {i \in 1..seen : /\ Key(table, record) # Nil
                               /\ Key(table, remote[table][i]) = Key(table, record)}
  IN IF same = {} THEN 0 ELSE CHOOSE i \in same : \A k \in same : k <= i

HasId(table) == table \in DOMAIN TableIds /\ TableIds[table] # Nil

FileRecord == [id : STRING, fields : SUBSET STRING, rev : Nat]
OldRow     == [id : STRING, fields : SUBSET STRING, rev : Nat, by : {Nil}, again : {FALSE}]

\* A table that has an id exists; a cell of a file is a string, never null.
ASSUME FeishuAssumption ==
  /\ Nil \notin Syncs
  /\ RecordsPerPage \in Nat /\ Chunk \in Nat /\ Attempts \in Nat
  /\ \A f \in CsvFiles : \A t \in DOMAIN f :
       f[t] # Nil => f[t] \in Seq(FileRecord) /\ \A i \in DOMAIN f[t] : f[t][i].id # Nil
  /\ \A r \in Remotes : /\ r \in [DOMAIN r -> Seq(OldRow)]
                        /\ \A t \in DOMAIN TableIds : HasId(t) => t \in DOMAIN r

-----------------------------------------------------------------------------
(* One attempt of a request: whether the service did it, and its answer.   *)
(* "none" is an error of the transport, "limit" status 429 or code 170002, *)
(* "empty" a body that is not JSON, whose code reads as 0.                 *)

Attempt == {[done |-> TRUE, answer |-> "data"], [done |-> FALSE, answer |-> "refused"],
            [done |-> FALSE, answer |-> "limit"]}
           \cup [done : BOOLEAN, answer : {"none", "empty"}]

IsFault(attempt) == attempt.answer # "data"

\* How doRequest goes on: the last attempt that is limited is an error when
\* the body has a code, and an answer without data when it has none.
TryVerdicts(attempt, try) ==
  CASE attempt.answer = "data"    -> {"data"}
    [] attempt.answer = "refused" -> {"error"}
    [] attempt.answer = "empty"   -> {"empty"}
    [] try < Attempts             -> {"retry"}
    [] attempt.answer = "none"    -> {"error"}
    [] OTHER                      -> {"error", "empty"}

-----------------------------------------------------------------------------
NoSync == [pc |-> "idle", kind |-> Nil, status |-> Nil, todo |-> {}, table |-> Nil, at |-> 0,
           try |-> 1, lost |-> FALSE, queue |-> {}, fresh |-> {}, lists |-> << >>,
           pulled |-> << >>, report |-> << >>]

FeishuInit ==
  /\ files \in CsvFiles
  /\ remote \in Remotes
  /\ syncs = [p \in Syncs |-> NoSync]
  /\ snapshot = Nil
  /\ chat = 0
  /\ faults = 0

Answered(p, kind, status, report) ==
  [syncs EXCEPT ![p] = [NoSync EXCEPT !.pc = "done", !.kind = kind, !.status = status,
                                      !.report = report]]

ReadRows(table) ==
  IF table \notin DOMAIN files \/ files[table] = Nil THEN << >> ELSE files[table]

\* The beginning of SyncToFeishu and ImportStatusFromFeishu.  The names are
\* those of different tables: one that is given twice, which no caller in the
\* repository does, would be synchronised twice.
StartCall(p, r) ==
  /\ r.kind \in {"sync", "import"}
  /\ LET names == GetTableNames(r.tables)
     IN syncs' =
          CASE ~Configured  -> Answered(p, r.kind, "not_configured", << >>)
            [] names = Nil  -> Answered(p, r.kind, "unknown", << >>)
            [] r.dryRun     -> Answered(p, r.kind, "preview",
                                        [t \in names |-> "preview"])
            [] OTHER        -> [syncs EXCEPT ![p].pc = "next", ![p].kind = r.kind,
                                             ![p].todo = names]
  /\ UNCHANGED <<chat, files, remote, snapshot, faults>>

\* ExportTables counts the lines of files that others wrote; a file that is
\* not there counts as exported.
ExportTables(p, r) ==
  /\ r.kind = "export"
  /\ LET names == GetTableNames(r.tables)
     IN syncs' =
          CASE ~Configured  -> Answered(p, "export", "not_configured", << >>)
            [] names = Nil  -> Answered(p, "export", "unknown", << >>)
            [] r.dryRun     -> Answered(p, "export", "preview",
                                        [t \in names |-> "preview"])
            [] OTHER        -> Answered(p, "export", "exported",
                                        [t \in names |-> "exported"])
  /\ UNCHANGED <<chat, files, remote, snapshot, faults>>

\* The adapter's sendMessage: the request object is used again, its body is
\* not, so that no retry delivers a second time.
SendChat == [delivered : BOOLEAN, success : BOOLEAN]

\* Execute of the adapter, which in the API has neither chat nor client.
AdapterExecute(dryRun) ==
  CASE dryRun          -> {[delivered |-> FALSE, success |-> TRUE]}
    [] ~ChatConfigured -> {[delivered |-> FALSE, success |-> FALSE]}
    [] OTHER           -> SendChat

\* The API's export, sync and status import send one message to a chat and
\* report each table as "ok", whether it was sent or not.
ApiFeishu(p, r) ==
  /\ r.kind = "api"
  /\ \E result \in AdapterExecute(~r.apply) : chat' = chat + IF result.delivered THEN 1 ELSE 0
  /\ LET status == IF r.apply THEN "ok" ELSE "dry_run"
     IN syncs' = Answered(p, "api", status, [t \in r.tables |-> status])
  /\ UNCHANGED <<files, remote, snapshot, faults>>

Start(p) ==
  /\ syncs[p].pc = "idle"
  /\ \E r \in FeishuRequests : StartCall(p, r) \/ ExportTables(p, r) \/ ApiFeishu(p, r)

-----------------------------------------------------------------------------
PullTables == {"action_tasks", "review_retro"}

ReportedTable(p, t, result) ==
  [syncs EXCEPT ![p].todo = @ \ {t}, ![p].pc = "next", ![p].table = Nil, ![p].try = 1,
                ![p].report = Put(@, t, result)]

\* A table that is not worth a request, or the first page of one that is.
NextTable(p) ==
  /\ syncs[p].pc = "next"
  /\ \E t \in syncs[p].todo :
       syncs' =
         CASE syncs[p].kind = "sync" /\ ~HasId(t) -> ReportedTable(p, t, "skipped")
           [] syncs[p].kind = "sync" /\ HasId(t)
                /\ (t \notin DOMAIN files \/ files[t] = Nil) ->
                ReportedTable(p, t, "failed")
           [] syncs[p].kind = "sync" /\ HasId(t) /\ ReadRows(t) = << >> ->
                ReportedTable(p, t, "skipped")
           [] syncs[p].kind = "import" /\ (t \notin PullTables \/ ~HasId(t)) ->
                ReportedTable(p, t, "imported")
           [] OTHER -> [syncs EXCEPT ![p].pc = "list", ![p].table = t, ![p].at = 0]
  /\ UNCHANGED <<files, remote, snapshot, chat, faults>>

\* The list is complete: UpsertByKey splits the records of the file, which go
\* by their places in it.
EndList(p, seen, cut) ==
  LET s == syncs[p]  t == s.table
      known == {i \in DOMAIN files[t] : Match(t, files[t][i], seen) # 0}
      list == [seen |-> seen, upto |-> Len(remote[t]), cut |-> cut]
  IN IF s.kind = "import"
     THEN [ReportedTable(p, t, "imported")
             EXCEPT ![p].pulled = Put(@, t, SubSeq(remote[t], 1, seen))]
     ELSE [syncs EXCEPT ![p].pc = "upsert", ![p].try = 1, ![p].lists = Put(@, t, list),
             ![p].queue = known, ![p].fresh = DOMAIN files[t] \ known]

\* One request of ListRecords.  A page without a token, or an answer without
\* data, ends the list as if the table ended there.
ListPage(p) ==
  LET s == syncs[p]
      end == IF s.at + RecordsPerPage < Len(remote[s.table]) THEN s.at + RecordsPerPage
                                                       ELSE Len(remote[s.table])
  IN /\ s.pc = "list"
     /\ \E a \in Attempt, tokenless \in BOOLEAN : \E verdict \in TryVerdicts(a, s.try) :
          /\ IsFault(a) => ~tokenless
          /\ faults' = faults + IF IsFault(a) \/ tokenless THEN 1 ELSE 0
          /\ faults' <= MaxFaults
          /\ syncs' =
               CASE verdict = "retry" -> [syncs EXCEPT ![p].try = @ + 1]
                 [] verdict = "error" ->
                      ReportedTable(p, s.table, IF s.kind = "sync" THEN "failed" ELSE "imported")
                 [] verdict = "empty" -> EndList(p, s.at, s.at < Len(remote[s.table]))
                 [] OTHER ->
                      IF end < Len(remote[s.table]) /\ ~tokenless
                      THEN [syncs EXCEPT ![p].at = end, ![p].try = 1]
                      ELSE EndList(p, end, end < Len(remote[s.table]))
     /\ UNCHANGED <<files, remote, snapshot, chat>>

-----------------------------------------------------------------------------
\* The record that p updates is the last row of its key that p has listed.
Updated(p, record) ==
  [remote EXCEPT ![syncs[p].table][Match(syncs[p].table, record,
                                         syncs[p].lists[syncs[p].table].seen)].rev = record.rev]

\* One request of updateRecord, for the first record that is left; an error
\* is dropped.
UpdateRecord(p) ==
  LET s == syncs[p]
  IN /\ s.pc = "upsert"
     /\ \E first \in s.queue, a \in Attempt : \E verdict \in TryVerdicts(a, s.try) :
          /\ \A i \in s.queue : first <= i
          /\ faults' = faults + IF IsFault(a) THEN 1 ELSE 0
          /\ faults' <= MaxFaults
          /\ remote' = IF a.done THEN Updated(p, files[s.table][first]) ELSE remote
          /\ syncs' = IF verdict = "retry" THEN [syncs EXCEPT ![p].try = @ + 1]
                      ELSE [syncs EXCEPT ![p].try = 1, ![p].queue = @ \ {first}]
     /\ UNCHANGED <<files, snapshot, chat>>

\* The first records of those that are left, and their order.
NextChunk(fresh) == {i \in fresh : Cardinality({k \in fresh : k < i}) < Chunk}

InFileOrder(chunk) ==
  {order \in SetToSeqs(chunk) : \A i, k \in DOMAIN order : i < k => order[i] < order[k]}

\* The rows of a chunk; "again" if an earlier attempt has made them already.
NewRows(p, records, order) ==
  [i \in DOMAIN order |->
     [id |-> records[order[i]].id, fields |-> records[order[i]].fields,
      rev |-> records[order[i]].rev, by |-> p, again |-> syncs[p].lost]]

\* One request of batchCreate; a chunk that fails is given up and the next
\* one is sent.
CreateChunk(p) ==
  LET s == syncs[p]
      chunk == NextChunk(s.fresh)
  IN /\ s.pc = "upsert" /\ s.queue = {} /\ s.fresh # {}
     /\ \E a \in Attempt : \E verdict \in TryVerdicts(a, s.try), order \in InFileOrder(chunk) :
          /\ faults' = faults + IF IsFault(a) THEN 1 ELSE 0
          /\ faults' <= MaxFaults
          /\ remote' = IF a.done
                       THEN [remote EXCEPT ![s.table] = @ \o NewRows(p, files[s.table], order)]
                       ELSE remote
          /\ syncs' = IF verdict = "retry"
                      THEN [syncs EXCEPT ![p].try = @ + 1, ![p].lost = @ \/ a.done]
                      ELSE [syncs EXCEPT ![p].try = 1, ![p].lost = FALSE,
                              ![p].fresh = @ \ chunk]
     /\ UNCHANGED <<files, snapshot, chat>>

\* A table whose requests failed is "synced" all the same.
EndTable(p) ==
  LET s == syncs[p]
  IN /\ s.pc = "upsert" /\ s.queue = {} /\ s.fresh = {}
     /\ syncs' = ReportedTable(p, s.table, "synced")
     /\ UNCHANGED <<files, remote, snapshot, chat, faults>>

\* The end of a call; an import that has pulled a table replaces the
\* snapshot, or leaves it when the file cannot be written.
Finish(p) ==
  LET s == syncs[p]
  IN /\ s.pc = "next" /\ s.todo = {}
     /\ \/ s.pulled # << >> /\ snapshot' = s.pulled
        \/ UNCHANGED snapshot
     /\ syncs' = [syncs EXCEPT ![p].pc = "done", ![p].pulled = << >>,
                     ![p].status = IF s.kind = "sync" THEN "synced" ELSE "imported"]
     /\ UNCHANGED <<files, remote, chat, faults>>

FeishuNext == \E p \in Syncs : Start(p) \/ NextTable(p) \/ ListPage(p) \/ UpdateRecord(p)
                         \/ CreateChunk(p) \/ EndTable(p) \/ Finish(p)

FeishuSpec == FeishuInit /\ [][FeishuNext]_feishuVars

-----------------------------------------------------------------------------
\* What the rows of the five tables are known by.
PrimaryKeys ==
  [daily_metrics |-> "simulated_date", alert_events |-> "event_id",
   strategy_recommendations |-> "recommendation_id", action_tasks |-> "task_id",
   review_retro |-> "review_id"]

HasKey(t, row) == PrimaryKeys[t] \in row.fields

Twice(records, id) ==
  \E i, j \in DOMAIN records : i < j /\ records[i].id = id /\ records[j].id = id

\* Two rows of one key are there only for a reason: the answer to a chunk was
\* lost and the chunk sent again, the file has the key twice, or the call that
\* made the second row could not know of the first, because its list was cut
\* short by the service or ended before the first row was made.
DuplicatesAreExplained ==
  \A t \in DOMAIN remote \cap DefaultTableNames : \A i, j \in DOMAIN remote[t] :
    LET first == remote[t][i]  second == remote[t][j]
    IN (i < j /\ first.id = second.id /\ HasKey(t, first) /\ HasKey(t, second)
        /\ second.by # Nil) =>
         \/ first.by = second.by /\ (second.again \/ Twice(files[t], second.id))
         \/ first.by # second.by /\ LET list == syncs[second.by].lists[t]
                                    IN list.cut \/ i > list.upto

=============================================================================
