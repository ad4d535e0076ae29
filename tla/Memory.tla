------------------------------- MODULE Memory -------------------------------
(***************************************************************************)
(* SQLiteMemory.  Each call hands one statement to a thread and awaits it; *)
(* a caller that is cancelled stops waiting, its thread does not stop.     *)
(* The table outlives the process.                                         *)
(*                                                                         *)
(* A time is a number of seconds, a fraction and the offset of its zone;   *)
(* as the text of a column it is the sequence of its parts, in which "+"   *)
(* comes before ".", as it does among the characters.                      *)
(***************************************************************************)
EXTENDS Integers, FiniteSets, Sequences, SequencesExt, Functions

CONSTANTS
  Requests,  \* calls of store, retrieve and delete
  Records,   \* [id, content, created]: the records that may be stored
  MaxRows,   \* the limits that retrieve is called with are at most this
  MaxOpens   \* a bound on the starts of the process

Times == [second : Int, fraction : Nat, offset : Int]

ASSUME MemoryAssumption ==
  /\ MaxRows \in Nat /\ MaxOpens \in Nat
  /\ Records \subseteq [id : Nat, content : STRING, created : Times]

VARIABLES
  opens,   \* how often the process has started
  isOpen,  \* the SQLiteMemory was made
  table,   \* the rows, by id
  asked,   \* the call of each request, <<>> before it is made
  thread,  \* of each request: none, running, done or failed
  caller,  \* of each request: none, waiting, answered, raised or cancelled
  rows,    \* what each retrieve has read
  before   \* of each request: the requests whose threads had ended when it was made

memoryVars == <<opens, isOpen, table, asked, thread, caller, rows, before>>

MemoryIds == {r.id : r \in Records}
Contents == {r.content : r \in Records}
Operations ==
  [kind : {"store"}, record : Records]
    \cup [kind : {"delete"}, id : MemoryIds]
    \cup [kind : {"retrieve"}, query : Contents, limit : 0..MaxRows]

Instant(time) == <<time.second - time.offset, time.fraction>>

\* Mutant: the time is kept in the zone that it came with.
KeepZone(time) == time

ToUtc(time) == [second |-> time.second - time.offset, fraction |-> time.fraction, offset |-> 0]

\* isoformat leaves out a fraction that is zero.
IsoFormat(time) ==
  IF time.fraction = 0 THEN <<time.second, 0, time.offset>>
  ELSE <<time.second, 1, time.fraction, 0, time.offset>>

TextBefore(s, t) ==
  \E i \in DOMAIN s \cap DOMAIN t : s[i] < t[i] /\ \A j \in 1..(i - 1) : s[j] = t[j]

\* What is written of a record.
Row(record) == [record EXCEPT !.created = ToUtc(record.created)]

\* ORDER BY created_at DESC, memory_id
ReadBefore(r, s) ==
  LET t == IsoFormat(r.created)
      u == IsoFormat(s.created)
  IN TextBefore(u, t) \/ (t = u /\ r.id < s.id)

\* The content contains the query, in whatever case.
Matching(query) == {r \in Range(table) : r.content = query}

\* The rows in the order in which they are read: each is preceded by the rows
\* that come before it.
Sorted(S) ==
  [i \in 1..Cardinality(S) |->
     CHOOSE r \in S : Cardinality({s \in S : ReadBefore(s, r)}) = i - 1]

RetrieveSync(query, limit) ==
  LET found == Sorted(Matching(query))
  IN SubSeq(found, 1, IF Len(found) < limit THEN Len(found) ELSE limit)

\* Mutant: INSERT OR IGNORE.
StoreIgnoring(record) ==
  table' = [id \in DOMAIN table \cup {record.id} |->
              IF id \in DOMAIN table THEN table[id] ELSE Row(record)]

StoreSync(record) ==
  table' = [id \in DOMAIN table \cup {record.id} |->
              IF id = record.id THEN Row(record) ELSE table[id]]

DeleteSync(id) == table' = Restrict(table, DOMAIN table \ {id})

NoRequests ==
  /\ asked = [r \in Requests |-> <<>>]
  /\ thread = [r \in Requests |-> "none"]
  /\ caller = [r \in Requests |-> "none"]
  /\ rows = [r \in Requests |-> <<>>]
  /\ before = [r \in Requests |-> {}]

\* A database that earlier processes have left, of finitely many rows, or none.
MemoryInit ==
  /\ opens = 0
  /\ isOpen = FALSE
  /\ \E ids \in SUBSET MemoryIds :
       /\ IsFiniteSet(ids)
       /\ \E record \in [ids -> Records] :
            /\ \A id \in ids : record[id].id = id
            /\ table = [id \in ids |-> Row(record[id])]
  /\ NoRequests

requests == <<asked, thread, caller, rows, before>>

\* The table is created if it does not exist; or the database cannot be
\* opened, and the constructor raises.
Initialize ==
  /\ ~ isOpen /\ opens < MaxOpens
  /\ opens' = opens + 1
  /\ isOpen' \in BOOLEAN
  /\ UNCHANGED <<table, requests>>

Ask(r) ==
  /\ isOpen /\ caller[r] = "none"
  /\ \E op \in Operations : asked' = [asked EXCEPT ![r] = <<op>>]
  /\ thread' = [thread EXCEPT ![r] = "running"]
  /\ caller' = [caller EXCEPT ![r] = "waiting"]
  /\ before' = [before EXCEPT ![r] = {q \in Requests : thread[q] \in {"done", "failed"}}]
  /\ UNCHANGED <<opens, isOpen, table, rows>>

\* The connection is in autocommit mode, so the statement is all there is.
Runs(r) ==
  /\ thread[r] = "running"
  /\ thread' = [thread EXCEPT ![r] = "done"]
  /\ LET op == asked[r][1] IN
     \/ op.kind = "store" /\ StoreSync(op.record) /\ UNCHANGED rows
     \/ op.kind = "delete" /\ DeleteSync(op.id) /\ UNCHANGED rows
     \/ /\ op.kind = "retrieve"
        /\ rows' = [rows EXCEPT ![r] = RetrieveSync(op.query, op.limit)]
        /\ UNCHANGED table
  /\ UNCHANGED <<opens, isOpen, asked, caller, before>>

\* The metadata cannot be written as JSON, or SQLite raises: the database is
\* locked by another thread, or is none.
RunFails(r) ==
  /\ thread[r] = "running"
  /\ thread' = [thread EXCEPT ![r] = "failed"]
  /\ UNCHANGED <<opens, isOpen, table, asked, caller, rows, before>>

\* store, retrieve and delete return, or raise MemoryBackendError; a failed
\* retrieve is an answer without records.
Answer(r) ==
  /\ caller[r] = "waiting" /\ thread[r] \in {"done", "failed"}
  /\ caller' = [caller EXCEPT ![r] =
       IF thread[r] = "done" \/ asked[r][1].kind = "retrieve" THEN "answered" ELSE "raised"]
  /\ UNCHANGED <<opens, isOpen, table, asked, thread, rows, before>>

CancelCaller(r) ==
  /\ caller[r] = "waiting"
  /\ caller' = [caller EXCEPT ![r] = "cancelled"]
  /\ UNCHANGED <<opens, isOpen, table, asked, thread, rows, before>>

\* The process is killed; what a thread has not written it never writes.
Kill ==
  /\ isOpen
  /\ isOpen' = FALSE
  /\ thread' = [r \in Requests |-> IF thread[r] = "running" THEN "failed" ELSE thread[r]]
  /\ caller' = [r \in Requests |-> IF caller[r] = "waiting" THEN "cancelled" ELSE caller[r]]
  /\ UNCHANGED <<opens, table, asked, rows, before>>

MemoryNext ==
  \/ Initialize \/ Kill
  \/ \E r \in Requests : Ask(r) \/ Runs(r) \/ RunFails(r) \/ Answer(r) \/ CancelCaller(r)

MemorySpec == MemoryInit /\ [][MemoryNext]_memoryVars

(***************************************************************************)
(* Properties.                                                             *)
(***************************************************************************)
Writes(r, id) ==
  asked[r] # <<>> /\ \/ asked[r][1].kind = "store" /\ asked[r][1].record.id = id
                     \/ asked[r][1].kind = "delete" /\ asked[r][1].id = id

Left(r, id) ==
  IF asked[r][1].kind = "delete" THEN id \notin DOMAIN table
  ELSE id \in DOMAIN table /\ table[id].content = asked[r][1].record.content
         /\ Instant(table[id].created) = Instant(asked[r][1].record.created)

\* What a caller was told is written is there, also after the process was
\* killed, until a thread writes the same record that had not ended when
\* the caller asked: the thread of a later call, or of one that overlaps,
\* its caller cancelled or not.
AnsweredWritesLast ==
  \A r \in Requests, id \in MemoryIds :
    Writes(r, id) /\ caller[r] = "answered" =>
      \/ Left(r, id)
      \/ \E q \in Requests \ (before[r] \cup {r}) : Writes(q, id) /\ thread[q] = "done"

Later(s, t) == s[1] > t[1] \/ (s[1] = t[1] /\ s[2] > t[2])

\* The records that retrieve reads are the newest, newest first, in whatever
\* zones their times were given and whether these have a fraction or not:
\* the order of the texts in the column is the order of the times.
NewestAreRead ==
  [][\A r \in Requests :
       thread'[r] = "done" /\ thread[r] # "done" /\ asked[r][1].kind = "retrieve" =>
         LET read == rows'[r]
             time == [i \in DOMAIN read |-> Instant(read[i].created)]
             rest == Matching(asked[r][1].query) \ Range(read)
         IN /\ \A i, j \in DOMAIN read : i < j => ~ Later(time[j], time[i])
            /\ \A s \in rest : /\ Len(read) = asked[r][1].limit
                               /\ \A i \in DOMAIN read : ~ Later(Instant(s.created), time[i])
    ]_memoryVars
=============================================================================
