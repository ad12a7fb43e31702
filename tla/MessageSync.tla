---------------------------- MODULE MessageSync ----------------------------
(***************************************************************************)
(* The message table as its readers and its requesters see it: request     *)
(* identities, the revisions every change of a row gets, conversations     *)
(* (threads) kept by a trigger, deletion, the purge of old tombstones, and *)
(* the mirrors that clients keep by paging through the revisions.          *)
(*                                                                         *)
(* Every transaction takes its revisions from one sequence before it       *)
(* commits.  What makes a cursor safe is that the trigger holds an         *)
(* advisory lock until the commit, so revisions become visible in order.   *)
(* Ages (7 days until a tombstone is purged, 7 days until its identity is  *)
(* forgotten) are left out: either may happen at any time.  The limit of   *)
(* ten messages a minute only refuses and is left out too.                 *)
(***************************************************************************)
EXTENDS Naturals, FiniteSets, Sequences, SequencesExt, FiniteSetsExt

CONSTANTS None,         \* no row, no identity, no answer
          Ids,          \* request ids, which are the message ids
          Hashes,       \* digests of the request contents
          Peers,        \* conversations
          PeerOf(_),    \* the conversation a message belongs to
          Writers,      \* concurrent database sessions
          Mirrors,      \* the clients: a subset of {"messages", "threads"}
          QueueLimit,   \* unfinished outgoing messages allowed at once
          PageSize,     \* rows of one page
          MaxRevision   \* bound of the revision sequence

VARIABLES rows,      \* messages: the committed rows
          threads,   \* message_threads: the committed rows
          seq,       \* message_revision_seq: the last value handed out
          floor,     \* message_sync_state: the highest purged revision
          kept,      \* message_requests: identities of purged messages
          open,      \* each session's unfinished transaction
          mirror,    \* each client's cursor, snapshot and copy
          inserted,  \* how often an identity was executed while it is known
          overrun    \* a purge passed the cursor of a client inside a round

vars == <<rows, threads, seq, floor, kept, open, mirror, inserted, overrun>>

Idle == [step |-> "idle"]
Active == {"queued", "sending"}
Outbox == {i \in Ids : rows[i] # None /\ ~rows[i].deleted /\ rows[i].state \in Active}

\* A client without a copy reads from revision 0.
Empty == [after |-> 0, snapshot |-> 0, baseline |-> TRUE,
          copy |-> [x \in Ids \union Peers |-> 0]]

Init ==
  /\ rows = [i \in Ids |-> None] /\ threads = [p \in Peers |-> None]
  /\ seq = 0 /\ floor = 0 /\ kept = [i \in Ids |-> None]
  /\ open = [w \in Writers |-> Idle] /\ mirror = [c \in Mirrors |-> Empty]
  /\ inserted = [i \in Ids |-> 0] /\ overrun = FALSE

-----------------------------------------------------------------------------
(* Transactions *)

\* pg_advisory_xact_lock(-734901): from the first revision until the commit.
NoRevisionLock == TRUE
RevisionLock == \A w \in Writers : open[w].step # "written"

\* pg_advisory_xact_lock(-734902): one enqueue transaction at a time.
EnqueueLock == \A w \in Writers : ~(open[w].step = "written" /\ open[w].enqueue)

\* A row another transaction has changed is locked until it ends.
RowsFree(ids) ==
  \A w \in Writers : open[w].step = "written" => ids \intersect DOMAIN open[w].rows = {}

\* The newest visible message of a conversation after the changes.
Latest(new, p) ==
  LET now == [i \in Ids |-> IF i \in DOMAIN new THEN new[i] ELSE rows[i]]
      live == {i \in Ids : PeerOf(i) = p /\ now[i] # None /\ ~now[i].deleted}
  IN  IF live = {} THEN None
      ELSE CHOOSE i \in live : \A j \in live : now[j].at =< now[i].at

message_thread_update(new) ==
  [p \in {PeerOf(i) : i \in DOMAIN new} |->
     [last |-> Latest(new, p),
      rev  |-> Max({new[i].rev : i \in {j \in DOMAIN new : PeerOf(j) = p}})]]

\* The trigger gives each changed row the next revision, in the order given.
Written(w, order, changed, enqueue) ==
  LET new == [i \in Range(order) |->
                [changed[i] EXCEPT !.rev = seq + (CHOOSE n \in DOMAIN order : order[n] = i)]]
  IN  /\ RevisionLock /\ RowsFree(Range(order))
      /\ seq + Len(order) =< MaxRevision
      /\ seq' = seq + Len(order)
      /\ open' = [open EXCEPT ![w] = [step |-> "written", rows |-> new,
                    threads |-> message_thread_update(new), enqueue |-> enqueue]]

Commit(w) ==
  /\ open[w].step = "written"
  /\ rows' = [i \in Ids |-> IF i \in DOMAIN open[w].rows THEN open[w].rows[i] ELSE rows[i]]
  /\ threads' = [p \in Peers |-> IF p \in DOMAIN open[w].threads
                                 THEN open[w].threads[p] ELSE threads[p]]
  /\ inserted' = IF open[w].enqueue
                 THEN [i \in Ids |-> inserted[i] + IF i \in DOMAIN open[w].rows THEN 1 ELSE 0]
                 ELSE inserted
  /\ open' = [open EXCEPT ![w] = Idle]
  /\ UNCHANGED <<seq, floor, kept, mirror, overrun>>

\* The revisions of a transaction that rolls back are never seen.
Rollback(w) ==
  /\ open[w].step = "written"
  /\ open' = [open EXCEPT ![w] = Idle]
  /\ UNCHANGED <<rows, threads, seq, floor, kept, mirror, inserted, overrun>>

-----------------------------------------------------------------------------
(* Enqueueing: the identity is looked up before and inside the transaction *)

\* None when the request is new; otherwise the answer it gets.
previousMessage(i, h) ==
  IF rows[i] # None THEN IF rows[i].hash = h THEN "the same message" ELSE "REQUEST_CONFLICT"
  ELSE IF kept[i] = None THEN None
  ELSE IF kept[i] = h THEN "REQUEST_EXPIRED" ELSE "REQUEST_CONFLICT"

Request(w, i, h) ==
  /\ open[w] = Idle
  /\ previousMessage(i, h) = None
  /\ open' = [open EXCEPT ![w] = [step |-> "checked", id |-> i, hash |-> h]]
  /\ UNCHANGED <<rows, threads, seq, floor, kept, mirror, inserted, overrun>>

\* Found after all, or the queue is full: answered without a row.
Refuse(w) ==
  /\ open[w].step = "checked" /\ EnqueueLock
  /\ \/ previousMessage(open[w].id, open[w].hash) # None
     \/ Cardinality(Outbox) >= QueueLimit
  /\ open' = [open EXCEPT ![w] = Idle]
  /\ UNCHANGED <<rows, threads, seq, floor, kept, mirror, inserted, overrun>>

enqueueMessage(w) ==
  LET i == open[w].id
      new == [hash |-> open[w].hash, state |-> "queued", deleted |-> FALSE, rev |-> 0, at |-> seq]
  IN  /\ open[w].step = "checked" /\ EnqueueLock
      /\ previousMessage(i, open[w].hash) = None
      /\ Cardinality(Outbox) < QueueLimit
      /\ Written(w, <<i>>, i :> new, TRUE)
      /\ UNCHANGED <<rows, threads, floor, kept, mirror, inserted, overrun>>

-----------------------------------------------------------------------------
(* The other changes of a row *)

\* A dispatcher claims the message or records its outcome.
Progress(w, i) ==
  LET to == IF rows[i].state = "queued" THEN "sending" ELSE "done"
  IN  /\ open[w] = Idle /\ rows[i] # None
      /\ \/ rows[i].state = "queued" /\ ~rows[i].deleted
         \/ rows[i].state = "sending"
      /\ Written(w, <<i>>, i :> [rows[i] EXCEPT !.state = to], FALSE)
      /\ UNCHANGED <<rows, threads, floor, kept, mirror, inserted, overrun>>

\* A conversation is deleted as it is when the revision lock is granted.
deleteMessageThreads(w, p) ==
  LET doomed == {i \in Ids : PeerOf(i) = p /\ rows[i] # None /\ ~rows[i].deleted}
      order == SetToSortSeq(doomed, LAMBDA i, j : rows[i].rev < rows[j].rev)
      gone == [i \in doomed |-> [rows[i] EXCEPT !.deleted = TRUE,
                                                !.state = IF @ = "queued" THEN "done" ELSE @]]
  IN  /\ open[w] = Idle /\ doomed # {}
      /\ Written(w, order, gone, FALSE)
      /\ UNCHANGED <<rows, threads, floor, kept, mirror, inserted, overrun>>

-----------------------------------------------------------------------------
(* Retention *)

\* A client in the middle of an incremental round has not yet been told of
\* the tombstone.
Overruns(i) ==
  \E c \in Mirrors : /\ mirror[c].snapshot > 0 /\ ~mirror[c].baseline
                     /\ mirror[c].after < rows[i].rev

KeepsIdentity(i) == [kept EXCEPT ![i] = rows[i].hash]
RaisesFloor(rev) == Max({floor, rev})

\* Rows another transaction works on are skipped; the identity and the floor
\* change with the deletion.
cleanRecordsBatch(i) ==
  /\ rows[i] # None /\ rows[i].deleted /\ rows[i].state = "done" /\ RowsFree({i})
  /\ rows' = [rows EXCEPT ![i] = None]
  /\ kept' = KeepsIdentity(i)
  /\ floor' = RaisesFloor(rows[i].rev)
  /\ overrun' = (overrun \/ Overruns(i))
  /\ UNCHANGED <<threads, seq, open, mirror, inserted>>

\* Seven days later the identity may be used again.
ForgetRequest(i) ==
  /\ kept[i] # None
  /\ \A w \in Writers : open[w].step = "checked" => open[w].id # i
  /\ kept' = [kept EXCEPT ![i] = None]
  /\ inserted' = [inserted EXCEPT ![i] = 0]
  /\ UNCHANGED <<rows, threads, seq, floor, open, mirror, overrun>>

PurgeThread(p) ==
  /\ threads[p] # None /\ threads[p].last = None /\ threads[p].rev < floor
  /\ \A w \in Writers : open[w].step = "written" => p \notin DOMAIN open[w].threads
  /\ threads' = [threads EXCEPT ![p] = None]
  /\ UNCHANGED <<rows, seq, floor, kept, open, mirror, inserted, overrun>>

-----------------------------------------------------------------------------
(* Synchronisation: one committed snapshot per page *)

head ==
  Max({floor} \union {rows[i].rev : i \in {j \in Ids : rows[j] # None}}
                \union {threads[p].rev : p \in {q \in Peers : threads[q] # None}})

CursorExpired(m) ==
  \/ m.snapshot > 0 /\ m.snapshot < floor
  \/ m.snapshot = 0 /\ m.after > 0 /\ m.after < floor

\* What a client lists, and what it keeps of an item: 0 when it is gone.
Listed(c) == IF c = "threads" THEN {p \in Peers : threads[p] # None}
                              ELSE {i \in Ids : rows[i] # None}
RevisionOf(c, x) == IF c = "threads" THEN threads[x].rev ELSE rows[x].rev
Gone(c, x) == IF c = "threads" THEN threads[x].last = None ELSE rows[x].deleted
Shown(c, x) == IF Gone(c, x) THEN 0 ELSE RevisionOf(c, x)

\* The client starts over from an empty mirror.
StartOver(c) ==
  /\ CursorExpired(mirror[c])
  /\ mirror' = [mirror EXCEPT ![c] = Empty]
  /\ UNCHANGED <<rows, threads, seq, floor, kept, open, inserted, overrun>>

cursor(last, more, snapshot) == IF more THEN last ELSE snapshot

Fetch(c) ==
  LET m == mirror[c]
      snapshot == IF m.snapshot = 0 THEN head ELSE m.snapshot
      due == {x \in Listed(c) : RevisionOf(c, x) > m.after /\ RevisionOf(c, x) =< snapshot}
      list == SetToSortSeq(due, LAMBDA x, y : RevisionOf(c, x) < RevisionOf(c, y))
      more == Len(list) > PageSize
      items == IF more THEN SubSeq(list, 1, PageSize) ELSE list
      last == IF items = <<>> THEN m.after ELSE RevisionOf(c, items[Len(items)])
  IN  /\ ~CursorExpired(m)
      /\ m.after < head
      /\ mirror' = [mirror EXCEPT ![c] =
            [after |-> cursor(last, more, snapshot),
             snapshot |-> IF more THEN snapshot ELSE 0,
             baseline |-> more /\ m.baseline,
             copy |-> [x \in DOMAIN m.copy |->
                         IF x \in Range(items) THEN Shown(c, x) ELSE m.copy[x]]]]
      /\ UNCHANGED <<rows, threads, seq, floor, kept, open, inserted, overrun>>

Next ==
  \/ \E w \in Writers : Commit(w) \/ Rollback(w) \/ Refuse(w) \/ enqueueMessage(w)
  \/ \E w \in Writers, i \in Ids : Progress(w, i)
  \/ \E w \in Writers, i \in Ids, h \in Hashes : Request(w, i, h)
  \/ \E w \in Writers, p \in Peers : deleteMessageThreads(w, p)
  \/ \E i \in Ids : cleanRecordsBatch(i) \/ ForgetRequest(i)
  \/ \E p \in Peers : PurgeThread(p)
  \/ \E c \in Mirrors : StartOver(c) \/ Fetch(c)

Spec == Init /\ [][Next]_vars

-----------------------------------------------------------------------------
(* Properties *)

Row == [hash : Hashes, state : {"queued", "sending", "done"}, deleted : BOOLEAN,
        rev : 1..MaxRevision, at : 0..MaxRevision]
Thread == [last : Ids \union {None}, rev : 1..MaxRevision]

TypeOK ==
  /\ rows \in [Ids -> Row \union {None}]
  /\ threads \in [Peers -> Thread \union {None}]
  /\ seq \in 0..MaxRevision /\ floor \in 0..MaxRevision
  /\ kept \in [Ids -> Hashes \union {None}]
  /\ \A c \in Mirrors : /\ mirror[c].after \in 0..MaxRevision
                        /\ mirror[c].snapshot \in 0..MaxRevision
                        /\ mirror[c].copy \in [Ids \union Peers -> 0..MaxRevision]
  /\ inserted \in [Ids -> Nat] /\ overrun \in BOOLEAN

\* No change is missed: whatever the table holds at or below a client's cursor,
\* the client has in that very revision, or has removed if it is deleted; and
\* the server never forgets so much that an honest cursor lies beyond its head.
NothingMissed ==
  \A c \in Mirrors :
    /\ mirror[c].after =< head /\ mirror[c].snapshot =< head
    /\ \A x \in Listed(c) : RevisionOf(c, x) =< mirror[c].after => mirror[c].copy[x] = Shown(c, x)

Ghostless(c) ==
  mirror[c].snapshot = 0 /\ ~CursorExpired(mirror[c])
    => \A x \in DOMAIN mirror[c].copy : mirror[c].copy[x] # 0 => x \in Listed(c)

\* A client whose round has ended and whose cursor has not expired shows nothing
\* that the server has purged, unless a purge ran inside an incremental round.
Mirrored == TypeOK /\ NothingMissed /\ (overrun \/ \A c \in Mirrors : Ghostless(c))

\* "purged tombstones require a fresh baseline": nothing purged is ever shown by
\* a client whose cursor the server still accepts.
NoGhosts == \A c \in Mirrors : Ghostless(c)

\* A request is executed once while its identity is known, whoever repeats it,
\* and concurrent requests never fill the queue beyond its limit.
EnqueuedOnce ==
  /\ \A i \in Ids : inserted[i] =< 1
  /\ Cardinality(Outbox) =< QueueLimit
=============================================================================
