----------------------------- MODULE AuditChain -----------------------------
(***************************************************************************)
(* The hash-chained audit log: appendAuditEntry and computeHash of         *)
(* audit.service.ts, the pool clients it holds, and the verifier of        *)
(* scripts/verifyChain.ts.                                                 *)
(*                                                                         *)
(* Appends run concurrently: every caller fires them without awaiting.     *)
(* The transaction is PostgreSQL's default, READ COMMITTED: its SELECT     *)
(* picks the last row committed when the statement starts, and FOR UPDATE  *)
(* then waits for that row's lock.  The row was only locked, never         *)
(* changed, so the waiter goes on with the very row it picked.  An empty   *)
(* table has no row to lock.                                               *)
(*                                                                         *)
(* SHA-256 is taken to be injective: a hash is the sequence of the texts   *)
(* hashed into it, the genesis sentinel the empty one.                     *)
(*                                                                         *)
(* A definition that no other one uses and that stands right before the    *)
(* one it resembles is a plausible mistake in that code.                   *)
(***************************************************************************)
EXTENDS Integers, Sequences, FiniteSets

CONSTANTS Writers,      \* appends that can be under way at one time
          EntryTypes,   \* the event types appended
          Subjects,     \* stands for the values in a payload
          PoolSize,     \* clients of the pg pool
          MaxAppends,   \* bound on appends
          MaxAborts     \* bound on appends that fail or crash

\* The keys of a payload in the order the callers write them.
WrittenKeys ==
    [login            |-> <<"userId">>,
     risk_decision    |-> <<"userId", "ip", "userAgent", "score", "reason">>,
     vote             |-> <<"requestId", "approverId", "decision", "signature">>,
     request_resolved |-> <<"requestId", "status">>]

\* JSONB keeps an object's keys by length, then bytewise.
JsonbKeyOrder == <<"ip", "score", "reason", "status", "userId", "decision",
                   "requestId", "signature", "userAgent", "approverId">>

JsonbKeys(keys) ==
    SelectSeq(JsonbKeyOrder, LAMBDA k : \E i \in 1..Len(keys) : keys[i] = k)

\* JSON.stringify of the payload handed in, and of the payload column read back.
Text(type, subject)       == [keys |-> WrittenKeys[type], subject |-> subject]
StoredText(type, subject) == [keys |-> JsonbKeys(WrittenKeys[type]), subject |-> subject]

Texts == {Text(t, s) : t \in EntryTypes, s \in Subjects}

GENESIS == <<>>

computeHash(prevHash, text) == Append(prevHash, text)

ASSUME AuditAssumption ==
    /\ EntryTypes \subseteq DOMAIN WrittenKeys
    /\ PoolSize \in Nat \ {0} /\ MaxAppends \in Nat /\ MaxAborts \in Nat

VARIABLES
    rows,        \* committed rows of audit_log
    writer,      \* the appends under way
    nextId,      \* the id sequence, which does not roll back
    appends,     \* appends begun so far
    aborts,      \* appends rolled back so far
    overlapped   \* whether two appends were ever under way at once

vars == <<rows, writer, nextId, appends, aborts, overlapped>>

Hashes == Seq(Texts)
Entry  == [id : Nat, type : EntryTypes, subject : Subjects, prev : Hashes, hash : Hashes]

Idle == [pc |-> "idle"]
Busy == [pc : {"connect", "select", "lock", "insert", "commit"}, type : EntryTypes,
         subject : Subjects, target : Nat, prev : Hashes, id : Nat]

HoldsClient(w) == writer[w].pc \notin {"idle", "connect"}
\* The row lock is held from the end of the SELECT to the end of the transaction.
Locks(w, id)   == writer[w].pc \in {"insert", "commit"} /\ writer[w].target = id

Last(E) == CHOOSE e \in E : \A f \in E : f.id <= e.id

Init ==
    /\ rows = {} /\ nextId = 1 /\ appends = 0 /\ aborts = 0
    /\ writer = [w \in Writers |-> Idle]
    /\ overlapped = FALSE

AppendAuditEntry(w, type, subject) ==
    /\ writer[w] = Idle
    /\ appends < MaxAppends
    /\ appends' = appends + 1
    /\ writer' = [writer EXCEPT ![w] =
          [pc |-> "connect", type |-> type, subject |-> subject,
           target |-> 0, prev |-> GENESIS, id |-> 0]]
    /\ overlapped' = (overlapped \/ \E v \in Writers : writer[v] # Idle)
    /\ UNCHANGED <<rows, nextId, aborts>>

\* pool.connect(), then BEGIN, which takes no snapshot yet.
Connect(w) ==
    /\ writer[w].pc = "connect"
    /\ Cardinality({v \in Writers : HoldsClient(v)}) < PoolSize
    /\ writer' = [writer EXCEPT ![w].pc = "select"]
    /\ UNCHANGED <<rows, nextId, appends, aborts, overlapped>>

\* A mistake: rows of transactions still open are seen too.
VisibleUncommitted ==
    rows \cup {[id |-> writer[w].id, type |-> writer[w].type, subject |-> writer[w].subject,
                prev |-> writer[w].prev,
                hash |-> computeHash(writer[w].prev, Text(writer[w].type, writer[w].subject))] :
               w \in {v \in Writers : writer[v].pc = "commit"}}

\* The rows a statement's snapshot holds.
Visible == rows

\* SELECT this_hash ... ORDER BY id DESC LIMIT 1 picks its row,
SelectLast(w) ==
    /\ writer[w].pc = "select"
    /\ writer' = [writer EXCEPT ![w] =
          IF Visible = {} THEN [@ EXCEPT !.pc = "insert"]
          ELSE [@ EXCEPT !.pc = "lock", !.target = Last(Visible).id,
                         !.prev = Last(Visible).hash]]
    /\ UNCHANGED <<rows, nextId, appends, aborts, overlapped>>

\* ... and FOR UPDATE waits until no other transaction has it locked.
LockLast(w) ==
    /\ writer[w].pc = "lock"
    /\ \A v \in Writers : ~Locks(v, writer[w].target)
    /\ writer' = [writer EXCEPT ![w].pc = "insert"]
    /\ UNCHANGED <<rows, nextId, appends, aborts, overlapped>>

InsertEntry(w) ==
    /\ writer[w].pc = "insert"
    /\ writer' = [writer EXCEPT ![w].pc = "commit", ![w].id = nextId]
    /\ nextId' = nextId + 1
    /\ UNCHANGED <<rows, appends, aborts, overlapped>>

\* A mistake: every entry is hashed over the genesis sentinel.
EntryOfUnchained(w) ==
    [id |-> w.id, type |-> w.type, subject |-> w.subject, prev |-> w.prev,
     hash |-> computeHash(GENESIS, Text(w.type, w.subject))]

\* A mistake: the stored link is always the genesis one.
EntryOfUnlinked(w) ==
    [id |-> w.id, type |-> w.type, subject |-> w.subject, prev |-> GENESIS,
     hash |-> computeHash(w.prev, Text(w.type, w.subject))]

EntryOf(w) ==
    [id |-> w.id, type |-> w.type, subject |-> w.subject, prev |-> w.prev,
     hash |-> computeHash(w.prev, Text(w.type, w.subject))]

\* COMMIT, then client.release().
Commit(w) ==
    /\ writer[w].pc = "commit"
    /\ rows' = rows \cup {EntryOf(writer[w])}
    /\ writer' = [writer EXCEPT ![w] = Idle]
    /\ UNCHANGED <<nextId, appends, aborts, overlapped>>

\* A mistake: the finally block is missing, so a failed append keeps its client.
RollbackLeaking(w) ==
    /\ writer[w] # Idle
    /\ aborts < MaxAborts
    /\ aborts' = aborts + 1
    /\ writer' = [writer EXCEPT ![w].pc = "leaked"]
    /\ UNCHANGED <<rows, nextId, appends, overlapped>>

\* Any statement fails, or the process dies: ROLLBACK, release.
Rollback(w) ==
    /\ writer[w] # Idle
    /\ aborts < MaxAborts
    /\ aborts' = aborts + 1
    /\ writer' = [writer EXCEPT ![w] = Idle]
    /\ UNCHANGED <<rows, nextId, appends, overlapped>>

Proceed(w) == Connect(w) \/ SelectLast(w) \/ LockLast(w) \/ InsertEntry(w) \/ Commit(w)

Next ==
    \E w \in Writers :
        \/ \E t \in EntryTypes, s \in Subjects : AppendAuditEntry(w, t, s)
        \/ Proceed(w)
        \/ Rollback(w)

Spec == Init /\ [][Next]_vars

\* The pool serves its queue, PostgreSQL grants a free lock and answers.
FairSpec == Spec /\ \A w \in Writers : WF_vars(Proceed(w))

-----------------------------------------------------------------------------
\* scripts/verifyChain.ts: rows in id order, each stored prev_hash against the hash
\* of the row before it, each this_hash against the one recomputed from the column.

\* A mistake: the link to the row before is taken from the row itself.
PrevHashUnlinked(e) == e.prev

PrevHash(e) ==
    LET before == {f \in rows : f.id < e.id}
    IN  IF before = {} THEN GENESIS ELSE Last(before).hash

LinkBroken(e) == e.prev # PrevHash(e)
HashBroken(e) == e.hash # computeHash(PrevHash(e), StoredText(e.type, e.subject))

\* The rows at which the verifier would stop; it prints "valid" when there is none.
Broken == {e \in rows : LinkBroken(e) \/ HashBroken(e)}

-----------------------------------------------------------------------------
\* Every variable has its type.
TypeOK ==
    /\ rows \subseteq Entry
    /\ writer \in [Writers -> Busy \cup {Idle}]
    /\ nextId \in Nat /\ appends \in Nat /\ aborts \in Nat
    /\ overlapped \in BOOLEAN

\* appendAuditEntry under any concurrency: the committed log is a HashTree.  No
\* entry is lost or rewritten, and none is chained to an entry rolled back.
T == INSTANCE HashTree WITH Genesis <- GENESIS, Texts <- Texts,
        nodes <- {[id |-> e.id, prev |-> e.prev, hash |-> e.hash] : e \in rows}

TreeSpec == T!Spec

\* Appends that never overlap, rollbacks between them included, make one chain in
\* the order of their ids.
LinearWhenSerial == ~overlapped => \A e \in rows : ~LinkBroken(e)

\* The verifier never calls a forked log valid, not even when the two entries of
\* the fork have the same payload and so the same hash.
ForkIsReported ==
    (\E e, f \in rows : e # f /\ e.prev = f.prev) => \E e \in rows : LinkBroken(e)

\* Every append ends: no two wait for each other's lock, and neither a lock nor a
\* client of the pool stays taken.
AppendEnds == \A w \in Writers : writer[w] # Idle ~> writer[w] = Idle

\* audit.service.ts: the transaction is there "to prevent concurrent writers from
\* producing duplicate or broken links".
NoFork == \A e, f \in rows : e.prev = f.prev => e = f

\* The playbook on verifyChain: "running it against a healthy chain prints valid".
HealthyChainVerifies == ~overlapped => Broken = {}
=============================================================================
