-------------------------- MODULE AuditChainProofs --------------------------
(***************************************************************************)
(* Theorems about AuditChain for every number of concurrent writers and    *)
(* every size of the pool.                                                 *)
(***************************************************************************)
EXTENDS AuditChain, WellFoundedInduction, TLAPS

\* Ids come from a sequence: rows have different ids, smaller than the next one, and
\* one of the rows has the largest.
IdInv ==
    /\ \A e \in rows : e.id < nextId
    /\ \A e, f \in rows : e.id = f.id => e = f
    /\ rows # {} => \E e \in rows : \A f \in rows : f.id <= e.id

\* An id drawn by a transaction still open is nobody else's.
OpenIdInv ==
    \A w \in Writers : writer[w].pc = "commit" =>
        /\ writer[w].id < nextId
        /\ \A e \in rows : e.id # writer[w].id
        /\ \A v \in Writers : writer[v].pc = "commit" /\ writer[v].id = writer[w].id => v = w

\* The hash an append goes on from is the genesis one or that of a committed row, of
\* an id smaller than the one the append has or will get.
ParentInv ==
    \A w \in Writers : writer[w] # Idle /\ writer[w].prev # GENESIS =>
        \E e \in rows : /\ e.hash = writer[w].prev
                        /\ writer[w].pc = "commit" => e.id < writer[w].id

IInv == TypeOK /\ IdInv /\ OpenIdInv /\ ParentInv

-----------------------------------------------------------------------------
\* The log is empty and nobody writes at first.
LEMMA InitInv == Init => IInv
  <1> SUFFICES ASSUME Init PROVE IInv
    OBVIOUS
  <1>1. \A w \in Writers : writer[w] = Idle /\ writer[w].pc # "commit"
    BY DEF Init, Idle
  <1>2. TypeOK
    BY DEF Init, TypeOK
  <1>3. IdInv /\ OpenIdInv /\ ParentInv
    BY <1>1 DEF Init, IdInv, OpenIdInv, ParentInv
  <1> QED BY <1>2, <1>3 DEF IInv

\* An append under way has its fields.
LEMMA OpenWriter ==
    ASSUME TypeOK, NEW w \in Writers, writer[w] # Idle
    PROVE  /\ writer[w] \in Busy
           /\ writer[w].type \in EntryTypes /\ writer[w].subject \in Subjects
           /\ writer[w].prev \in Hashes /\ writer[w].id \in Nat
           /\ writer[w].target \in Nat
  BY DEF TypeOK, Busy

\* A writer between two statements is not idle.
LEMMA NotIdle ==
    ASSUME NEW w \in Writers,
           writer[w].pc \in {"connect", "select", "lock", "insert", "commit"}
    PROVE  writer[w] # Idle
  BY DEF Idle

\* When the log has rows, the one SELECT ... ORDER BY id DESC LIMIT 1 picks is there.
LEMMA LastRow ==
    ASSUME IInv, rows # {}
    PROVE  /\ Last(rows) \in rows /\ Last(rows) \in Entry
           /\ \A f \in rows : f.id <= Last(rows).id
  BY DEF Last, IInv, IdInv, TypeOK

\* A step that leaves the log alone and replaces one writer by one that has not drawn
\* an id keeps the invariant.
LEMMA WriterStep ==
    ASSUME IInv, UNCHANGED rows, NEW w \in Writers, NEW new \in Busy \cup {Idle},
           writer' = [writer EXCEPT ![w] = new], new.pc # "commit",
           new # Idle /\ new.prev # GENESIS => \E e \in rows : e.hash = new.prev,
           UNCHANGED nextId, appends' \in Nat, aborts' \in Nat, overlapped' \in BOOLEAN
    PROVE  IInv'
  <1>1. /\ writer' \in [Writers -> Busy \cup {Idle}] /\ writer'[w] = new
        /\ \A v \in Writers : v # w => writer'[v] = writer[v]
    BY DEF IInv, TypeOK
  <1>2. TypeOK'
    BY <1>1 DEF IInv, TypeOK
  <1>3. IdInv'
    BY DEF IInv, IdInv
  <1>4. OpenIdInv'
    BY <1>1 DEF IInv, OpenIdInv
  <1>5. ParentInv'
    BY <1>1 DEF IInv, ParentInv
  <1> QED BY <1>2, <1>3, <1>4, <1>5 DEF IInv

\* The beginning of an append.
LEMMA AppendStep ==
    ASSUME IInv, NEW w \in Writers, NEW t \in EntryTypes, NEW s \in Subjects,
           AppendAuditEntry(w, t, s)
    PROVE  IInv'
  <1>1. PICK new : new = [pc |-> "connect", type |-> t, subject |-> s,
                          target |-> 0, prev |-> GENESIS, id |-> 0]
    OBVIOUS
  <1>2. GENESIS \in Hashes
    BY DEF GENESIS, Hashes
  <1>3. new \in Busy /\ new.pc # "commit" /\ new.prev = GENESIS
    BY <1>1, <1>2 DEF Busy
  <1>4. /\ writer' = [writer EXCEPT ![w] = new] /\ UNCHANGED <<rows, nextId>>
        /\ appends' \in Nat /\ aborts' \in Nat /\ overlapped' \in BOOLEAN
    BY <1>1 DEF AppendAuditEntry, IInv, TypeOK
  <1> QED BY <1>3, <1>4, WriterStep

\* Connecting, and being granted the row lock.
LEMMA WaitStep ==
    ASSUME IInv, NEW w \in Writers, Connect(w) \/ LockLast(w)
    PROVE  IInv'
  <1>1. PICK pc \in {"select", "insert"} : writer' = [writer EXCEPT ![w].pc = pc]
    BY DEF Connect, LockLast
  <1>2. writer[w] # Idle
    BY NotIdle DEF Connect, LockLast
  <1>3. PICK new : new = [writer[w] EXCEPT !.pc = pc]
    OBVIOUS
  <1>4. new \in Busy /\ new.pc = pc /\ new.prev = writer[w].prev
    BY <1>2, <1>3, OpenWriter DEF IInv, Busy
  <1>5. new.prev # GENESIS => \E e \in rows : e.hash = new.prev
    BY <1>2, <1>4 DEF IInv, ParentInv
  <1>6. /\ writer' = [writer EXCEPT ![w] = new] /\ UNCHANGED <<rows, nextId>>
        /\ appends' \in Nat /\ aborts' \in Nat /\ overlapped' \in BOOLEAN
    BY <1>1, <1>3 DEF Connect, LockLast, IInv, TypeOK
  <1> QED BY <1>4, <1>5, <1>6, WriterStep

\* The SELECT: the hash picked is a committed row's.
LEMMA SelectStep ==
    ASSUME IInv, NEW w \in Writers, SelectLast(w)
    PROVE  IInv'
  <1>1. writer[w] # Idle /\ writer[w] \in Busy
    BY NotIdle, OpenWriter DEF SelectLast, IInv
  <1>2. /\ UNCHANGED <<rows, nextId>>
        /\ appends' \in Nat /\ aborts' \in Nat /\ overlapped' \in BOOLEAN
    BY DEF SelectLast, IInv, TypeOK
  <1>3. CASE rows = {}
    <2>1. PICK new : new = [writer[w] EXCEPT !.pc = "insert"]
      OBVIOUS
    <2>2. new \in Busy /\ new.pc = "insert" /\ new.prev = writer[w].prev
      BY <1>1, <2>1 DEF Busy
    <2>3. new.prev # GENESIS => \E e \in rows : e.hash = new.prev
      BY <1>1, <2>2 DEF IInv, ParentInv
    <2>4. writer' = [writer EXCEPT ![w] = new]
      BY <1>3, <2>1 DEF SelectLast, Visible
    <2> QED BY <1>2, <2>2, <2>3, <2>4, WriterStep
  <1>4. CASE rows # {}
    <2>1. PICK last \in rows : last = Last(rows) /\ last \in Entry
      BY <1>4, LastRow
    <2>2. last.id \in Nat /\ last.hash \in Hashes
      BY <2>1 DEF Entry
    <2>3. PICK new : new = [writer[w] EXCEPT !.pc = "lock", !.target = last.id,
                                            !.prev = last.hash]
      OBVIOUS
    <2>4. new \in Busy /\ new.pc = "lock" /\ new.prev = last.hash
      BY <1>1, <2>2, <2>3 DEF Busy
    <2>5. writer' = [writer EXCEPT ![w] = new]
      BY <1>4, <2>1, <2>3 DEF SelectLast, Visible
    <2> QED BY <1>2, <2>4, <2>5, WriterStep
  <1> QED BY <1>3, <1>4

\* The INSERT draws a fresh id.
LEMMA InsertStep ==
    ASSUME IInv, NEW w \in Writers, InsertEntry(w)
    PROVE  IInv'
  <1>1. writer[w] # Idle /\ writer[w] \in Busy
    BY NotIdle, OpenWriter DEF InsertEntry, IInv
  <1>2. PICK new : new = [[writer[w] EXCEPT !.pc = "commit"] EXCEPT !.id = nextId]
    OBVIOUS
  <1>3. /\ new \in Busy /\ new.pc = "commit" /\ new.id = nextId
        /\ new.prev = writer[w].prev
    BY <1>1, <1>2 DEF Busy, IInv, TypeOK
  <1>4. /\ writer' = [writer EXCEPT ![w] = new] /\ nextId' = nextId + 1
        /\ UNCHANGED <<rows, appends, aborts, overlapped>>
    BY <1>2 DEF InsertEntry, IInv, TypeOK
  <1>5. /\ writer' \in [Writers -> Busy \cup {Idle}] /\ writer'[w] = new
        /\ \A v \in Writers : v # w => writer'[v] = writer[v]
    BY <1>3, <1>4 DEF IInv, TypeOK
  <1>6. TypeOK'
    BY <1>4, <1>5 DEF IInv, TypeOK
  <1>7. \A e \in rows : e.id \in Nat /\ e.id < nextId /\ nextId \in Nat
    BY DEF IInv, TypeOK, Entry, IdInv
  <1>8. IdInv'
    BY <1>4, <1>7 DEF IInv, IdInv
  <1>9. OpenIdInv'
    <2>1. nextId \in Nat
      BY DEF IInv, TypeOK
    <2>2. \A v \in Writers : writer[v].pc = "commit" => writer[v].id \in Nat
      BY NotIdle, OpenWriter DEF IInv
    <2>3. ASSUME NEW v \in Writers, writer'[v].pc = "commit"
          PROVE  /\ writer'[v].id < nextId'
                 /\ \A e \in rows' : e.id # writer'[v].id
                 /\ \A u \in Writers :
                      writer'[u].pc = "commit" /\ writer'[u].id = writer'[v].id => u = v
      <3>1. CASE v = w
        BY <1>3, <1>4, <1>5, <1>7, <2>1, <2>2, <3>1 DEF IInv, OpenIdInv
      <3>2. CASE v # w
        BY <1>3, <1>4, <1>5, <2>1, <2>2, <2>3, <3>2 DEF IInv, OpenIdInv
      <3> QED BY <3>1, <3>2
    <2> QED BY <2>3 DEF OpenIdInv
  <1>10. ParentInv'
    <2>1. new.prev # GENESIS => \E e \in rows : e.hash = new.prev /\ e.id < new.id
      BY <1>1, <1>3, <1>7 DEF IInv, ParentInv
    <2> QED BY <1>4, <1>5, <2>1 DEF IInv, ParentInv
  <1> QED BY <1>6, <1>8, <1>9, <1>10 DEF IInv

\* The entry committed has its type, and is hashed over its text.
LEMMA EntryType ==
    ASSUME TypeOK, NEW w \in Writers, writer[w] # Idle
    PROVE  /\ EntryOf(writer[w]) \in Entry
           /\ \E t \in Texts : EntryOf(writer[w]).hash = Append(EntryOf(writer[w]).prev, t)
           /\ EntryOf(writer[w]).id = writer[w].id
           /\ EntryOf(writer[w]).prev = writer[w].prev
  <1>1. /\ writer[w].type \in EntryTypes /\ writer[w].subject \in Subjects
        /\ writer[w].prev \in Seq(Texts) /\ writer[w].id \in Nat
    BY OpenWriter DEF Hashes
  <1>2. PICK t \in Texts : t = Text(writer[w].type, writer[w].subject)
    BY <1>1 DEF Texts
  <1>3. Append(writer[w].prev, t) \in Seq(Texts)
    BY <1>1
  <1> QED BY <1>1, <1>2, <1>3 DEF EntryOf, Entry, Hashes, computeHash

\* The COMMIT.
LEMMA CommitStep ==
    ASSUME IInv, NEW w \in Writers, Commit(w)
    PROVE  IInv'
  <1>1. writer[w].pc = "commit" /\ writer[w] # Idle
    BY NotIdle DEF Commit
  <1>2. PICK entry \in Entry :
            entry = EntryOf(writer[w]) /\ entry.id = writer[w].id
    BY <1>1, EntryType DEF IInv
  <1>3. /\ rows' = rows \cup {entry} /\ writer' = [writer EXCEPT ![w] = Idle]
        /\ UNCHANGED <<nextId, appends, aborts, overlapped>>
    BY <1>2 DEF Commit
  <1>4. /\ writer' \in [Writers -> Busy \cup {Idle}] /\ writer'[w] = Idle
        /\ \A v \in Writers : v # w => writer'[v] = writer[v]
    BY <1>3 DEF IInv, TypeOK
  <1>5. TypeOK'
    BY <1>3, <1>4 DEF IInv, TypeOK
  <1>6. entry.id < nextId /\ \A e \in rows : e.id # entry.id
    BY <1>1, <1>2 DEF IInv, OpenIdInv
  <1>7. IdInv'
    <2>1. \A e \in rows' : e.id < nextId'
      BY <1>3, <1>6 DEF IInv, IdInv
    <2>2. \A e, f \in rows' : e.id = f.id => e = f
      BY <1>3, <1>6 DEF IInv, IdInv
    <2>3. \E e \in rows' : \A f \in rows' : f.id <= e.id
      <3>1. \A e \in rows' : e.id \in Nat
        BY <1>5 DEF TypeOK, Entry
      <3>2. CASE rows = {}
        BY <1>3, <3>1, <3>2
      <3>3. CASE rows # {}
        <4>1. PICK e \in rows : \A f \in rows : f.id <= e.id
          BY <3>3 DEF IInv, IdInv
        <4>2. CASE entry.id <= e.id
          BY <1>3, <4>1, <4>2
        <4>3. CASE ~(entry.id <= e.id)
          <5>1. \A f \in rows : f.id <= entry.id
            BY <1>3, <3>1, <4>1, <4>3
          <5> QED BY <1>3, <3>1, <5>1
        <4> QED BY <4>2, <4>3
      <3> QED BY <3>2, <3>3
    <2> QED BY <2>1, <2>2, <2>3 DEF IdInv
  <1>8. OpenIdInv'
    <2>1. ASSUME NEW v \in Writers, writer'[v].pc = "commit"
          PROVE  v # w /\ writer[v].pc = "commit" /\ writer'[v] = writer[v]
      BY <1>4, <2>1 DEF Idle
    <2>2. \A v \in Writers : writer[v].pc = "commit" /\ v # w => writer[v].id # entry.id
      BY <1>1, <1>2 DEF IInv, OpenIdInv
    <2> QED BY <1>3, <2>1, <2>2 DEF IInv, OpenIdInv
  <1>9. ParentInv'
    BY <1>3, <1>4 DEF IInv, ParentInv
  <1> QED BY <1>5, <1>7, <1>8, <1>9 DEF IInv

\* The ROLLBACK.
LEMMA RollbackStep ==
    ASSUME IInv, NEW w \in Writers, Rollback(w)
    PROVE  IInv'
  <1>1. /\ writer' = [writer EXCEPT ![w] = Idle] /\ UNCHANGED <<rows, nextId>>
        /\ appends' \in Nat /\ aborts' \in Nat /\ overlapped' \in BOOLEAN
    BY DEF Rollback, IInv, TypeOK
  <1>2. Idle.pc # "commit"
    BY DEF Idle
  <1> QED BY <1>1, <1>2, WriterStep

\* The invariant is inductive.
LEMMA NextInv == IInv /\ [Next]_vars => IInv'
  <1> SUFFICES ASSUME IInv, [Next]_vars PROVE IInv'
    OBVIOUS
  <1>1. CASE UNCHANGED vars
    BY <1>1 DEF vars, IInv, TypeOK, IdInv, OpenIdInv, ParentInv
  <1> QED BY <1>1, AppendStep, WaitStep, SelectStep, InsertStep, CommitStep, RollbackStep
      DEF Next, Proceed

\* The invariant holds throughout.
LEMMA InvHolds == Spec => []IInv
  BY InitInv, NextInv, PTL DEF Spec

\* Every variable keeps its type.
THEOREM TypeCorrect == Spec => []TypeOK
  <1>1. IInv => TypeOK
    BY DEF IInv
  <1> QED BY <1>1, InvHolds, PTL

-----------------------------------------------------------------------------
\* The log as HashTree sees it.
Node(e) == [id |-> e.id, prev |-> e.prev, hash |-> e.hash]

Nodes == {Node(e) : e \in rows}

\* A COMMIT grows the tree by one node, under a node that is there.
LEMMA CommitGrows ==
    ASSUME IInv, NEW w \in Writers, Commit(w)
    PROVE  \E n \in Nodes' \ Nodes :
              /\ Nodes' = Nodes \cup {n}
              /\ \A m \in Nodes : m.id # n.id
              /\ n.prev = GENESIS \/ \E m \in Nodes : m.hash = n.prev /\ m.id < n.id
              /\ \E t \in Texts : n.hash = Append(n.prev, t)
  <1>1. writer[w].pc = "commit" /\ writer[w] # Idle
    BY NotIdle DEF Commit
  <1>2. PICK entry \in Entry :
            /\ entry = EntryOf(writer[w])
            /\ entry.id = writer[w].id /\ entry.prev = writer[w].prev
            /\ \E t \in Texts : entry.hash = Append(entry.prev, t)
    BY <1>1, EntryType DEF IInv
  <1>3. rows' = rows \cup {entry}
    BY <1>2 DEF Commit
  <1>4. \A e \in rows : e.id # entry.id
    BY <1>1, <1>2 DEF IInv, OpenIdInv
  <1>5. entry.prev = GENESIS \/ \E e \in rows : e.hash = entry.prev /\ e.id < entry.id
    BY <1>1, <1>2 DEF IInv, ParentInv
  <1>6. PICK n : n = Node(entry)
    OBVIOUS
  <1>7. n.id = entry.id /\ n.prev = entry.prev /\ n.hash = entry.hash
    BY <1>6 DEF Node
  <1>8. Nodes' = Nodes \cup {n}
    BY <1>3, <1>6 DEF Nodes, Node
  <1>9. \A m \in Nodes : m.id # n.id
    BY <1>4, <1>7 DEF Nodes, Node
  <1>10. n.prev = GENESIS \/ \E m \in Nodes : m.hash = n.prev /\ m.id < n.id
    <2>1. ASSUME NEW e \in rows, e.hash = entry.prev, e.id < entry.id
          PROVE  \E m \in Nodes : m.hash = n.prev /\ m.id < n.id
      <3>1. Node(e) \in Nodes
        BY DEF Nodes
      <3>2. Node(e).hash = e.hash /\ Node(e).id = e.id
        BY DEF Node
      <3> QED BY <1>7, <2>1, <3>1, <3>2
    <2> QED BY <1>5, <1>7, <2>1
  <1>11. n \notin Nodes
    BY <1>9
  <1> QED BY <1>2, <1>7, <1>8, <1>9, <1>10, <1>11

\* Every step is a step of HashTree or leaves the tree as it is.
LEMMA NextGrows == IInv /\ [Next]_vars => [T!Next]_Nodes
  <1> SUFFICES ASSUME IInv, [Next]_vars PROVE [T!Next]_Nodes
    OBVIOUS
  <1>1. CASE UNCHANGED rows
    BY <1>1 DEF Nodes
  <1>2. ASSUME NEW w \in Writers, Commit(w) PROVE [T!Next]_Nodes
    BY <1>2, CommitGrows DEF T!Next, T!Grow, Nodes, Node
  <1>3. UNCHANGED rows \/ \E w \in Writers : Commit(w)
    BY DEF Next, Proceed, vars, AppendAuditEntry, Connect, SelectLast, LockLast, InsertEntry,
           Rollback
  <1> QED BY <1>1, <1>2, <1>3

\* appendAuditEntry: whatever writers run concurrently or roll back, entries are only
\* ever added, each over the hash of an entry committed before it.
THEOREM ImplementsHashTree == Spec => TreeSpec
  <1>1. Init => T!Init
    BY DEF Init, T!Init
  <1>2. IInv /\ [Next]_vars =>
            [T!Next]_({[id |-> e.id, prev |-> e.prev, hash |-> e.hash] : e \in rows})
    BY NextGrows DEF Nodes, Node
  <1> QED BY <1>1, <1>2, InvHolds, PTL DEF Spec, TreeSpec, T!Spec

-----------------------------------------------------------------------------
\* One writer at a time: what it read is the end of the log still when it commits.
AtEnd(w) ==
    /\ writer[w].pc \in {"lock", "insert", "commit"} =>
          writer[w].prev = IF rows = {} THEN GENESIS ELSE Last(rows).hash
    /\ writer[w].pc \in {"connect", "select"} => writer[w].prev = GENESIS
    /\ writer[w].pc = "commit" => \A e \in rows : e.id < writer[w].id

SerialInv ==
    ~overlapped =>
        /\ \A v, w \in Writers : writer[v] # Idle /\ writer[w] # Idle => v = w
        /\ \A w \in Writers : writer[w] # Idle => AtEnd(w)
        /\ LinearWhenSerial

\* An empty log is linear.
LEMMA InitSerial == Init => SerialInv
  BY DEF Init, SerialInv, LinearWhenSerial

\* A step that leaves the log alone and has its writer still at the end of it.
LEMMA WriterSerial ==
    ASSUME IInv, SerialInv, UNCHANGED rows, NEW w \in Writers, NEW new \in Busy \cup {Idle},
           writer' = [writer EXCEPT ![w] = new],
           overlapped' = overlapped, writer[w] # Idle,
           AtEnd(w) /\ new # Idle => AtEnd(w)'
    PROVE  SerialInv'
  <1> SUFFICES ASSUME ~overlapped'
               PROVE  /\ \A v, u \in Writers : writer'[v] # Idle /\ writer'[u] # Idle => v = u
                      /\ \A v \in Writers : writer'[v] # Idle => AtEnd(v)'
                      /\ LinearWhenSerial'
    BY DEF SerialInv
  <1>1. /\ writer'[w] = new /\ \A v \in Writers : v # w => writer'[v] = writer[v]
    BY DEF IInv, TypeOK
  <1>2. \A v \in Writers : v # w => writer[v] = Idle
    BY DEF SerialInv
  <1>3. AtEnd(w)
    BY DEF SerialInv
  <1>4. \A v, u \in Writers : writer'[v] # Idle /\ writer'[u] # Idle => v = u
    BY <1>1, <1>2
  <1>5. \A v \in Writers : writer'[v] # Idle => AtEnd(v)'
    BY <1>1, <1>2, <1>3
  <1>6. LinearWhenSerial'
    BY DEF SerialInv, LinearWhenSerial, LinkBroken, PrevHash
  <1> QED BY <1>4, <1>5, <1>6

\* An append that begins while another is under way ends the claim; one that begins
\* alone has read nothing yet.
LEMMA AppendSerial ==
    ASSUME IInv, SerialInv, NEW w \in Writers, NEW t \in EntryTypes, NEW s \in Subjects,
           AppendAuditEntry(w, t, s)
    PROVE  SerialInv'
  <1> SUFFICES ASSUME ~overlapped' PROVE SerialInv'
    BY DEF SerialInv
  <1>1. /\ UNCHANGED rows /\ ~overlapped /\ \A v \in Writers : writer[v] = Idle
    BY DEF AppendAuditEntry
  <1>2. /\ writer'[w].pc = "connect" /\ writer'[w].prev = GENESIS
        /\ \A v \in Writers : v # w => writer'[v] = Idle
    BY <1>1 DEF AppendAuditEntry, IInv, TypeOK
  <1>3. AtEnd(w)'
    BY <1>2 DEF AtEnd
  <1>4. LinearWhenSerial'
    BY <1>1 DEF SerialInv, LinearWhenSerial, LinkBroken, PrevHash
  <1> QED BY <1>2, <1>3, <1>4 DEF SerialInv

\* The COMMIT of the only writer puts its entry at the end.
LEMMA CommitSerial ==
    ASSUME IInv, SerialInv, NEW w \in Writers, Commit(w)
    PROVE  SerialInv'
  <1> SUFFICES ASSUME ~overlapped'
               PROVE  /\ \A v \in Writers : writer'[v] = Idle
                      /\ \A e \in rows' : ~LinkBroken(e)'
    BY DEF SerialInv, LinearWhenSerial
  <1>1. ~overlapped /\ writer[w].pc = "commit" /\ writer[w] # Idle
    BY NotIdle DEF Commit
  <1>2. PICK entry \in Entry :
            /\ entry = EntryOf(writer[w])
            /\ entry.id = writer[w].id /\ entry.prev = writer[w].prev
    BY <1>1, EntryType DEF IInv
  <1>3. rows' = rows \cup {entry}
    BY <1>2 DEF Commit
  <1>4. \A v \in Writers : writer'[v] = Idle
    BY <1>1 DEF Commit, SerialInv, IInv, TypeOK
  <1>5. /\ \A e \in rows : e.id < entry.id /\ e.id \in Nat
        /\ entry.id \in Nat
        /\ entry.prev = IF rows = {} THEN GENESIS ELSE Last(rows).hash
    BY <1>1, <1>2 DEF SerialInv, AtEnd, IInv, TypeOK, Entry
  <1>6. {f \in rows' : f.id < entry.id} = rows
    BY <1>3, <1>5
  <1>7. ~LinkBroken(entry)'
    BY <1>5, <1>6 DEF LinkBroken, PrevHash
  <1>8. ASSUME NEW e \in rows PROVE ~LinkBroken(e)'
    <2>1. {f \in rows' : f.id < e.id} = {f \in rows : f.id < e.id}
      BY <1>3, <1>5
    <2>2. ~LinkBroken(e)
      BY <1>1 DEF SerialInv, LinearWhenSerial
    <2> QED BY <2>1, <2>2 DEF LinkBroken, PrevHash
  <1> QED BY <1>3, <1>4, <1>7, <1>8

\* Every step keeps it.
LEMMA NextSerial == IInv /\ SerialInv /\ [Next]_vars => SerialInv'
  <1> SUFFICES ASSUME IInv, SerialInv, [Next]_vars PROVE SerialInv'
    OBVIOUS
  <1>1. CASE UNCHANGED vars
    BY <1>1 DEF vars, SerialInv, AtEnd, LinearWhenSerial, LinkBroken, PrevHash
  <1>2. ASSUME NEW w \in Writers, Connect(w) \/ LockLast(w) PROVE SerialInv'
    <2>1. PICK pc \in {"select", "insert"} : writer' = [writer EXCEPT ![w].pc = pc]
      BY <1>2 DEF Connect, LockLast
    <2>2. /\ writer[w] # Idle /\ writer[w] \in Busy /\ UNCHANGED <<rows, overlapped>>
      BY <1>2, NotIdle, OpenWriter DEF Connect, LockLast, IInv
    <2>3. PICK new : new = [writer[w] EXCEPT !.pc = pc]
      OBVIOUS
    <2>4. /\ new \in Busy /\ new.pc = pc /\ new.prev = writer[w].prev
          /\ writer' = [writer EXCEPT ![w] = new] /\ writer'[w] = new
      BY <2>1, <2>2, <2>3 DEF Busy, IInv, TypeOK
    <2>5. \/ writer[w].pc = "connect" /\ pc = "select"
          \/ writer[w].pc = "lock" /\ pc = "insert"
      <3>1. writer'[w].pc = pc
        BY <2>4
      <3>2. CASE Connect(w)
        <4>1. writer'[w] = [writer[w] EXCEPT !.pc = "select"] /\ writer[w].pc = "connect"
          BY <3>2 DEF Connect, IInv, TypeOK
        <4>2. writer'[w].pc = "select"
          BY <2>2, <4>1 DEF Busy
        <4> QED BY <3>1, <4>1, <4>2
      <3>3. CASE LockLast(w)
        <4>1. writer'[w] = [writer[w] EXCEPT !.pc = "insert"] /\ writer[w].pc = "lock"
          BY <3>3 DEF LockLast, IInv, TypeOK
        <4>2. writer'[w].pc = "insert"
          BY <2>2, <4>1 DEF Busy
        <4> QED BY <3>1, <4>1, <4>2
      <3> QED BY <1>2, <3>2, <3>3
    <2>6. AtEnd(w) => AtEnd(w)'
      BY <2>2, <2>4, <2>5 DEF AtEnd
    <2> QED BY <2>2, <2>4, <2>6, WriterSerial
  <1>3. ASSUME NEW w \in Writers, SelectLast(w) PROVE SerialInv'
    <2>1. /\ writer[w] # Idle /\ writer[w] \in Busy /\ UNCHANGED <<rows, overlapped>>
          /\ writer[w].pc = "select"
      BY <1>3, NotIdle, OpenWriter DEF SelectLast, IInv
    <2>2. PICK new \in Busy :
            /\ writer' = [writer EXCEPT ![w] = new] /\ new.pc \in {"lock", "insert"}
            /\ rows = {} => new.prev = writer[w].prev
            /\ rows # {} => new.prev = Last(rows).hash
      <3>1. CASE rows = {}
        <4>1. PICK new : new = [writer[w] EXCEPT !.pc = "insert"]
          OBVIOUS
        <4>2. new \in Busy /\ new.pc = "insert" /\ new.prev = writer[w].prev
          BY <2>1, <4>1 DEF Busy
        <4>3. writer' = [writer EXCEPT ![w] = new]
          BY <1>3, <3>1, <4>1 DEF SelectLast, Visible
        <4> QED BY <3>1, <4>2, <4>3
      <3>2. CASE rows # {}
        <4>1. PICK last \in Entry : last = Last(rows)
          BY <3>2, LastRow
        <4>2. last.id \in Nat /\ last.hash \in Hashes
          BY <4>1 DEF Entry
        <4>3. PICK new : new = [writer[w] EXCEPT !.pc = "lock", !.target = last.id,
                                                !.prev = last.hash]
          OBVIOUS
        <4>4. new \in Busy /\ new.pc = "lock" /\ new.prev = last.hash
          BY <2>1, <4>2, <4>3 DEF Busy
        <4>5. writer' = [writer EXCEPT ![w] = new]
          BY <1>3, <3>2, <4>1, <4>3 DEF SelectLast, Visible
        <4> QED BY <3>2, <4>1, <4>4, <4>5
      <3> QED BY <3>1, <3>2
    <2>3. writer'[w] = new
      BY <2>2 DEF IInv, TypeOK
    <2>4. AtEnd(w) => AtEnd(w)'
      BY <2>1, <2>2, <2>3 DEF AtEnd
    <2> QED BY <2>1, <2>2, <2>4, WriterSerial
  <1>4. ASSUME NEW w \in Writers, InsertEntry(w) PROVE SerialInv'
    <2>1. /\ writer[w] # Idle /\ writer[w] \in Busy /\ UNCHANGED <<rows, overlapped>>
          /\ writer[w].pc = "insert"
      BY <1>4, NotIdle, OpenWriter DEF InsertEntry, IInv
    <2>2. PICK new : new = [[writer[w] EXCEPT !.pc = "commit"] EXCEPT !.id = nextId]
      OBVIOUS
    <2>3. /\ new \in Busy /\ new.pc = "commit" /\ new.id = nextId
          /\ new.prev = writer[w].prev
      BY <2>1, <2>2 DEF Busy, IInv, TypeOK
    <2>4. writer' = [writer EXCEPT ![w] = new] /\ writer'[w] = new
      BY <1>4, <2>2 DEF InsertEntry, IInv, TypeOK
    <2>5. AtEnd(w) => AtEnd(w)'
      BY <2>1, <2>3, <2>4 DEF AtEnd, IInv, IdInv
    <2> QED BY <2>1, <2>3, <2>4, <2>5, WriterSerial
  <1>5. ASSUME NEW w \in Writers, Rollback(w) PROVE SerialInv'
    <2>1. /\ writer[w] # Idle /\ UNCHANGED <<rows, overlapped>>
          /\ writer' = [writer EXCEPT ![w] = Idle]
      BY <1>5 DEF Rollback
    <2> QED BY <2>1, WriterSerial
  <1> QED BY <1>1, <1>2, <1>3, <1>4, <1>5, AppendSerial, CommitSerial DEF Next, Proceed

\* appendAuditEntry: appends that never overlap make one chain in the order of ids,
\* although a rollback between them leaves a gap in the ids.
THEOREM SerialIsLinear == Spec => []LinearWhenSerial
  <1>1. SerialInv => LinearWhenSerial
    BY DEF SerialInv, LinearWhenSerial
  <1>2. Spec => []SerialInv
    BY InitInv, InitSerial, NextInv, NextSerial, PTL DEF Spec
  <1> QED BY <1>1, <1>2, PTL

-----------------------------------------------------------------------------
(***************************************************************************)
(* The verifier and forks.  A hash is one text longer than the link it was *)
(* computed over, so along a log without a broken link the links only grow *)
(* longer, and no two rows have the same one.                              *)
(***************************************************************************)

\* A stored hash is its row's own link with one text more.
HashInv == \A e \in rows : \E t \in Texts : e.hash = Append(e.prev, t)

LEMMA InitHash == Init => HashInv
  BY DEF Init, HashInv

LEMMA NextHash == IInv /\ HashInv /\ [Next]_vars => HashInv'
  <1> SUFFICES ASSUME IInv, HashInv, [Next]_vars PROVE HashInv'
    OBVIOUS
  <1>1. CASE UNCHANGED rows
    BY <1>1 DEF HashInv
  <1>2. ASSUME NEW w \in Writers, Commit(w) PROVE HashInv'
    <2>1. writer[w] # Idle
      BY <1>2, NotIdle DEF Commit
    <2>2. PICK entry : /\ entry = EntryOf(writer[w])
                       /\ \E t \in Texts : entry.hash = Append(entry.prev, t)
      BY <2>1, EntryType DEF IInv
    <2>3. rows' = rows \cup {entry}
      BY <1>2, <2>2 DEF Commit
    <2> QED BY <2>2, <2>3 DEF HashInv
  <1>3. UNCHANGED rows \/ \E w \in Writers : Commit(w)
    BY DEF Next, Proceed, vars, AppendAuditEntry, Connect, SelectLast, LockLast, InsertEntry,
           Rollback
  <1> QED BY <1>1, <1>2, <1>3

\* The naturals are well ordered.
LEMMA LeastNatural ==
    ASSUME NEW S \in SUBSET Nat, S # {}
    PROVE  \E n \in S : \A m \in S : n <= m
  <1> DEFINE R == OpToRel(<, Nat)
  <1>1. PICK n \in S : \A m \in S : <<m, n>> \notin R
    <2>1. IsWellFoundedOn(R, Nat)
      BY NatLessThanWellFounded
    <2> HIDE DEF R
    <2> QED BY <2>1, WFMin
  <1>2. \A m \in S : ~(m < n)
    BY <1>1 DEF OpToRel
  <1> QED BY <1>2

\* The row before another in the order of ids, which the verifier compares it with.
LEMMA LastBefore ==
    ASSUME IInv, NEW e \in rows, NEW before, before = {f \in rows : f.id < e.id}, before # {}
    PROVE  Last(before) \in before /\ \A f \in before : f.id <= Last(before).id
  <1>1. e.id \in Nat /\ \A f \in before : f \in rows /\ f.id \in Nat /\ f.id < e.id
    BY DEF IInv, TypeOK, Entry
  <1> DEFINE gaps == {e.id - f.id : f \in before}
  <1>2. gaps \in SUBSET Nat /\ gaps # {}
    BY <1>1
  <1>3. PICK n \in gaps : \A m \in gaps : n <= m
    <2> HIDE DEF gaps
    <2> QED BY <1>2, LeastNatural
  <1>4. PICK g \in before : n = e.id - g.id
    BY <1>3
  <1>5. ASSUME NEW f \in before PROVE f.id <= g.id
    <2>1. n <= e.id - f.id
      BY <1>3
    <2> QED BY <1>1, <1>4, <2>1
  <1> QED BY <1>5 DEF Last

\* Without a broken link, a later row's link is longer.
LEMMA LinksGrow ==
    ASSUME IInv, HashInv, \A e \in rows : ~LinkBroken(e)
    PROVE  \A e, f \in rows : e.id < f.id => Len(e.prev) < Len(f.prev)
  <1>0. \A e \in rows : e.id \in Nat /\ e.prev \in Seq(Texts) /\ Len(e.prev) \in Nat
    BY DEF IInv, TypeOK, Entry, Hashes
  <1> DEFINE Bad(f) == \E e \in rows : e.id < f.id /\ ~(Len(e.prev) < Len(f.prev))
             ids    == {f.id : f \in {g \in rows : Bad(g)}}
  <1> SUFFICES ASSUME ids # {} PROVE FALSE
    OBVIOUS
  <1>1. ids \in SUBSET Nat
    BY <1>0
  <1>2. PICK n \in ids : \A m \in ids : n <= m
    <2> HIDE DEF ids
    <2> QED BY <1>1, LeastNatural
  <1>3. PICK f \in rows : f.id = n /\ Bad(f)
    BY <1>2
  <1>4. PICK e \in rows : e.id < f.id /\ ~(Len(e.prev) < Len(f.prev))
    BY <1>3
  <1>5. PICK before : before = {g \in rows : g.id < f.id}
    OBVIOUS
  <1>6. PICK p : p = Last(before)
    OBVIOUS
  <1>7. p \in rows /\ p.id < f.id /\ e.id <= p.id
    <2>1. e \in before
      BY <1>4, <1>5
    <2>2. p \in before /\ \A g \in before : g.id <= p.id
      BY <1>5, <1>6, <2>1, LastBefore
    <2> QED BY <1>5, <2>1, <2>2
  <1>8. f.prev = p.hash
    <2>1. before # {}
      BY <1>4, <1>5
    <2>2. PrevHash(f) = Last(before).hash
      BY <1>5, <2>1 DEF PrevHash
    <2> QED BY <1>6, <2>2 DEF LinkBroken
  <1>9. Len(f.prev) = Len(p.prev) + 1
    <2>1. PICK t \in Texts : p.hash = Append(p.prev, t)
      BY <1>7 DEF HashInv
    <2> QED BY <1>0, <1>7, <1>8, <2>1
  <1>10. CASE e.id = p.id
    <2>1. e = p
      BY <1>7, <1>10 DEF IInv, IdInv
    <2> QED BY <1>0, <1>4, <1>9, <2>1
  <1>11. CASE e.id < p.id
    <2>1. ~Bad(p)
      <3>1. ~(n <= p.id)
        BY <1>0, <1>3, <1>7
      <3> QED BY <1>2, <1>7, <3>1
    <2>2. Len(e.prev) < Len(p.prev)
      BY <1>11, <2>1
    <2> QED BY <1>0, <1>4, <1>7, <1>9, <2>2
  <1> QED BY <1>0, <1>7, <1>10, <1>11

\* scripts/verifyChain.ts: a log in which two entries were chained to the same hash has
\* a row whose stored link is not the hash of the row before it.
THEOREM ForksAreReported == Spec => []ForkIsReported
  <1>1. Spec => [](IInv /\ HashInv)
    BY InitInv, InitHash, NextInv, NextHash, PTL DEF Spec
  <1>2. IInv /\ HashInv => ForkIsReported
    <2> SUFFICES ASSUME IInv, HashInv, NEW e \in rows, NEW f \in rows, e # f,
                        e.prev = f.prev, \A g \in rows : ~LinkBroken(g)
                 PROVE  FALSE
      BY DEF ForkIsReported
    <2>1. /\ e.id \in Nat /\ f.id \in Nat /\ e.id # f.id
          /\ e.prev \in Seq(Texts)
      BY DEF IInv, TypeOK, IdInv, Entry, Hashes
    <2>2. e.id < f.id \/ f.id < e.id
      BY <2>1
    <2>3. PICK n \in Nat : n = Len(e.prev)
      BY <2>1
    <2>4. n < n
      BY <2>2, <2>3, LinksGrow
    <2> QED BY <2>3, <2>4
  <1> QED BY <1>1, <1>2, PTL
=============================================================================
